-------------------------- MODULE WebClientsProofs --------------------------
(***************************************************************************)
(* Proofs about the VPN clients of wireguard-ui, for any number of         *)
(* requests in flight, clients, keys, addresses and server interfaces:     *)
(* addresses and keys stay distinct, the Telegram cache and the agent's    *)
(* peers follow the database, what the configuration file was written from *)
(* is known, and the suggested address is acceptable.                      *)
(***************************************************************************)
EXTENDS WebClients, NatBounds

----------------------------------------------------------------------------
(* The inductive invariant.                                                *)

\* What the control points, clients and snapshots of each kind of request are.
Consistent(r) ==
  /\ r.kind \in {"new", "update", "status"} =>
       r.pc \in {"key", "write", "tg", "chmod", "send"} /\ r.id \in IDs /\ r.client \in Client
  /\ r.kind = "status" => r.pc \in {"write", "tg", "chmod"}
  /\ r.kind = "remove" =>
       r.pc \in {"send", "untag", "delete"} /\ r.id \in IDs /\ (r.pc = "send" => r.client \in Client)
  /\ r.kind = "apply" =>
       /\ r.pc \in {"read", "conf", "hash"} /\ r.id = None
       /\ r.pc = "read" => r.snap \in {None} \X Servers
       /\ r.pc = "conf" => r.snap \in Databases

\* A generated key is the one of the client it was generated for.
Saves(r) == r.kind \in {"new", "update", "status"}
OwnKeys ==
  /\ \A id, x \in IDs : clients[id] # None /\ clients[id].key = GenKey(x) => x = id
  /\ \A i \in Handlers, x \in IDs : h[i] # None /\ Saves(h[i]) /\ h[i].client.key = GenKey(x) => x = h[i].id

Shape ==
  /\ TypeOK
  /\ nextId <= requests + 1
  /\ \A i \in Handlers : h[i] # None => Consistent(h[i])
  /\ OwnKeys

Separate == \A i, j \in Handlers : i # j /\ h[i] # None /\ h[j] # None => ~Collide(h[i], h[j])

\* What a request about one client knows of the file, as nobody else is about that client.
View(r) ==
  /\ Saves(r) /\ r.pc \in {"tg", "chmod", "send"} => clients[r.id] = r.client
  /\ r.kind = "status" /\ r.pc = "write" =>
       /\ clients[r.id] # None /\ clients[r.id].ip = r.client.ip
       /\ clients[r.id].key = r.client.key /\ clients[r.id].endpoint = r.client.endpoint
  /\ r.kind = "remove" /\ r.pc = "send" => clients[r.id] = r.client
Views == \A i \in Handlers : h[i] # None => View(h[i])

\* Nobody but client id has the key, or the address.
KeyFree(id, key) == \A b \in IDs \ {id} : clients[b] # None => clients[b].key # key
AddressFree(id, ip) == \A b \in IDs \ {id} : clients[b] # None => clients[b].ip # ip

\* A key that passed the check is nobody else's, until it is saved.
KeysDistinct ==
  /\ \A a \in IDs : clients[a] # None /\ clients[a].key # None => KeyFree(a, clients[a].key)
  /\ \A i \in Handlers : h[i] # None /\ Claims(h[i]) /\ h[i].pc = "write" /\ h[i].client.key # None =>
       KeyFree(h[i].id, h[i].client.key)

\* So is an address.
AddressesDistinct ==
  /\ \A a \in IDs : clients[a] # None => AddressFree(a, clients[a].ip)
  /\ \A i \in Handlers : h[i] # None /\ Claims(h[i]) /\ h[i].pc \in {"key", "write"} =>
       AddressFree(h[i].id, h[i].client.ip)

ApartInv == apart => Separate /\ Views /\ KeysDistinct /\ (readOK => AddressesDistinct)

\* The cache is right about a client that nobody is about to tag or delete.
Tags(id) == {u \in TgUsers : id \in tg[u]}
TagsOf(c) == IF c # None /\ c.enabled /\ c.tg # None THEN {c.tg} ELSE {}
Busy(id) == \E i \in Handlers : h[i] # None /\ h[i].id = id /\ h[i].pc \in {"tg", "delete"}
TgInv ==
  apart => /\ \A id \in IDs : ~Busy(id) => Tags(id) = TagsOf(clients[id])
           /\ \A i \in Handlers : h[i] # None /\ h[i].pc = "delete" => Tags(h[i].id) = {}

\* A client is a peer, or the request that makes it one, or removes it, is under way.
Sends(r) == \/ Claims(r) /\ r.pc \in {"tg", "chmod", "send"}
            \/ r.kind = "remove" /\ r.pc \in {"untag", "delete"}
Pending(id) == \E i \in Handlers : h[i] # None /\ h[i].id = id /\ Sends(h[i])
PeerInv ==
  apart /\ agentOK =>
    \A id \in IDs : clients[id] # None /\ clients[id].key # None /\ clients[id].endpoint =>
                     clients[id].key \in peers \/ Pending(id)

\* As long as nothing is saved meanwhile, what an apply has read is what is there.
HashInv ==
  untouched =>
    /\ \A i \in Handlers : h[i] # None =>
         /\ h[i].pc = "read" => h[i].snap = <<None, server>>
         /\ h[i].pc = "conf" => h[i].snap = Database
         /\ h[i].pc = "hash" => conf = Database
    /\ hashes \in {None, conf} \/ conf = None \/ \E i \in Handlers : h[i] # None /\ h[i].pc = "hash"

----------------------------------------------------------------------------
(* The first and the last address.                                         *)

\* The least element of a set of addresses.
LEMMA MinIn ==
  ASSUME NEW S, S \subseteq Nat, S # {}
  PROVE  Min(S) \in S /\ \A y \in S : Min(S) <= y
<1>1. \E x \in S : \A y \in S : x <= y
  BY NatLeast
<1> QED
  BY <1>1, Zenon DEF Min

\* The greatest element of a set of addresses that has one.
LEMMA MaxIn ==
  ASSUME NEW S, S \subseteq Nat, NEW last \in S, \A y \in S : y <= last
  PROVE  Max(S) \in S /\ \A y \in S : y <= Max(S)
<1>1. \A y \in S : last >= y
  OBVIOUS
<1>2. Max(S) \in S /\ \A y \in S : Max(S) >= y
  BY <1>1, Zenon DEF Max
<1> QED
  BY <1>2

----------------------------------------------------------------------------
(* The control points: what the moves of a handler leave of the others.    *)

\* A handler that goes on keeps all but its control point.
LEMMA GotoMoves ==
  ASSUME h \in [Handlers -> Handler \cup {None}], NEW i \in Handlers, h[i] # None,
         NEW p \in {"key", "write", "tg", "chmod", "send", "untag", "delete", "read", "conf", "hash"},
         Goto(i, p)
  PROVE  /\ h' \in [Handlers -> Handler \cup {None}]
         /\ h'[i] \in Handler /\ h'[i] # None
         /\ h'[i].pc = p /\ h'[i].kind = h[i].kind /\ h'[i].id = h[i].id
         /\ h'[i].client = h[i].client /\ h'[i].snap = h[i].snap
         /\ \A j \in Handlers \ {i} : h'[j] = h[j]
<1>1. h[i] \in Handler
  OBVIOUS
<1>2. h' = [h EXCEPT ![i] = [h[i] EXCEPT !.pc = p]]
  BY DEF Goto
<1> DEFINE r == [h[i] EXCEPT !.pc = p]
<1>3. /\ r \in Handler /\ r.pc = p /\ r.kind = h[i].kind /\ r.id = h[i].id
      /\ r.client = h[i].client /\ r.snap = h[i].snap
  BY <1>1 DEF Handler
<1>4. r # None
  BY <1>3, NoneAssumption
<1> HIDE DEF r
<1>5. h' = [h EXCEPT ![i] = r]
  BY <1>2 DEF r
<1> QED
  BY <1>3, <1>4, <1>5

\* A handler that ends leaves the others alone.
LEMMA EndMoves ==
  ASSUME h \in [Handlers -> Handler \cup {None}], NEW i \in Handlers, End(i)
  PROVE  /\ h' \in [Handlers -> Handler \cup {None}]
         /\ h'[i] = None
         /\ \A j \in Handlers \ {i} : h'[j] = h[j]
BY DEF End

----------------------------------------------------------------------------
(* The beginning of a request, in one predicate for the five operations.   *)

Started(i, r) ==
  /\ h[i] = None /\ Begin(i, r)
  /\ r \in Handler /\ Consistent(r)
  /\ r.pc \in {"key", "write", "send", "untag", "read"}
  /\ requests < MaxRequests /\ nextId' \in Nat \ {0} /\ nextId' <= requests + 2
  /\ Claims(r) => /\ r.pc \in {"key", "write"}
                  /\ readOK' => readOK /\ AddressFree(r.id, r.client.ip)
  /\ ~Claims(r) => readOK' = readOK
  /\ Saves(r) => \/ r.client.key \in UserKeys \cup {None}
                 \/ clients[r.id] # None /\ r.client.key = clients[r.id].key
  /\ Claims(r) /\ r.pc = "write" => \/ r.client.key = None
                                    \/ clients[r.id] # None /\ r.client.key = clients[r.id].key
  /\ r.kind = "status" => /\ r.pc = "write" /\ clients[r.id] # None
                          /\ clients[r.id].ip = r.client.ip /\ clients[r.id].key = r.client.key
                          /\ clients[r.id].endpoint = r.client.endpoint
  /\ r.kind = "remove" => r.pc # "send" \/ clients[r.id] = r.client
  /\ r.kind = "apply" => r.snap = <<None, server>>

\* An address that was checked against the clients there were is free.
LEMMA ValidatedIsFree ==
  ASSUME NEW i \in Handlers, NEW ip, NEW ignored, ValidateIPAllocation(i, ip, ignored)
  PROVE  readOK' => readOK /\ AddressFree(ignored, ip)
<1>1. PICK allocated \in GetAllocatedIPs(i, ignored) :
        ip \notin allocated /\ readOK' = (readOK /\ allocated # {})
  BY DEF ValidateIPAllocation
<1>2. allocated = Allocated(ignored) \/ allocated = {}
  BY <1>1 DEF GetAllocatedIPs
<1>3. ASSUME readOK' PROVE readOK /\ AddressFree(ignored, ip)
  <2>1. readOK /\ allocated # {}
    BY <1>1, <1>3
  <2>2. ip \notin Allocated(ignored)
    BY <1>1, <1>2, <2>1
  <2>3. ASSUME NEW b \in IDs \ {ignored}, clients[b] # None PROVE clients[b].ip # ip
    BY <2>2, <2>3 DEF Allocated
  <2> QED
    BY <2>1, <2>3 DEF AddressFree
<1> QED
  BY <1>3

\* Of another client, if the request is for a new one.
LEMMA FreeOfAll ==
  ASSUME NEW ip, NEW id, AddressFree(None, ip) PROVE AddressFree(id, ip)
BY NoneAssumption DEF AddressFree

\* NewClient begins a request about a client that is new, with a checked address.
LEMMA NewClientStarts ==
  ASSUME Shape, NEW i \in Handlers, NEW c \in Client, c.key \in UserKeys \cup {None}, NewClient(i, c)
  PROVE  \E r : Started(i, r)
<1> DEFINE r == [pc |-> "key", kind |-> "new", id |-> nextId, client |-> c, snap |-> None]
<1>1. /\ h[i] = None /\ requests < MaxRequests /\ nextId' = nextId + 1 /\ Begin(i, r)
      /\ ValidateIPAllocation(i, c.ip, None)
  BY DEF NewClient, Free
<1>2. nextId \in IDs /\ nextId' \in Nat \ {0} /\ nextId' <= requests + 2
  BY <1>1, ClientsAssumption DEF Shape, TypeOK, IDs
<1>3. r \in Handler /\ Consistent(r)
  BY <1>2 DEF Handler, Consistent
<1>4. readOK' => readOK /\ AddressFree(nextId, c.ip)
  BY <1>1, ValidatedIsFree, FreeOfAll
<1> QED
  BY <1>1, <1>2, <1>3, <1>4 DEF Started, Claims, Saves

\* UpdateClient begins one about a client there is, with a checked address.
LEMMA UpdateClientStarts ==
  ASSUME Shape, NEW i \in Handlers, NEW id \in IDs, NEW c \in Client,
         c.key \in UserKeys \cup {None, clients[id].key}, UpdateClient(i, id, c)
  PROVE  \E r : Started(i, r)
<1> DEFINE p == IF c.key \in {clients[id].key, None} THEN "write" ELSE "key"
           r == [pc |-> p, kind |-> "update", id |-> id, client |-> c, snap |-> None]
<1>1. /\ h[i] = None /\ requests < MaxRequests /\ nextId' = nextId /\ Begin(i, r)
      /\ clients[id] # None /\ ValidateIPAllocation(i, c.ip, id)
  BY DEF UpdateClient, Free
<1>2. nextId' \in Nat \ {0} /\ nextId' <= requests + 2
  BY <1>1, ClientsAssumption DEF Shape, TypeOK
<1>3. r \in Handler /\ Consistent(r) /\ p \in {"write", "key"}
  BY DEF Handler, Consistent
<1>4. readOK' => readOK /\ AddressFree(id, c.ip)
  BY <1>1, ValidatedIsFree
<1>5. p = "write" => c.key = None \/ c.key = clients[id].key
  OBVIOUS
<1> QED
  BY <1>1, <1>2, <1>3, <1>4, <1>5 DEF Started, Claims, Saves

\* SetClientStatus begins with the client's own address and key.
LEMMA SetClientStatusStarts ==
  ASSUME Shape, NEW i \in Handlers, NEW id \in IDs, NEW b \in BOOLEAN, SetClientStatus(i, id, b)
  PROVE  \E r : Started(i, r)
<1> DEFINE c == [clients[id] EXCEPT !.enabled = b]
           r == [pc |-> "write", kind |-> "status", id |-> id, client |-> c, snap |-> None]
<1>1. /\ h[i] = None /\ requests < MaxRequests /\ nextId' = nextId /\ readOK' = readOK /\ Begin(i, r)
      /\ clients[id] # None
  BY DEF SetClientStatus, Free
<1>2. nextId' \in Nat \ {0} /\ nextId' <= requests + 2
  BY <1>1, ClientsAssumption DEF Shape, TypeOK
<1>3. clients[id] \in Client
  BY <1>1 DEF Shape, TypeOK
<1>4. c \in Client /\ c.ip = clients[id].ip /\ c.key = clients[id].key /\ c.endpoint = clients[id].endpoint
  BY <1>3 DEF Client
<1>5. r \in Handler /\ Consistent(r)
  BY <1>4 DEF Handler, Consistent
<1> HIDE DEF c
<1> QED
  BY <1>1, <1>2, <1>4, <1>5 DEF Started, Claims, Saves

\* RemoveClient begins with the client as it is in the database, if it is there.
LEMMA RemoveClientStarts ==
  ASSUME Shape, NEW i \in Handlers, NEW id \in IDs, RemoveClient(i, id)
  PROVE  \E r : Started(i, r)
<1> DEFINE p == IF clients[id] = None THEN "untag" ELSE "send"
           r == [pc |-> p, kind |-> "remove", id |-> id, client |-> clients[id], snap |-> None]
<1>1. h[i] = None /\ requests < MaxRequests /\ nextId' = nextId /\ readOK' = readOK /\ Begin(i, r)
  BY DEF RemoveClient, Free
<1>2. nextId' \in Nat \ {0} /\ nextId' <= requests + 2
  BY <1>1, ClientsAssumption DEF Shape, TypeOK
<1>3. clients[id] \in Client \cup {None} /\ (p = "send" => clients[id] \in Client) /\ p \in {"send", "untag"}
  BY DEF Shape, TypeOK
<1>4. r \in Handler /\ Consistent(r)
  BY <1>3 DEF Handler, Consistent
<1> QED
  BY <1>1, <1>2, <1>3, <1>4 DEF Started, Claims, Saves

\* ApplyServerConfig begins with the interface as it is.
LEMMA ApplyStarts ==
  ASSUME Shape, NEW i \in Handlers, ApplyServerConfig(i)
  PROVE  \E r : Started(i, r)
<1> DEFINE r == [pc |-> "read", kind |-> "apply", id |-> None, client |-> None, snap |-> <<None, server>>]
<1>1. h[i] = None /\ requests < MaxRequests /\ nextId' = nextId /\ readOK' = readOK /\ Begin(i, r)
  BY DEF ApplyServerConfig, Free
<1>2. nextId' \in Nat \ {0} /\ nextId' <= requests + 2
  BY <1>1, ClientsAssumption DEF Shape, TypeOK
<1>3. r \in Handler /\ Consistent(r)
  BY DEF Handler, Consistent, Snapshots, Shape, TypeOK
<1> QED
  BY <1>1, <1>2, <1>3 DEF Started, Claims, Saves

\* A step begins a request, goes on with one, changes the interface or restarts.
LEMMA Steps ==
  ASSUME Shape, Next
  PROVE  \/ \E i \in Handlers : \/ \E r : Started(i, r)
                                \/ Finish(i)
         \/ \E s \in Servers : SetInterface(s)
         \/ Restart
<1> SUFFICES ASSUME NEW i \in Handlers,
                    \/ \E k \in UserKeys \cup {None}, in \in Inputs :
                         LET c(key) == [ip |-> in.ip, key |-> key, enabled |-> in.enabled, tg |-> in.tg,
                                        endpoint |-> in.endpoint]
                         IN  \/ NewClient(i, c(k))
                             \/ \E id \in IDs : \/ UpdateClient(i, id, c(k))
                                                \/ clients[id] # None /\ UpdateClient(i, id, c(clients[id].key))
                    \/ \E id \in IDs : RemoveClient(i, id) \/ \E b \in BOOLEAN : SetClientStatus(i, id, b)
                    \/ ApplyServerConfig(i)
             PROVE  \E r : Started(i, r)
  BY DEF Next
<1>1. ASSUME NEW k \in UserKeys \cup {None}, NEW in \in Inputs,
             LET c(key) == [ip |-> in.ip, key |-> key, enabled |-> in.enabled, tg |-> in.tg,
                            endpoint |-> in.endpoint]
             IN  \/ NewClient(i, c(k))
                 \/ \E id \in IDs : \/ UpdateClient(i, id, c(k))
                                    \/ clients[id] # None /\ UpdateClient(i, id, c(clients[id].key))
      PROVE  \E r : Started(i, r)
  <2> DEFINE c(key) == [ip |-> in.ip, key |-> key, enabled |-> in.enabled, tg |-> in.tg,
                        endpoint |-> in.endpoint]
  <2>1. ASSUME NEW key \in Keys \cup {None} PROVE c(key) \in Client /\ c(key).key = key
    BY ClientsAssumption DEF Client
  <2>2. k \in Keys \cup {None}
    BY DEF Keys
  <2>3. CASE NewClient(i, c(k))
    BY <2>1, <2>2, <2>3, NewClientStarts
  <2>4. ASSUME NEW id \in IDs, UpdateClient(i, id, c(k)) PROVE \E r : Started(i, r)
    BY <2>1, <2>2, <2>4, UpdateClientStarts
  <2>5. ASSUME NEW id \in IDs, clients[id] # None, UpdateClient(i, id, c(clients[id].key))
        PROVE  \E r : Started(i, r)
    <3>1. clients[id].key \in Keys \cup {None}
      BY <2>5 DEF Shape, TypeOK, Client
    <3> QED
      BY <2>1, <2>5, <3>1, UpdateClientStarts
  <2> QED
    BY <1>1, <2>3, <2>4, <2>5
<1> QED
  BY <1>1, RemoveClientStarts, SetClientStatusStarts, ApplyStarts

----------------------------------------------------------------------------
(* Shape is inductive.                                                     *)

\* What the beginning of a request changes.
LEMMA BeginMoves ==
  ASSUME Shape, NEW i \in Handlers, NEW r, Started(i, r)
  PROVE  /\ h' \in [Handlers -> Handler \cup {None}]
         /\ h'[i] = r /\ r \in Handler /\ r # None /\ h[i] = None
         /\ \A j \in Handlers \ {i} : h'[j] = h[j]
         /\ UNCHANGED <<clients, server, tg, range, conf, hashes, peers, untouched, agentOK>>
         /\ requests' = requests + 1
         /\ apart' = (apart /\ \A j \in Handlers : h[j] = None \/ ~Collide(r, h[j]))
<1>1. r \in Handler /\ h[i] = None /\ h' = [h EXCEPT ![i] = r] /\ h \in [Handlers -> Handler \cup {None}]
  BY DEF Started, Begin, Shape, TypeOK
<1>2. r # None
  BY <1>1, NoneAssumption
<1>3. /\ h' \in [Handlers -> Handler \cup {None}] /\ h'[i] = r
      /\ \A j \in Handlers \ {i} : h'[j] = h[j]
  BY <1>1
<1> QED
  BY <1>1, <1>2, <1>3 DEF Started, Begin, store, applied

\* A user's key is no generated one.
LEMMA GeneratedKeys ==
  /\ \A x, y : GenKey(x) = GenKey(y) => x = y
  /\ \A x \in IDs : /\ GenKey(x) \in Keys /\ GenKey(x) \notin UserKeys
                    /\ GenKey(x) # None
<1>1. \A x, y : GenKey(x) = GenKey(y) => x = y
  BY DEF GenKey
<1> QED
  BY <1>1, NoneAssumption DEF Keys

\* The initial state has the shape.
LEMMA ShapeInit == Init => Shape
<1> SUFFICES ASSUME Init PROVE Shape
  OBVIOUS
<1>1. TypeOK
  <2>1. clients \in [IDs -> Client \cup {None}] /\ server \in Servers
    BY ClientsAssumption DEF Init
  <2>2. conf \in Databases
    BY <2>1 DEF Init, Database, Databases
  <2> QED
    BY <2>1, <2>2, ClientsAssumption DEF Init, TypeOK, ValidateAndFixSubnetRanges
<1>2. \A i \in Handlers : h[i] = None
  BY DEF Init
<1>3. \A id \in IDs : clients[id] = None
  BY DEF Init
<1>4. nextId <= requests + 1
  BY DEF Init
<1> QED
  BY <1>1, <1>2, <1>3, <1>4 DEF Shape, OwnKeys

\* The beginning of a request keeps it.
LEMMA StartShape ==
  ASSUME Shape, NEW i \in Handlers, NEW r, Started(i, r)
  PROVE  Shape'
<1>1. /\ h' \in [Handlers -> Handler \cup {None}]
      /\ h'[i] = r /\ r \in Handler /\ r # None /\ h[i] = None
      /\ \A j \in Handlers \ {i} : h'[j] = h[j]
      /\ UNCHANGED <<clients, server, tg, range, conf, hashes, peers, untouched, agentOK>>
      /\ requests' = requests + 1
  BY BeginMoves
<1>2. nextId' \in Nat \ {0} /\ nextId' <= requests + 2 /\ requests < MaxRequests
  BY DEF Started
<1>3. TypeOK' /\ nextId' <= requests' + 1
  BY <1>1, <1>2, ClientsAssumption DEF Shape, TypeOK
<1>4. Consistent(r)
  BY DEF Started
<1>5. \A j \in Handlers : h'[j] # None => Consistent(h'[j])
  BY <1>1, <1>4 DEF Shape
<1>6. OwnKeys'
  <2>1. ASSUME NEW x \in IDs, Saves(r), r.client.key = GenKey(x) PROVE x = r.id
    <3>1. r.id \in IDs
      BY <1>4, <2>1 DEF Consistent, Saves
    <3>2. clients[r.id] # None /\ r.client.key = clients[r.id].key
      BY <2>1, GeneratedKeys DEF Started
    <3> QED
      BY <2>1, <3>1, <3>2 DEF Shape, OwnKeys
  <2>2. \A j \in Handlers, x \in IDs : h'[j] # None /\ Saves(h'[j]) /\ h'[j].client.key = GenKey(x) => x = h'[j].id
    BY <1>1, <2>1 DEF Shape, OwnKeys
  <2>3. \A id, x \in IDs : clients'[id] # None /\ clients'[id].key = GenKey(x) => x = id
    BY <1>1 DEF Shape, OwnKeys
  <2> QED
    BY <2>2, <2>3 DEF OwnKeys
<1> QED
  BY <1>3, <1>5, <1>6 DEF Shape

\* Key generation and the reading of the clients change more than the control point.
LEMMA GenerateMoves ==
  ASSUME Shape, NEW i \in Handlers, h[i] # None, h[i].kind \in {"new", "update", "status"},
         h' = [h EXCEPT ![i].pc = "write", ![i].client.key = GenKey(h[i].id)]
  PROVE  /\ h' \in [Handlers -> Handler \cup {None}]
         /\ h'[i] \in Handler /\ h'[i] # None
         /\ h'[i].pc = "write" /\ h'[i].kind = h[i].kind /\ h'[i].id = h[i].id
         /\ h'[i].client \in Client /\ h'[i].client.key = GenKey(h[i].id)
         /\ h'[i].client.ip = h[i].client.ip
         /\ \A j \in Handlers \ {i} : h'[j] = h[j]
<1>1. h[i] \in Handler /\ h[i].client \in Client /\ h[i].id \in IDs
  BY DEF Shape, TypeOK, Consistent
<1> DEFINE c == [h[i].client EXCEPT !.key = GenKey(h[i].id)]
           r == [h[i] EXCEPT !.pc = "write", !.client = c]
<1>2. GenKey(h[i].id) \in Keys
  BY <1>1, GeneratedKeys
<1>3. c \in Client /\ c.key = GenKey(h[i].id) /\ c.ip = h[i].client.ip
  BY <1>1, <1>2 DEF Client
<1>4. h' = [h EXCEPT ![i] = r]
  BY <1>1 DEF Handler, Shape, TypeOK
<1> HIDE DEF c
<1>5. /\ r \in Handler /\ r.pc = "write" /\ r.kind = h[i].kind /\ r.id = h[i].id /\ r.client = c
  BY <1>1, <1>3 DEF Handler
<1>6. r # None
  BY <1>5, NoneAssumption
<1>7. h \in [Handlers -> Handler \cup {None}]
  BY DEF Shape, TypeOK
<1> HIDE DEF r
<1> QED
  BY <1>3, <1>4, <1>5, <1>6, <1>7

\* The clients are added to the interface that was read.
LEMMA ReadMoves ==
  ASSUME Shape, NEW i \in Handlers, h[i] # None, h[i].pc = "read",
         h' = [h EXCEPT ![i].pc = "conf", ![i].snap = <<clients, h[i].snap[2]>>]
  PROVE  /\ h' \in [Handlers -> Handler \cup {None}]
         /\ h'[i] \in Handler /\ h'[i] # None
         /\ h'[i].pc = "conf" /\ h'[i].kind = h[i].kind /\ h'[i].id = h[i].id
         /\ h'[i].snap \in Databases /\ h'[i].snap = <<clients, h[i].snap[2]>>
         /\ \A j \in Handlers \ {i} : h'[j] = h[j]
<1>1. h[i] \in Handler /\ h[i].snap \in {None} \X Servers
  BY DEF Shape, TypeOK, Consistent, Handler
<1> DEFINE d == <<clients, h[i].snap[2]>>
           r == [h[i] EXCEPT !.pc = "conf", !.snap = d]
<1>2. d \in Databases /\ d \in Snapshots
  BY <1>1 DEF Databases, Snapshots, Shape, TypeOK
<1>3. h' = [h EXCEPT ![i] = r]
  BY <1>1 DEF Handler, Shape, TypeOK
<1> HIDE DEF d
<1>4. r \in Handler /\ r.pc = "conf" /\ r.kind = h[i].kind /\ r.id = h[i].id /\ r.snap = d
  BY <1>1, <1>2 DEF Handler
<1>5. r # None
  BY <1>4, NoneAssumption
<1>6. h \in [Handlers -> Handler \cup {None}]
  BY DEF Shape, TypeOK
<1> HIDE DEF r
<1>7. /\ h' \in [Handlers -> Handler \cup {None}] /\ h'[i] = r
      /\ \A j \in Handlers \ {i} : h'[j] = h[j]
  BY <1>3, <1>4, <1>5, <1>6
<1> QED
  BY <1>2, <1>4, <1>5, <1>7 DEF d

\* What is left to show of Shape when handler i moves on or ends.
LEMMA MoveShape ==
  ASSUME Shape, NEW i \in Handlers, TypeOK',
         UNCHANGED <<requests, nextId>>,
         \A j \in Handlers \ {i} : h'[j] = h[j],
         h'[i] # None => Consistent(h'[i]),
         \A id, x \in IDs : clients'[id] # None /\ clients'[id].key = GenKey(x) => x = id,
         \A x \in IDs : h'[i] # None /\ Saves(h'[i]) /\ h'[i].client.key = GenKey(x) => x = h'[i].id
  PROVE  Shape'
<1>1. nextId' <= requests' + 1
  BY DEF Shape
<1>2. \A j \in Handlers : h'[j] # None => Consistent(h'[j])
  BY DEF Shape
<1>3. OwnKeys'
  BY DEF Shape, OwnKeys
<1> QED
  BY <1>1, <1>2, <1>3 DEF Shape

\* Handler i goes on to p, or ends.
Moved(i, p) ==
  /\ h[i] # None /\ h'[i] # None
  /\ h'[i].pc = p /\ h'[i].kind = h[i].kind /\ h'[i].id = h[i].id
  /\ h'[i].client = h[i].client /\ h'[i].snap = h[i].snap
  /\ \A j \in Handlers \ {i} : h'[j] = h[j]
Ended(i) == h[i] # None /\ h'[i] = None /\ \A j \in Handlers \ {i} : h'[j] = h[j]

\* The key was generated, or nobody has it.
KeyReady(i) ==
  \/ /\ h[i].client.key = None
     /\ h[i] # None /\ h'[i] # None
     /\ h'[i].pc = "write" /\ h'[i].kind = h[i].kind /\ h'[i].id = h[i].id
     /\ h'[i].client \in Client /\ h'[i].client.key = GenKey(h[i].id)
     /\ h'[i].client.ip = h[i].client.ip
     /\ \A j \in Handlers \ {i} : h'[j] = h[j]
  \/ /\ h[i].client.key # None
     /\ \A id \in IDs : clients[id] # None => clients[id].key # h[i].client.key
     /\ Moved(i, "write")
  \/ Ended(i)

\* CheckKey leaves a key that was generated or is nobody's, or ends the request.
LEMMA CheckKeyMoves ==
  ASSUME Shape, NEW i \in Handlers, CheckKey(i)
  PROVE  /\ h[i] # None /\ h[i].pc = "key" /\ Claims(h[i])
         /\ h' \in [Handlers -> Handler \cup {None}] /\ KeyReady(i)
         /\ UNCHANGED <<store, applied, peers, requests, nextId, readOK, apart, untouched, agentOK>>
<1>1. h[i] # None /\ h[i].pc = "key"
  BY DEF CheckKey, At
<1>2. h[i] \in Handler /\ h \in [Handlers -> Handler \cup {None}]
  BY <1>1 DEF Shape, TypeOK
<1>3. h[i].kind \in {"new", "update"}
  BY <1>1, <1>2 DEF Shape, Consistent, Handler
<1> DEFINE k == h[i].client.key
<1>4. \/ k = None /\ h' = [h EXCEPT ![i].pc = "write", ![i].client.key = GenKey(h[i].id)]
      \/ End(i)
      \/ /\ k # None /\ Goto(i, "write")
         /\ \A id \in IDs : clients[id] # None => clients[id].key # k
  BY DEF CheckKey
<1>5. h' \in [Handlers -> Handler \cup {None}] /\ KeyReady(i)
  <2>1. CASE k = None /\ h' = [h EXCEPT ![i].pc = "write", ![i].client.key = GenKey(h[i].id)]
    BY <1>1, <1>3, <2>1, GenerateMoves DEF KeyReady
  <2>2. CASE End(i)
    BY <1>1, <1>2, <2>2, EndMoves DEF KeyReady, Ended
  <2>3. CASE /\ k # None /\ Goto(i, "write")
             /\ \A id \in IDs : clients[id] # None => clients[id].key # k
    BY <1>1, <1>2, <2>3, GotoMoves DEF KeyReady, Moved
  <2> QED
    BY <1>4, <2>1, <2>2, <2>3
<1> QED
  BY <1>1, <1>3, <1>5 DEF CheckKey, Claims, count

\* WriteFile is a step of a request that saves.
LEMMA WriteFileMoves ==
  ASSUME Shape, NEW i \in Handlers, WriteFile(i)
  PROVE  /\ h[i] # None /\ h[i].pc = "write" /\ Saves(h[i])
         /\ h[i].id \in IDs /\ h[i].client \in Client
         /\ h' \in [Handlers -> Handler \cup {None}] /\ Moved(i, "tg")
         /\ clients' = [clients EXCEPT ![h[i].id] = h[i].client] /\ Save
         /\ UNCHANGED <<server, tg, range, conf, hashes, peers, requests, nextId, readOK, apart, agentOK>>
<1>1. h[i] # None /\ h[i].pc = "write"
  BY DEF WriteFile, At
<1>2. h[i] \in Handler /\ h \in [Handlers -> Handler \cup {None}]
  BY <1>1 DEF Shape, TypeOK
<1>3. Saves(h[i]) /\ h[i].id \in IDs /\ h[i].client \in Client
  BY <1>1, <1>2 DEF Shape, Consistent, Handler, Saves
<1>4. h' \in [Handlers -> Handler \cup {None}] /\ Moved(i, "tg")
  BY <1>1, <1>2, GotoMoves DEF WriteFile, Moved
<1> QED
  BY <1>1, <1>3, <1>4 DEF WriteFile, count, applied

\* So is TagClient.
LEMMA TagClientMoves ==
  ASSUME Shape, NEW i \in Handlers, TagClient(i)
  PROVE  /\ h[i] # None /\ h[i].pc = "tg" /\ Saves(h[i])
         /\ h[i].id \in IDs /\ h[i].client \in Client
         /\ h' \in [Handlers -> Handler \cup {None}] /\ Moved(i, "chmod")
         /\ tg' = Tagged(h[i].id, h[i].client)
         /\ UNCHANGED <<clients, server, range, conf, hashes, peers, requests, nextId, readOK, apart, untouched, agentOK>>
<1>1. h[i] # None /\ h[i].pc = "tg"
  BY DEF TagClient, At
<1>2. h[i] \in Handler /\ h \in [Handlers -> Handler \cup {None}]
  BY <1>1 DEF Shape, TypeOK
<1>3. Saves(h[i]) /\ h[i].id \in IDs /\ h[i].client \in Client
  BY <1>1, <1>2 DEF Shape, Consistent, Handler, Saves
<1>4. h' \in [Handlers -> Handler \cup {None}] /\ Moved(i, "chmod")
  BY <1>1, <1>2, GotoMoves DEF TagClient, Moved
<1> QED
  BY <1>1, <1>3, <1>4 DEF TagClient, count, applied

\* ManagePerms ends a change of the status, and a request whose file has gone.
LEMMA ManagePermsMoves ==
  ASSUME Shape, NEW i \in Handlers, ManagePerms(i)
  PROVE  /\ h[i] # None /\ h[i].pc = "chmod" /\ Saves(h[i])
         /\ h[i].id \in IDs /\ h[i].client \in Client
         /\ h' \in [Handlers -> Handler \cup {None}]
         /\ \/ Ended(i) /\ (h[i].kind = "status" \/ clients[h[i].id] = None)
            \/ Moved(i, "send") /\ Claims(h[i])
         /\ UNCHANGED <<store, applied, peers, requests, nextId, readOK, apart, untouched, agentOK>>
<1>1. h[i] # None /\ h[i].pc = "chmod"
  BY DEF ManagePerms, At
<1>2. h[i] \in Handler /\ h \in [Handlers -> Handler \cup {None}]
  BY <1>1 DEF Shape, TypeOK
<1>3. Saves(h[i]) /\ h[i].id \in IDs /\ h[i].client \in Client
  BY <1>1, <1>2 DEF Shape, Consistent, Handler, Saves
<1>4. CASE h[i].kind = "status" \/ clients[h[i].id] = None
  <2>1. End(i)
    BY <1>4 DEF ManagePerms
  <2> QED
    BY <1>1, <1>2, <1>3, <1>4, <2>1, EndMoves DEF ManagePerms, Ended, count
<1>5. CASE ~(h[i].kind = "status" \/ clients[h[i].id] = None)
  <2>1. Goto(i, "send")
    BY <1>5 DEF ManagePerms
  <2>2. h' \in [Handlers -> Handler \cup {None}] /\ Moved(i, "send")
    BY <1>1, <1>2, <2>1, GotoMoves DEF Moved
  <2> QED
    BY <1>1, <1>2, <1>3, <1>5, <2>2 DEF ManagePerms, count, Claims, Saves
<1> QED
  BY <1>4, <1>5

\* Xsend ends a save, and is the first step of a removal.
LEMMA XsendMoves ==
  ASSUME Shape, NEW i \in Handlers, Xsend(i)
  PROVE  /\ h[i] # None /\ h[i].pc = "send" /\ h[i].id \in IDs /\ h[i].client \in Client
         /\ h' \in [Handlers -> Handler \cup {None}]
         /\ \/ Moved(i, "untag") /\ h[i].kind = "remove"
            \/ Ended(i) /\ Claims(h[i])
         /\ \/ peers' = PeersAfter(i) /\ agentOK' = agentOK
            \/ peers' = peers /\ agentOK' = FALSE
         /\ UNCHANGED <<store, applied, requests, nextId, readOK, apart, untouched>>
<1>1. h[i] # None /\ h[i].pc = "send"
  BY DEF Xsend, At
<1>2. h[i] \in Handler /\ h \in [Handlers -> Handler \cup {None}]
  BY <1>1 DEF Shape, TypeOK
<1>3. /\ h[i].id \in IDs /\ h[i].client \in Client
      /\ h[i].kind = "remove" \/ Claims(h[i])
  BY <1>1, <1>2 DEF Shape, Consistent, Handler, Claims
<1>4. /\ \/ peers' = PeersAfter(i) /\ agentOK' = agentOK
         \/ peers' = peers /\ agentOK' = FALSE
      /\ UNCHANGED <<store, applied, requests, nextId, readOK, apart, untouched>>
  BY DEF Xsend, count
<1>5. CASE h[i].kind = "remove"
  <2>1. Goto(i, "untag")
    BY <1>5 DEF Xsend
  <2>2. h' \in [Handlers -> Handler \cup {None}] /\ Moved(i, "untag")
    BY <1>1, <1>2, <2>1, GotoMoves DEF Moved
  <2> QED
    BY <1>1, <1>3, <1>4, <1>5, <2>2
<1>6. CASE h[i].kind # "remove"
  <2>1. End(i)
    BY <1>6 DEF Xsend
  <2>2. h' \in [Handlers -> Handler \cup {None}] /\ Ended(i)
    BY <1>1, <1>2, <2>1, EndMoves DEF Ended
  <2> QED
    BY <1>1, <1>3, <1>4, <1>6, <2>2
<1> QED
  BY <1>5, <1>6

\* UntagClient is a step of a removal.
LEMMA UntagClientMoves ==
  ASSUME Shape, NEW i \in Handlers, UntagClient(i)
  PROVE  /\ h[i] # None /\ h[i].pc = "untag" /\ h[i].kind = "remove" /\ h[i].id \in IDs
         /\ h' \in [Handlers -> Handler \cup {None}] /\ Moved(i, "delete")
         /\ tg' = Untagged(h[i].id)
         /\ UNCHANGED <<clients, server, range, conf, hashes, peers, requests, nextId, readOK, apart, untouched, agentOK>>
<1>1. h[i] # None /\ h[i].pc = "untag"
  BY DEF UntagClient, At
<1>2. h[i] \in Handler /\ h \in [Handlers -> Handler \cup {None}]
  BY <1>1 DEF Shape, TypeOK
<1>3. h[i].kind = "remove" /\ h[i].id \in IDs
  BY <1>1, <1>2 DEF Shape, Consistent, Handler
<1>4. h' \in [Handlers -> Handler \cup {None}] /\ Moved(i, "delete")
  BY <1>1, <1>2, GotoMoves DEF UntagClient, Moved
<1> QED
  BY <1>1, <1>3, <1>4 DEF UntagClient, count, applied

\* DeleteFile is the last one.
LEMMA DeleteFileMoves ==
  ASSUME Shape, NEW i \in Handlers, DeleteFile(i)
  PROVE  /\ h[i] # None /\ h[i].pc = "delete" /\ h[i].kind = "remove" /\ h[i].id \in IDs
         /\ h' \in [Handlers -> Handler \cup {None}] /\ Ended(i)
         /\ clients' = [clients EXCEPT ![h[i].id] = None] /\ Save
         /\ UNCHANGED <<server, tg, range, conf, hashes, peers, requests, nextId, readOK, apart, agentOK>>
<1>1. h[i] # None /\ h[i].pc = "delete"
  BY DEF DeleteFile, At
<1>2. h[i] \in Handler /\ h \in [Handlers -> Handler \cup {None}]
  BY <1>1 DEF Shape, TypeOK
<1>3. h[i].kind = "remove" /\ h[i].id \in IDs
  BY <1>1, <1>2 DEF Shape, Consistent, Handler
<1>4. h' \in [Handlers -> Handler \cup {None}] /\ Ended(i)
  BY <1>1, <1>2, EndMoves DEF DeleteFile, Ended
<1> QED
  BY <1>1, <1>3, <1>4 DEF DeleteFile, count, applied

\* ReadClients is a step of ApplyServerConfig.
LEMMA ReadClientsMoves ==
  ASSUME Shape, NEW i \in Handlers, ReadClients(i)
  PROVE  /\ h[i] # None /\ h[i].pc = "read" /\ h[i].kind = "apply" /\ h[i].id = None
         /\ h' \in [Handlers -> Handler \cup {None}]
         /\ \/ Ended(i)
            \/ /\ h'[i] # None /\ h'[i].pc = "conf" /\ h'[i].kind = h[i].kind /\ h'[i].id = h[i].id
               /\ h'[i].snap \in Databases /\ h'[i].snap = <<clients, h[i].snap[2]>>
               /\ \A j \in Handlers \ {i} : h'[j] = h[j]
         /\ UNCHANGED <<store, applied, peers, requests, nextId, readOK, apart, untouched, agentOK>>
<1>1. h[i] # None /\ h[i].pc = "read"
  BY DEF ReadClients, At
<1>2. h[i] \in Handler /\ h \in [Handlers -> Handler \cup {None}]
  BY <1>1 DEF Shape, TypeOK
<1>3. h[i].kind = "apply" /\ h[i].id = None
  BY <1>1, <1>2 DEF Shape, Consistent, Handler
<1>4. CASE End(i)
  BY <1>1, <1>2, <1>3, <1>4, EndMoves DEF ReadClients, Ended, count
<1>5. CASE h' = [h EXCEPT ![i].pc = "conf", ![i].snap = <<clients, h[i].snap[2]>>]
  <2>1. /\ h' \in [Handlers -> Handler \cup {None}]
        /\ h'[i] # None /\ h'[i].pc = "conf" /\ h'[i].kind = h[i].kind /\ h'[i].id = h[i].id
        /\ h'[i].snap \in Databases /\ h'[i].snap = <<clients, h[i].snap[2]>>
        /\ \A j \in Handlers \ {i} : h'[j] = h[j]
    BY <1>1, <1>5, ReadMoves
  <2>2. UNCHANGED <<store, applied, peers, requests, nextId, readOK, apart, untouched, agentOK>>
    BY DEF ReadClients, count
  <2> QED
    BY <1>1, <1>3, <2>1, <2>2
<1> QED
  BY <1>4, <1>5 DEF ReadClients

\* WriteConf writes what was read.
LEMMA WriteConfMoves ==
  ASSUME Shape, NEW i \in Handlers, WriteConf(i)
  PROVE  /\ h[i] # None /\ h[i].pc = "conf" /\ h[i].kind = "apply" /\ h[i].id = None
         /\ h[i].snap \in Databases /\ conf' = h[i].snap
         /\ h' \in [Handlers -> Handler \cup {None}] /\ Moved(i, "hash")
         /\ UNCHANGED <<store, hashes, peers, requests, nextId, readOK, apart, untouched, agentOK>>
<1>1. h[i] # None /\ h[i].pc = "conf"
  BY DEF WriteConf, At
<1>2. h[i] \in Handler /\ h \in [Handlers -> Handler \cup {None}]
  BY <1>1 DEF Shape, TypeOK
<1>3. h[i].kind = "apply" /\ h[i].id = None /\ h[i].snap \in Databases
  BY <1>1, <1>2 DEF Shape, Consistent, Handler
<1>4. h' \in [Handlers -> Handler \cup {None}] /\ Moved(i, "hash")
  BY <1>1, <1>2, GotoMoves DEF WriteConf, Moved
<1> QED
  BY <1>1, <1>3, <1>4 DEF WriteConf, count

\* UpdateHashes is the last step of ApplyServerConfig.
LEMMA UpdateHashesMoves ==
  ASSUME Shape, NEW i \in Handlers, UpdateHashes(i)
  PROVE  /\ h[i] # None /\ h[i].pc = "hash" /\ h[i].kind = "apply" /\ h[i].id = None
         /\ hashes' = Database
         /\ h' \in [Handlers -> Handler \cup {None}] /\ Ended(i)
         /\ UNCHANGED <<store, conf, peers, requests, nextId, readOK, apart, untouched, agentOK>>
<1>1. h[i] # None /\ h[i].pc = "hash"
  BY DEF UpdateHashes, At
<1>2. h[i] \in Handler /\ h \in [Handlers -> Handler \cup {None}]
  BY <1>1 DEF Shape, TypeOK
<1>3. h[i].kind = "apply" /\ h[i].id = None
  BY <1>1, <1>2 DEF Shape, Consistent, Handler
<1>4. h' \in [Handlers -> Handler \cup {None}] /\ Ended(i)
  BY <1>1, <1>2, EndMoves DEF UpdateHashes, Ended
<1> QED
  BY <1>1, <1>3, <1>4 DEF UpdateHashes, count

\* Tagging keeps the cache a set of clients for each user.
LEMMA TagTypes ==
  ASSUME Shape, NEW id \in IDs, NEW c \in Client
  PROVE  /\ Untagged(id) \in [TgUsers -> SUBSET IDs]
         /\ Tagged(id, c) \in [TgUsers -> SUBSET IDs]
<1>1. Untagged(id) \in [TgUsers -> SUBSET IDs]
  BY DEF Shape, TypeOK, Untagged
<1>2. c.tg # None => c.tg \in TgUsers
  BY DEF Client
<1> QED
  BY <1>1, <1>2 DEF Tagged

\* Every step of a request that has begun keeps the shape.
LEMMA FinishShape ==
  ASSUME Shape, NEW i \in Handlers, Finish(i)
  PROVE  Shape'
<1> USE DEF Shape
<1>1. CASE CheckKey(i)
  <2>1. /\ h[i] # None /\ h[i].pc = "key" /\ Claims(h[i]) /\ KeyReady(i)
        /\ h' \in [Handlers -> Handler \cup {None}]
        /\ UNCHANGED <<store, applied, peers, requests, nextId>>
    BY <1>1, CheckKeyMoves
  <2>2. TypeOK'
    BY <2>1 DEF TypeOK, store, applied
  <2>3. \A j \in Handlers \ {i} : h'[j] = h[j]
    BY <2>1 DEF KeyReady, Moved, Ended
  <2>4. h'[i] # None => Consistent(h'[i])
    BY <2>1 DEF KeyReady, Moved, Ended, Consistent, Claims
  <2>5. \A x \in IDs : h'[i] # None /\ Saves(h'[i]) /\ h'[i].client.key = GenKey(x) => x = h'[i].id
    BY <2>1, GeneratedKeys DEF KeyReady, Moved, Ended, OwnKeys, Saves
  <2>6. \A id, x \in IDs : clients'[id] # None /\ clients'[id].key = GenKey(x) => x = id
    BY <2>1 DEF OwnKeys, store
  <2> QED
    BY <2>1, <2>2, <2>3, <2>4, <2>5, <2>6, MoveShape
<1>2. CASE WriteFile(i)
  <2>1. /\ h[i] # None /\ h[i].pc = "write" /\ Saves(h[i])
        /\ h[i].id \in IDs /\ h[i].client \in Client
        /\ h' \in [Handlers -> Handler \cup {None}] /\ Moved(i, "tg")
        /\ clients' = [clients EXCEPT ![h[i].id] = h[i].client]
        /\ UNCHANGED <<server, tg, range, conf, hashes, peers, requests, nextId>>
    BY <1>2, WriteFileMoves
  <2>2. TypeOK'
    BY <2>1 DEF TypeOK
  <2>3. \A id, x \in IDs : clients'[id] # None /\ clients'[id].key = GenKey(x) => x = id
    BY <2>1 DEF OwnKeys, TypeOK
  <2>4. h'[i] # None => Consistent(h'[i])
    BY <2>1 DEF Moved, Consistent, Saves
  <2>5. \A x \in IDs : h'[i] # None /\ Saves(h'[i]) /\ h'[i].client.key = GenKey(x) => x = h'[i].id
    BY <2>1 DEF Moved, OwnKeys, Saves
  <2> QED
    BY <2>1, <2>2, <2>3, <2>4, <2>5, MoveShape DEF Moved
<1>3. CASE TagClient(i)
  <2>1. /\ h[i] # None /\ h[i].pc = "tg" /\ Saves(h[i])
        /\ h[i].id \in IDs /\ h[i].client \in Client
        /\ h' \in [Handlers -> Handler \cup {None}] /\ Moved(i, "chmod")
        /\ tg' = Tagged(h[i].id, h[i].client)
        /\ UNCHANGED <<clients, server, range, conf, hashes, peers, requests, nextId>>
    BY <1>3, TagClientMoves
  <2>2. TypeOK'
    BY <2>1, TagTypes DEF TypeOK
  <2>3. h'[i] # None => Consistent(h'[i])
    BY <2>1 DEF Moved, Consistent, Saves
  <2>4. \A x \in IDs : h'[i] # None /\ Saves(h'[i]) /\ h'[i].client.key = GenKey(x) => x = h'[i].id
    BY <2>1 DEF Moved, OwnKeys, Saves
  <2> QED
    BY <2>1, <2>2, <2>3, <2>4, MoveShape DEF Moved, OwnKeys
<1>4. CASE ManagePerms(i)
  <2>1. /\ h[i] # None /\ h[i].pc = "chmod" /\ Saves(h[i])
        /\ h' \in [Handlers -> Handler \cup {None}]
        /\ Ended(i) \/ (Moved(i, "send") /\ Claims(h[i]))
        /\ UNCHANGED <<store, applied, peers, requests, nextId>>
    BY <1>4, ManagePermsMoves
  <2>2. TypeOK'
    BY <2>1 DEF TypeOK, store, applied
  <2>3. h'[i] # None => Consistent(h'[i])
    BY <2>1 DEF Moved, Ended, Consistent, Claims
  <2>4. \A x \in IDs : h'[i] # None /\ Saves(h'[i]) /\ h'[i].client.key = GenKey(x) => x = h'[i].id
    BY <2>1 DEF Moved, Ended, OwnKeys, Saves
  <2> QED
    BY <2>1, <2>2, <2>3, <2>4, MoveShape DEF Moved, Ended, OwnKeys, store
<1>5. CASE Xsend(i)
  <2>1. /\ h[i] # None /\ h[i].pc = "send" /\ h[i].client \in Client
        /\ h' \in [Handlers -> Handler \cup {None}]
        /\ (Moved(i, "untag") /\ h[i].kind = "remove") \/ Ended(i)
        /\ peers' = PeersAfter(i) \/ peers' = peers
        /\ UNCHANGED <<store, applied, requests, nextId>>
    BY <1>5, XsendMoves
  <2>2. peers' \subseteq Keys
    <3>1. {h[i].client.key} \ {None} \subseteq Keys
      BY <2>1 DEF Client
    <3> QED
      BY <2>1, <3>1 DEF PeersAfter, TypeOK
  <2>3. TypeOK'
    BY <2>1, <2>2 DEF TypeOK, store, applied
  <2>4. h'[i] # None => Consistent(h'[i])
    BY <2>1 DEF Moved, Ended, Consistent
  <2>5. \A x \in IDs : h'[i] # None /\ Saves(h'[i]) /\ h'[i].client.key = GenKey(x) => x = h'[i].id
    BY <2>1 DEF Moved, Ended, Saves
  <2> QED
    BY <2>1, <2>3, <2>4, <2>5, MoveShape DEF Moved, Ended, OwnKeys, store
<1>6. CASE UntagClient(i)
  <2>1. /\ h[i] # None /\ h[i].pc = "untag" /\ h[i].kind = "remove" /\ h[i].id \in IDs
        /\ h' \in [Handlers -> Handler \cup {None}] /\ Moved(i, "delete")
        /\ tg' = Untagged(h[i].id)
        /\ UNCHANGED <<clients, server, range, conf, hashes, peers, requests, nextId>>
    BY <1>6, UntagClientMoves
  <2>2. TypeOK'
    BY <2>1 DEF TypeOK, Untagged
  <2>3. h'[i] # None => Consistent(h'[i])
    BY <2>1 DEF Moved, Consistent
  <2>4. ~Saves(h'[i])
    BY <2>1 DEF Moved, Saves
  <2> QED
    BY <2>1, <2>2, <2>3, <2>4, MoveShape DEF Moved, OwnKeys
<1>7. CASE DeleteFile(i)
  <2>1. /\ h[i].id \in IDs /\ Ended(i)
        /\ h' \in [Handlers -> Handler \cup {None}]
        /\ clients' = [clients EXCEPT ![h[i].id] = None]
        /\ UNCHANGED <<server, tg, range, conf, hashes, peers, requests, nextId>>
    BY <1>7, DeleteFileMoves
  <2>2. TypeOK'
    BY <2>1 DEF TypeOK
  <2>3. \A id, x \in IDs : clients'[id] # None /\ clients'[id].key = GenKey(x) => x = id
    BY <2>1 DEF OwnKeys, TypeOK
  <2> QED
    BY <2>1, <2>2, <2>3, MoveShape DEF Ended
<1>8. CASE ReadClients(i)
  <2>1. /\ h[i] # None /\ h[i].pc = "read" /\ h[i].kind = "apply" /\ h[i].id = None
        /\ h' \in [Handlers -> Handler \cup {None}]
        /\ \/ Ended(i)
           \/ /\ h'[i] # None /\ h'[i].pc = "conf" /\ h'[i].kind = h[i].kind /\ h'[i].id = h[i].id
              /\ h'[i].snap \in Databases
              /\ \A j \in Handlers \ {i} : h'[j] = h[j]
        /\ UNCHANGED <<store, applied, peers, requests, nextId>>
    BY <1>8, ReadClientsMoves
  <2>2. TypeOK'
    BY <2>1 DEF TypeOK, store, applied
  <2>3. h'[i] # None => Consistent(h'[i])
    BY <2>1 DEF Ended, Consistent
  <2>4. h'[i] # None => ~Saves(h'[i])
    BY <2>1 DEF Ended, Saves
  <2> QED
    BY <2>1, <2>2, <2>3, <2>4, MoveShape DEF Ended, OwnKeys, store
<1>9. CASE WriteConf(i)
  <2>1. /\ h[i] # None /\ h[i].pc = "conf" /\ h[i].kind = "apply" /\ h[i].id = None
        /\ h[i].snap \in Databases /\ conf' = h[i].snap
        /\ h' \in [Handlers -> Handler \cup {None}] /\ Moved(i, "hash")
        /\ UNCHANGED <<store, hashes, peers, requests, nextId>>
    BY <1>9, WriteConfMoves
  <2>2. TypeOK'
    BY <2>1 DEF TypeOK, store
  <2>3. h'[i] # None => Consistent(h'[i]) /\ ~Saves(h'[i])
    BY <2>1 DEF Moved, Consistent, Saves
  <2> QED
    BY <2>1, <2>2, <2>3, MoveShape DEF Moved, OwnKeys, store
<1>10. CASE UpdateHashes(i)
  <2>1. /\ hashes' = Database /\ Ended(i)
        /\ h' \in [Handlers -> Handler \cup {None}]
        /\ UNCHANGED <<store, conf, peers, requests, nextId>>
    BY <1>10, UpdateHashesMoves
  <2>2. Database \in Databases
    BY DEF Database, Databases, TypeOK
  <2>3. TypeOK'
    BY <2>1, <2>2 DEF TypeOK, store
  <2> QED
    BY <2>1, <2>3, MoveShape DEF Ended, OwnKeys, store
<1> QED
  BY <1>1, <1>2, <1>3, <1>4, <1>5, <1>6, <1>7, <1>8, <1>9, <1>10 DEF Finish

\* Every step keeps the shape.
LEMMA ShapeStep == Shape /\ [Next]_vars => Shape'
<1> SUFFICES ASSUME Shape, [Next]_vars PROVE Shape'
  OBVIOUS
<1>1. ASSUME NEW s \in Servers, SetInterface(s) PROVE Shape'
  <2>1. TypeOK' /\ nextId' <= requests' + 1
    BY <1>1, ClientsAssumption DEF SetInterface, Shape, TypeOK, applied
  <2> QED
    BY <1>1, <2>1 DEF SetInterface, Shape, OwnKeys
<1>2. CASE Restart
  <2>1. TypeOK'
    BY <1>2 DEF Restart, Shape, TypeOK, TgOf, ValidateAndFixSubnetRanges, applied, count
  <2>2. \A i \in Handlers : h'[i] = None
    BY <1>2 DEF Restart
  <2> QED
    BY <1>2, <2>1, <2>2 DEF Restart, Shape, OwnKeys, count
<1>3. CASE UNCHANGED vars
  BY <1>3 DEF vars, store, applied, count, Shape, TypeOK, OwnKeys
<1> QED
  BY <1>1, <1>2, <1>3, Steps, StartShape, FinishShape

\* The clients, the server, the cache, the hashes and the handlers keep their types,
\* and no operation leaves the control points of its kind of request.
THEOREM ClientsTypeCorrect == Spec => []TypeOK
<1>1. Shape => TypeOK
  BY DEF Shape
<1> QED
  BY <1>1, ShapeInit, ShapeStep, PTL DEF Spec

----------------------------------------------------------------------------
(* The suggested address.                                                  *)

\* What GetAvailableIP finds in a part of the server's network.
LEMMA AvailableIsFree ==
  ASSUME Shape, NEW search, search \subseteq server.net
  PROVE  /\ GetAvailableIP(search) \subseteq server.net \ Allocated(None)
         /\ GetAvailableIP(search) = {} =>
              \A ip \in search : ip \in Allocated(None) \cup {Min(server.net), Max(server.net)}
<1> DEFINE free == search \ (Allocated(None) \cup {Min(server.net), Max(server.net)})
<1>1. GetAvailableIP(search) = IF free = {} THEN {} ELSE {Min(free)}
  BY DEF GetAvailableIP
<1>2. free \subseteq Nat
  BY ClientsAssumption DEF Shape, TypeOK
<1>3. free # {} => Min(free) \in free
  <2> HIDE DEF free
  <2> QED
    BY <1>2, MinIn
<1>4. CASE free = {}
  BY <1>1, <1>4
<1>5. CASE free # {}
  BY <1>1, <1>3, <1>5
<1> QED
  BY <1>4, <1>5

\* The suggested address is acceptable in every state of the right shape.
LEMMA ShapeSuggests == Shape => SuggestedIsAccepted
<1> SUFFICES ASSUME Shape, range = ValidateAndFixSubnetRanges(server)
             PROVE  /\ \A named \in BOOLEAN : SuggestIPAllocation(named) \subseteq server.net \ Allocated(None)
                    /\ SuggestIPAllocation(FALSE) = {} =>
                         \A lo, ip, hi \in server.net : lo < ip /\ ip < hi => ip \in Allocated(None)
  BY DEF SuggestedIsAccepted
<1>1. range \subseteq server.net
  BY DEF ValidateAndFixSubnetRanges
<1>2. ASSUME NEW named \in BOOLEAN
      PROVE  SuggestIPAllocation(named) \subseteq server.net \ Allocated(None)
  <2> DEFINE search == IF named /\ range # {} THEN range ELSE server.net
  <2>1. search \subseteq server.net
    BY <1>1
  <2>2. SuggestIPAllocation(named) = GetAvailableIP(search)
    BY DEF SuggestIPAllocation
  <2> HIDE DEF search
  <2> QED
    BY <2>1, <2>2, AvailableIsFree
<1>3. ASSUME SuggestIPAllocation(FALSE) = {},
             NEW lo \in server.net, NEW ip \in server.net, NEW hi \in server.net, lo < ip, ip < hi
      PROVE  ip \in Allocated(None)
  <2>1. GetAvailableIP(server.net) = {}
    BY <1>3 DEF SuggestIPAllocation
  <2>2. ip \in Allocated(None) \cup {Min(server.net), Max(server.net)}
    BY <2>1, AvailableIsFree
  <2>3. PICK last \in server.net : \A a \in server.net : a <= last
    BY ClientsAssumption DEF Shape, TypeOK
  <2>4. server.net \subseteq Nat /\ server.net # {}
    BY ClientsAssumption DEF Shape, TypeOK
  <2>5. Min(server.net) \in Nat /\ Min(server.net) <= lo
    BY <2>4, MinIn
  <2>6. Max(server.net) \in Nat /\ hi <= Max(server.net)
    BY <2>3, <2>4, MaxIn
  <2> QED
    BY <1>3, <2>2, <2>4, <2>5, <2>6
<1> QED
  BY <1>2, <1>3

\* While the subnet range was checked against the interface there is, the address the
\* web UI suggests is one ValidateIPAllocation accepts, and there is one as long as an
\* ordinary address is free (SuggestIPAllocation, GetAvailableIP), for networks of any
\* size and any number of clients.
THEOREM SuggestionsAreAccepted == Spec => []SuggestedIsAccepted
BY ShapeSuggests, ShapeInit, ShapeStep, PTL DEF Spec

----------------------------------------------------------------------------
(* The configuration file and the hashes.                                  *)

\* A save is noted while a configuration is applied: a handler at one of these control
\* points is applying one.
LEMMA NobodyApplies ==
  ASSUME Shape, Save, untouched', NEW j \in Handlers, h[j] # None
  PROVE  untouched /\ h[j].pc \notin {"read", "conf", "hash"}
<1>1. untouched /\ h[j].kind # "apply"
  BY DEF Save
<1>2. h[j] \in Handler /\ Consistent(h[j])
  BY DEF Shape, TypeOK
<1> QED
  BY <1>1, <1>2 DEF Consistent, Handler

\* After a save that is not noted, no configuration is being applied.
LEMMA SaveHash ==
  ASSUME Shape, HashInv, Save, UNCHANGED <<conf, hashes>>,
         \A j \in Handlers : \/ h'[j] = None \/ h'[j] = h[j]
                             \/ h[j] # None /\ h'[j].pc = "tg"
  PROVE  HashInv'
<1> SUFFICES ASSUME untouched'
             PROVE  /\ \A j \in Handlers : h'[j] # None => h'[j].pc \notin {"read", "conf", "hash"}
                    /\ hashes' \in {None, conf'} \/ conf' = None
  BY DEF HashInv
<1>1. \A j \in Handlers : h[j] # None => untouched /\ h[j].pc \notin {"read", "conf", "hash"}
  BY NobodyApplies
<1>2. untouched
  BY DEF Save
<1> QED
  BY <1>1, <1>2 DEF HashInv

\* HashInv holds at the start ...
LEMMA HashInit == Init => HashInv
BY DEF Init, HashInv

\* ... and every step keeps it.
LEMMA HashStep == Shape /\ HashInv /\ [Next]_vars => HashInv'
<1> SUFFICES ASSUME Shape, HashInv, [Next]_vars PROVE HashInv'
  OBVIOUS
<1>1. ASSUME NEW i \in Handlers, NEW r, Started(i, r) PROVE HashInv'
  <2>1. /\ h'[i] = r /\ r # None /\ h[i] = None
        /\ \A j \in Handlers \ {i} : h'[j] = h[j]
        /\ UNCHANGED <<clients, server, conf, hashes, untouched>>
    BY <1>1, BeginMoves
  <2>2. /\ r.pc \notin {"conf", "hash"}
        /\ r.pc = "read" => r.snap = <<None, server>>
    BY <1>1 DEF Started, Consistent, Handler
  <2> QED
    BY <2>1, <2>2 DEF HashInv, Database
<1>2. ASSUME NEW i \in Handlers, Finish(i) PROVE HashInv'
  <2>1. CASE CheckKey(i)
    <3>1. /\ h[i].pc = "key" /\ KeyReady(i)
          /\ UNCHANGED <<clients, server, conf, hashes, untouched>>
      BY <2>1, CheckKeyMoves DEF store, applied
    <3>2. /\ h[i] # None /\ (h'[i] # None => h'[i].pc = "write")
          /\ \A j \in Handlers \ {i} : h'[j] = h[j]
      BY <3>1 DEF KeyReady, Moved, Ended
    <3> QED
      BY <3>1, <3>2 DEF HashInv, Database
  <2>2. CASE WriteFile(i)
    BY <2>2, WriteFileMoves, SaveHash DEF Moved
  <2>3. CASE TagClient(i)
    <3>1. /\ h[i].pc = "tg" /\ Moved(i, "chmod")
          /\ UNCHANGED <<clients, server, conf, hashes, untouched>>
      BY <2>3, TagClientMoves
    <3> QED
      BY <3>1 DEF HashInv, Database, Moved
  <2>4. CASE ManagePerms(i)
    <3>1. /\ h[i].pc = "chmod" /\ (Moved(i, "send") \/ Ended(i))
          /\ UNCHANGED <<clients, server, conf, hashes, untouched>>
      BY <2>4, ManagePermsMoves DEF store, applied
    <3> QED
      BY <3>1 DEF HashInv, Database, Moved, Ended
  <2>5. CASE Xsend(i)
    <3>1. /\ h[i].pc = "send" /\ (Moved(i, "untag") \/ Ended(i))
          /\ UNCHANGED <<clients, server, conf, hashes, untouched>>
      BY <2>5, XsendMoves DEF store, applied
    <3> QED
      BY <3>1 DEF HashInv, Database, Moved, Ended
  <2>6. CASE UntagClient(i)
    <3>1. /\ h[i].pc = "untag" /\ Moved(i, "delete")
          /\ UNCHANGED <<clients, server, conf, hashes, untouched>>
      BY <2>6, UntagClientMoves
    <3> QED
      BY <3>1 DEF HashInv, Database, Moved
  <2>7. CASE DeleteFile(i)
    BY <2>7, DeleteFileMoves, SaveHash DEF Ended
  <2>8. CASE ReadClients(i)
    <3>1. /\ h[i] # None /\ h[i].pc = "read"
          /\ \A j \in Handlers \ {i} : h'[j] = h[j]
          /\ h'[i] # None => h'[i].pc = "conf" /\ h'[i].snap = <<clients, h[i].snap[2]>>
          /\ UNCHANGED <<clients, server, conf, hashes, untouched>>
      BY <2>8, ReadClientsMoves DEF store, applied, Ended
    <3>2. untouched => h[i].snap = <<None, server>>
      BY <3>1 DEF HashInv
    <3>3. untouched /\ h'[i] # None => h'[i].snap = Database
      BY <3>1, <3>2 DEF Database
    <3> QED
      BY <3>1, <3>3 DEF HashInv, Database
  <2>9. CASE WriteConf(i)
    <3>1. /\ h[i] # None /\ h[i].pc = "conf" /\ conf' = h[i].snap /\ Moved(i, "hash")
          /\ UNCHANGED <<clients, server, hashes, untouched>>
      BY <2>9, WriteConfMoves DEF store
    <3>2. untouched => conf' = Database
      BY <3>1 DEF HashInv
    <3> QED
      BY <3>1, <3>2 DEF HashInv, Database, Moved
  <2>10. CASE UpdateHashes(i)
    <3>1. /\ h[i] # None /\ h[i].pc = "hash" /\ hashes' = Database /\ Ended(i)
          /\ UNCHANGED <<clients, server, conf, untouched>>
      BY <2>10, UpdateHashesMoves DEF store
    <3>2. untouched => conf = Database
      BY <3>1 DEF HashInv
    <3> QED
      BY <3>1, <3>2 DEF HashInv, Database, Ended
  <2> QED
    BY <1>2, <2>1, <2>2, <2>3, <2>4, <2>5, <2>6, <2>7, <2>8, <2>9, <2>10 DEF Finish
<1>3. ASSUME NEW s \in Servers, SetInterface(s) PROVE HashInv'
  BY <1>3, SaveHash DEF SetInterface, applied
<1>4. CASE Restart
  <2>1. /\ \A j \in Handlers : h'[j] = None
        /\ untouched' => untouched /\ Quiet
        /\ UNCHANGED hashes /\ conf' \in {conf, None}
    BY <1>4 DEF Restart
  <2> QED
    BY <2>1 DEF HashInv, Quiet
<1>5. CASE UNCHANGED vars
  BY <1>5 DEF vars, store, applied, HashInv, Database
<1> QED
  BY <1>1, <1>2, <1>3, <1>4, <1>5, Steps

\* GetHashesChanges answers "not changed" only if the configuration file was written
\* from the database as it is or has been emptied by start_wg.sh since, unless something
\* was saved, or the process was stopped, while ApplyServerConfig was under way.
THEOREM UnchangedIsApplied == Spec => []UnchangedMeansApplied
<1>1. Shape /\ HashInv => UnchangedMeansApplied
  <2> SUFFICES ASSUME Shape, HashInv, untouched, hashes = Database
              PROVE  conf \in {Database, None}
    BY DEF UnchangedMeansApplied
  <2>1. hashes # None
    BY NoneAssumption DEF Shape, TypeOK, Database, Databases
  <2> QED
    BY <2>1 DEF HashInv
<1> QED
  BY <1>1, ShapeInit, ShapeStep, HashInit, HashStep, PTL DEF Spec

----------------------------------------------------------------------------
(* Addresses and keys, as long as overlapping requests are about different *)
(* clients.                                                                *)

\* ApartInv holds at the start.
LEMMA ApartInit == Init => ApartInv
BY DEF Init, ApartInv, Separate, Views, KeysDistinct, AddressesDistinct

\* A request that begins, and collides with none, knows the file and has a free address.
LEMMA StartApart ==
  ASSUME Shape, ApartInv, NEW i \in Handlers, NEW r, Started(i, r)
  PROVE  ApartInv'
<1> SUFFICES ASSUME apart' PROVE Separate' /\ Views' /\ KeysDistinct' /\ (readOK' => AddressesDistinct')
  BY DEF ApartInv
<1>1. /\ h'[i] = r /\ r # None /\ h[i] = None /\ r \in Handler
      /\ \A j \in Handlers \ {i} : h'[j] = h[j]
      /\ clients' = clients
      /\ apart' = (apart /\ \A j \in Handlers : h[j] = None \/ ~Collide(r, h[j]))
  BY BeginMoves
<1>2. apart /\ \A j \in Handlers : h[j] = None \/ ~Collide(r, h[j])
  BY <1>1
<1>3. Separate /\ Views /\ KeysDistinct /\ (readOK => AddressesDistinct)
  BY <1>2 DEF ApartInv
<1>4. Separate'
  BY <1>1, <1>2, <1>3 DEF Separate, Collide
<1>5. Views'
  <2>1. View(r)
    BY DEF Started, View, Saves, Claims
  <2> QED
    BY <1>1, <1>3, <2>1 DEF Views, View
<1>6. KeysDistinct'
  <2>1. ASSUME Claims(r), r.pc = "write", r.client.key # None PROVE KeyFree(r.id, r.client.key)
    <3>1. r.id \in IDs
      BY <2>1 DEF Started, Consistent, Claims
    <3>2. clients[r.id] # None /\ r.client.key = clients[r.id].key
      BY <2>1 DEF Started
    <3> QED
      BY <1>3, <2>1, <3>1, <3>2 DEF KeysDistinct
  <2> QED
    BY <1>1, <1>3, <2>1 DEF KeysDistinct, KeyFree
<1>7. readOK' => AddressesDistinct'
  <2>1. readOK' => readOK /\ (Claims(r) => AddressFree(r.id, r.client.ip))
    BY DEF Started
  <2> QED
    BY <1>1, <1>3, <2>1 DEF AddressesDistinct, AddressFree
<1> QED
  BY <1>4, <1>5, <1>6, <1>7

\* A handler that goes on after its save, or without one, or ends.
LEMMA MoveApart ==
  ASSUME Shape, ApartInv, NEW i \in Handlers, UNCHANGED <<clients, apart, readOK>>,
         \/ Ended(i)
         \/ \E p : /\ Moved(i, p)
                   /\ \/ p \in {"chmod", "send"} /\ Saves(h[i]) /\ h[i].pc \in {"tg", "chmod"}
                      \/ p \in {"untag", "delete", "hash"} /\ ~Saves(h[i])
  PROVE  ApartInv'
<1> SUFFICES ASSUME apart PROVE Separate' /\ Views' /\ KeysDistinct' /\ (readOK => AddressesDistinct')
  BY DEF ApartInv
<1>1. Separate /\ Views /\ KeysDistinct /\ (readOK => AddressesDistinct)
  BY DEF ApartInv
<1>2. /\ h[i] # None
      /\ \A j \in Handlers \ {i} : h'[j] = h[j]
      /\ h'[i] # None => /\ h'[i].kind = h[i].kind /\ h'[i].id = h[i].id /\ h'[i].client = h[i].client
                         /\ h'[i].pc \notin {"key", "write"}
                         /\ \/ h'[i].pc \in {"chmod", "send"} /\ Saves(h[i]) /\ h[i].pc \in {"tg", "chmod"}
                            \/ h'[i].pc \in {"untag", "delete", "hash"} /\ ~Saves(h[i])
  BY DEF Moved, Ended
<1>3. Separate'
  BY <1>1, <1>2 DEF Separate, Collide, Claims
<1>4. Views'
  <2>1. View(h[i])
    BY <1>1, <1>2 DEF Views
  <2>2. h'[i] # None => View(h'[i])
    BY <1>2, <2>1 DEF View, Saves
  <2> QED
    BY <1>1, <1>2, <2>2 DEF Views, View
<1>5. KeysDistinct'
  BY <1>1, <1>2 DEF KeysDistinct, KeyFree
<1>6. readOK => AddressesDistinct'
  BY <1>1, <1>2 DEF AddressesDistinct, AddressFree
<1> QED
  BY <1>3, <1>4, <1>5, <1>6

\* Two requests that do not collide are about different clients.
LEMMA OtherClient ==
  ASSUME Separate, NEW i \in Handlers, NEW j \in Handlers \ {i}, h[i] # None, h[j] # None,
         h[i].id \in IDs
  PROVE  h[j].id # h[i].id
BY NoneAssumption DEF Separate, Collide

\* A key that was generated, or that nobody has, is free: a generated one belongs to its client.
LEMMA CheckKeyApart ==
  ASSUME Shape, ApartInv, NEW i \in Handlers, CheckKey(i)
  PROVE  ApartInv'
<1>1. /\ h[i] # None /\ h[i].pc = "key" /\ Claims(h[i]) /\ KeyReady(i)
      /\ UNCHANGED <<clients, apart, readOK>>
  BY CheckKeyMoves DEF store
<1>2. CASE Ended(i)
  BY <1>1, <1>2, MoveApart
<1>3. CASE h'[i] # None
  <2> SUFFICES ASSUME apart PROVE Separate' /\ Views' /\ KeysDistinct' /\ (readOK => AddressesDistinct')
    BY <1>1 DEF ApartInv
  <2>1. Separate /\ Views /\ KeysDistinct /\ (readOK => AddressesDistinct)
    BY DEF ApartInv
  <2>2. h[i].id \in IDs /\ Consistent(h[i])
    BY <1>1 DEF Shape, Consistent, Claims
  <2>3. /\ \A j \in Handlers \ {i} : h'[j] = h[j]
        /\ h'[i].kind = h[i].kind /\ h'[i].id = h[i].id /\ h'[i].client.ip = h[i].client.ip
        /\ h'[i].pc = "write"
    BY <1>1, <1>3 DEF KeyReady, Moved, Ended
  <2>4. /\ h'[i].client.key = h[i].client.key \/ h'[i].client.key = GenKey(h[i].id)
        /\ KeyFree(h[i].id, h'[i].client.key)
    <3>1. \A b \in IDs \ {h[i].id} : clients[b] # None => clients[b].key # GenKey(h[i].id)
      BY <2>2 DEF Shape, OwnKeys
    <3> QED
      BY <1>1, <1>3, <3>1 DEF KeyReady, Moved, Ended, KeyFree
  <2>5. ASSUME NEW j \in Handlers \ {i}, h[j] # None PROVE ~Collide(h'[i], h[j]) /\ ~Collide(h[j], h'[i])
    <3>1. h[j].id # h[i].id
      BY <1>1, <2>1, <2>2, <2>5, OtherClient
    <3>2. Claims(h[j]) => h[j].client.key # GenKey(h[i].id)
      BY <2>2, <2>5, <3>1 DEF Shape, OwnKeys, Claims, Saves
    <3>3. ~Collide(h[i], h[j])
      BY <1>1, <2>1, <2>5 DEF Separate
    <3> QED
      BY <1>1, <2>3, <2>4, <3>1, <3>2, <3>3 DEF Collide, Claims
  <2>6. Separate'
    BY <2>1, <2>3, <2>5 DEF Separate
  <2>7. Views'
    BY <1>1, <2>1, <2>3 DEF Views, View, Saves, Claims
  <2>8. KeysDistinct'
    BY <1>1, <2>1, <2>3, <2>4 DEF KeysDistinct, KeyFree
  <2>9. readOK => AddressesDistinct'
    BY <1>1, <2>1, <2>3 DEF AddressesDistinct, AddressFree, Claims
  <2> QED
    BY <2>6, <2>7, <2>8, <2>9
<1> QED
  BY <1>1, <1>2, <1>3 DEF KeyReady, Moved

\* The save takes the key and the address that were free, and that no other request claims.
LEMMA WriteFileApart ==
  ASSUME Shape, ApartInv, NEW i \in Handlers, WriteFile(i)
  PROVE  ApartInv'
<1> DEFINE x == h[i].id
           c == h[i].client
<1>1. /\ h[i] # None /\ h[i].pc = "write" /\ Saves(h[i]) /\ x \in IDs /\ c \in Client
      /\ Moved(i, "tg") /\ clients' = [clients EXCEPT ![x] = c]
      /\ UNCHANGED <<apart, readOK>>
  BY WriteFileMoves
<1> SUFFICES ASSUME apart PROVE Separate' /\ Views' /\ KeysDistinct' /\ (readOK => AddressesDistinct')
  BY <1>1 DEF ApartInv
<1>2. Separate /\ Views /\ KeysDistinct /\ (readOK => AddressesDistinct)
  BY DEF ApartInv
<1>3. clients'[x] = c /\ c # None /\ \A b \in IDs \ {x} : clients'[b] = clients[b]
  BY <1>1, NoneAssumption DEF Shape, TypeOK
<1>4. /\ h'[i] # None /\ h'[i].pc = "tg" /\ h'[i].kind = h[i].kind /\ h'[i].id = x /\ h'[i].client = c
      /\ \A j \in Handlers \ {i} : h'[j] = h[j]
  BY <1>1 DEF Moved
<1>5. h[i].kind = "status" => clients[x] # None /\ clients[x].ip = c.ip /\ clients[x].key = c.key
  BY <1>1, <1>2 DEF Views, View
<1>6. h[i].kind = "status" \/ Claims(h[i])
  BY <1>1 DEF Saves, Claims
<1>7. c.key # None => KeyFree(x, c.key)
  BY <1>1, <1>2, <1>5, <1>6 DEF KeysDistinct
<1>8. readOK => AddressFree(x, c.ip)
  BY <1>1, <1>2, <1>5, <1>6 DEF AddressesDistinct
<1>9. ASSUME NEW j \in Handlers \ {i}, h[j] # None
      PROVE  /\ h[j].id # x /\ (Saves(h[j]) \/ h[j].kind = "remove" => h[j].id \in IDs)
             /\ Claims(h[j]) /\ h[j].pc = "write" /\ h[j].client.key # None => c.key # h[j].client.key
             /\ readOK /\ Claims(h[j]) /\ h[j].pc \in {"key", "write"} => c.ip # h[j].client.ip
  <2>1. h[j].id # x
    BY <1>1, <1>2, <1>9, OtherClient
  <2>2. Saves(h[j]) \/ h[j].kind = "remove" => h[j].id \in IDs
    BY <1>9 DEF Shape, Consistent, Saves
  <2>3. CASE Claims(h[i])
    BY <1>1, <1>2, <1>9, <2>1, <2>2, <2>3 DEF Separate, Collide
  <2>4. CASE h[i].kind = "status"
    BY <1>1, <1>2, <1>5, <1>9, <2>1, <2>2, <2>4 DEF KeysDistinct, KeyFree, AddressesDistinct, AddressFree
  <2> QED
    BY <1>6, <2>3, <2>4
<1> HIDE DEF x, c
<1>10. Separate'
  <2>1. ASSUME NEW j \in Handlers \ {i}, h[j] # None
        PROVE  ~Collide(h'[i], h'[j]) /\ ~Collide(h'[j], h'[i])
    <3>1. ~Collide(h[i], h[j]) /\ ~Collide(h[j], h[i])
      BY <1>1, <1>2, <2>1 DEF Separate
    <3>2. /\ h'[j] = h[j] /\ h'[i].kind = h[i].kind
          /\ h'[i].id = h[i].id /\ h'[i].client = h[i].client
      BY <1>4 DEF x, c
    <3> QED
      BY <3>1, <3>2 DEF Collide, Claims
  <2> QED
    BY <1>2, <1>4, <2>1 DEF Separate
<1>11. Views'
  <2>1. ASSUME NEW j \in Handlers \ {i}, h[j] # None PROVE View(h[j])'
    <3>1. View(h[j])
      BY <1>2, <2>1 DEF Views
    <3> QED
      BY <1>3, <1>4, <1>9, <2>1, <3>1 DEF View, Saves
  <2>2. View(h[i])'
    BY <1>1, <1>3, <1>4 DEF View, Saves
  <2> QED
    BY <1>4, <2>1, <2>2 DEF Views
<1>12. KeysDistinct'
  BY <1>1, <1>2, <1>3, <1>4, <1>7, <1>9 DEF KeysDistinct, KeyFree
<1>13. readOK => AddressesDistinct'
  BY <1>1, <1>2, <1>3, <1>4, <1>8, <1>9 DEF AddressesDistinct, AddressFree
<1> QED
  BY <1>10, <1>11, <1>12, <1>13

\* A removal takes nothing.
LEMMA DeleteFileApart ==
  ASSUME Shape, ApartInv, NEW i \in Handlers, DeleteFile(i)
  PROVE  ApartInv'
<1>1. /\ h[i] # None /\ h[i].id \in IDs /\ Ended(i)
      /\ clients' = [clients EXCEPT ![h[i].id] = None]
      /\ UNCHANGED <<apart, readOK>>
  BY DeleteFileMoves
<1> SUFFICES ASSUME apart PROVE Separate' /\ Views' /\ KeysDistinct' /\ (readOK => AddressesDistinct')
  BY <1>1 DEF ApartInv
<1>2. Separate /\ Views /\ KeysDistinct /\ (readOK => AddressesDistinct)
  BY DEF ApartInv
<1>3. clients'[h[i].id] = None /\ \A b \in IDs \ {h[i].id} : clients'[b] = clients[b]
  BY <1>1 DEF Shape, TypeOK
<1>4. h'[i] = None /\ \A j \in Handlers \ {i} : h'[j] = h[j]
  BY <1>1 DEF Ended
<1>5. Separate'
  BY <1>2, <1>4 DEF Separate
<1>6. Views'
  <2>1. ASSUME NEW j \in Handlers \ {i}, h[j] # None PROVE View(h[j])'
    <3>1. View(h[j]) /\ h[j].id # h[i].id
      BY <1>1, <1>2, <2>1, OtherClient DEF Views
    <3>2. Saves(h[j]) \/ h[j].kind = "remove" => h[j].id \in IDs
      BY <2>1 DEF Shape, Consistent, Saves
    <3>3. h'[j] = h[j]
      BY <1>4
    <3> QED
      BY <1>3, <3>1, <3>2, <3>3 DEF View, Saves
  <2> QED
    BY <1>4, <2>1 DEF Views
<1>7. KeysDistinct'
  BY <1>2, <1>3, <1>4 DEF KeysDistinct, KeyFree
<1>8. readOK => AddressesDistinct'
  BY <1>2, <1>3, <1>4 DEF AddressesDistinct, AddressFree
<1> QED
  BY <1>5, <1>6, <1>7, <1>8

\* Every step keeps ApartInv.
LEMMA ApartStep == Shape /\ ApartInv /\ [Next]_vars => ApartInv'
<1> SUFFICES ASSUME Shape, ApartInv, [Next]_vars PROVE ApartInv'
  OBVIOUS
<1>1. ASSUME NEW i \in Handlers, Finish(i) PROVE ApartInv'
  <2>1. CASE CheckKey(i) \/ WriteFile(i) \/ DeleteFile(i)
    BY <2>1, CheckKeyApart, WriteFileApart, DeleteFileApart
  <2>2. CASE TagClient(i)
    BY <2>2, TagClientMoves, MoveApart
  <2>3. CASE ManagePerms(i)
    BY <2>3, ManagePermsMoves, MoveApart DEF store
  <2>4. CASE Xsend(i)
    BY <2>4, XsendMoves, MoveApart DEF store, Saves
  <2>5. CASE UntagClient(i)
    BY <2>5, UntagClientMoves, MoveApart DEF Saves
  <2>6. CASE ReadClients(i)
    <3>1. /\ h[i] # None /\ h[i].kind = "apply" /\ h[i].id = None
          /\ \A j \in Handlers \ {i} : h'[j] = h[j]
          /\ h'[i] # None => h'[i].kind = "apply" /\ h'[i].id = None
          /\ UNCHANGED <<clients, apart, readOK>>
      BY <2>6, ReadClientsMoves DEF store, Ended
    <3>2. Separate => Separate'
      BY <3>1 DEF Separate, Collide, Claims
    <3>3. Views => Views'
      BY <3>1 DEF Views, View, Saves
    <3>4. KeysDistinct => KeysDistinct'
      BY <3>1 DEF KeysDistinct, KeyFree, Claims
    <3>5. AddressesDistinct => AddressesDistinct'
      BY <3>1 DEF AddressesDistinct, AddressFree, Claims
    <3> QED
      BY <3>1, <3>2, <3>3, <3>4, <3>5 DEF ApartInv
  <2>7. CASE WriteConf(i)
    BY <2>7, WriteConfMoves, MoveApart DEF store, Saves
  <2>8. CASE UpdateHashes(i)
    BY <2>8, UpdateHashesMoves, MoveApart DEF store
  <2> QED
    BY <1>1, <2>1, <2>2, <2>3, <2>4, <2>5, <2>6, <2>7, <2>8 DEF Finish
<1>2. CASE UNCHANGED <<clients, h, apart, readOK>>
  BY <1>2 DEF ApartInv, Separate, Views, View, KeysDistinct, KeyFree, AddressesDistinct, AddressFree
<1>3. CASE Restart
  <2>1. (\A i \in Handlers : h'[i] = None) /\ UNCHANGED <<clients, apart, readOK>>
    BY <1>3 DEF Restart
  <2> QED
    BY <2>1 DEF ApartInv, Separate, Views, KeysDistinct, KeyFree, AddressesDistinct, AddressFree
<1>4. ASSUME NEW s \in Servers, SetInterface(s) PROVE UNCHANGED <<clients, h, apart, readOK>>
  BY <1>4 DEF SetInterface
<1>5. UNCHANGED vars => UNCHANGED <<clients, h, apart, readOK>>
  BY DEF vars, store
<1> QED
  BY <1>1, <1>2, <1>3, <1>4, <1>5, Steps, StartApart

\* No two clients share an address or a public key, for any number of overlapping
\* requests about different clients, addresses and keys, if the reads of the clients
\* succeeded (ValidateIPAllocation and "Duplicate Public Key" of routes.go).
THEOREM ClientsStayDistinct == Spec => []ClientsAreDistinct
<1>1. ApartInv => ClientsAreDistinct
  BY DEF ApartInv, ClientsAreDistinct, KeysDistinct, KeyFree, AddressesDistinct, AddressFree
<1> QED
  BY <1>1, ShapeInit, ShapeStep, ApartInit, ApartStep, PTL DEF Spec

----------------------------------------------------------------------------
(* The Telegram cache.                                                     *)

\* What UpdateTgToClientID and RemoveTgToClientID do to the users of each client.
LEMMA TagEffect ==
  ASSUME Shape, NEW id \in IDs, NEW c \in Client, NEW x \in IDs
  PROVE  /\ tg' = Tagged(id, c) => Tags(x)' = IF x = id THEN TagsOf(c) ELSE Tags(x)
         /\ tg' = Untagged(id) => Tags(x)' = IF x = id THEN {} ELSE Tags(x)
<1>1. tg \in [TgUsers -> SUBSET IDs] /\ (c.tg # None => c.tg \in TgUsers) /\ c # None
  BY NoneAssumption DEF Shape, TypeOK, Client
<1>2. ASSUME NEW u \in TgUsers
      PROVE  /\ x \in Untagged(id)[u] <=> x # id /\ x \in tg[u]
             /\ x \in Tagged(id, c)[u] <=> \/ x # id /\ x \in tg[u]
                                           \/ x = id /\ c.enabled /\ c.tg = u
  <2>1. u # None
    BY ClientsAssumption
  <2>2. x \in Untagged(id)[u] <=> x # id /\ x \in tg[u]
    BY DEF Untagged
  <2>3. Untagged(id) \in [TgUsers -> SUBSET IDs]
    BY TagTypes
  <2> QED
    BY <1>1, <2>1, <2>2, <2>3 DEF Tagged
<1>3. TagsOf(c) = {u \in TgUsers : c.enabled /\ c.tg = u}
  BY <1>1, ClientsAssumption DEF TagsOf
<1>4. ASSUME tg' = Tagged(id, c) PROVE Tags(x)' = IF x = id THEN TagsOf(c) ELSE Tags(x)
  BY <1>2, <1>3, <1>4 DEF Tags
<1>5. ASSUME tg' = Untagged(id) PROVE Tags(x)' = IF x = id THEN {} ELSE Tags(x)
  BY <1>2, <1>5 DEF Tags
<1> QED
  BY <1>4, <1>5

\* TgInv holds at the start.
LEMMA TgInit == Init => TgInv
BY DEF Init, TgInv, Tags, TagsOf

\* A step away from the file and the cache.
LEMMA MoveTg ==
  ASSUME TgInv, apart' => apart, UNCHANGED <<clients, tg>>, NEW i \in Handlers,
         \A j \in Handlers \ {i} : h'[j] = h[j],
         h[i] = None \/ h[i].pc \notin {"tg", "delete"},
         h'[i] = None \/ h'[i].pc \notin {"tg", "delete"}
  PROVE  TgInv'
<1>1. \A id \in IDs : Busy(id)' <=> Busy(id)
  BY DEF Busy
<1>2. \A id \in IDs : Tags(id)' = Tags(id) /\ clients'[id] = clients[id]
  BY DEF Tags
<1> QED
  BY <1>1, <1>2 DEF TgInv, TagsOf, Tags

\* A step of handler i to the file or the cache, about its client only.
LEMMA OthersTg ==
  ASSUME Shape, TgInv, Separate, apart, NEW i \in Handlers, h[i] # None, NEW id \in IDs, h[i].id = id,
         \A j \in Handlers \ {i} : h'[j] = h[j],
         h'[i] # None => h'[i].id = id,
         \A x \in IDs \ {id} : clients'[x] = clients[x] /\ Tags(x)' = Tags(x),
         \/ h'[i] # None /\ h'[i].pc \in {"tg", "delete"}
         \/ Tags(id)' = TagsOf(clients'[id]),
         h'[i] # None /\ h'[i].pc = "delete" => Tags(id)' = {}
  PROVE  TgInv'
<1>1. \A x \in IDs \ {id} : Busy(x)' <=> Busy(x)
  BY DEF Busy
<1>2. ASSUME NEW x \in IDs, ~Busy(x)' PROVE Tags(x)' = TagsOf(clients'[x])
  <2>1. CASE x = id
    BY <1>2, <2>1 DEF Busy
  <2>2. CASE x # id
    BY <1>1, <1>2, <2>2 DEF TgInv
  <2> QED
    BY <2>1, <2>2
<1>3. ASSUME NEW j \in Handlers \ {i}, h[j] # None, h[j].pc = "delete"
      PROVE  h'[j] = h[j] /\ \A u \in TgUsers : h[j].id \notin tg'[u]
  <2>1. h[j].id \in IDs \ {id}
    BY <1>3, OtherClient DEF Shape, TypeOK, Consistent, Handler
  <2>2. h'[j] = h[j] /\ Tags(h[j].id) = {}
    BY <1>3 DEF TgInv
  <2>3. ASSUME NEW x \in IDs \ {id}, Tags(x) = {} PROVE \A u \in TgUsers : x \notin tg'[u]
    BY <2>3 DEF Tags
  <2> QED
    BY <2>1, <2>2, <2>3
<1>4. \A j \in Handlers : h'[j] # None /\ h'[j].pc = "delete" => \A u \in TgUsers : h'[j].id \notin tg'[u]
  BY <1>3 DEF Tags
<1> QED
  BY <1>2, <1>4 DEF TgInv, Tags, TagsOf

\* Every step keeps TgInv.
LEMMA TgStep == Shape /\ ApartInv /\ TgInv /\ [Next]_vars => TgInv'
<1> SUFFICES ASSUME Shape, ApartInv, TgInv, [Next]_vars PROVE TgInv'
  OBVIOUS
<1>1. ASSUME NEW i \in Handlers, NEW r, Started(i, r) PROVE TgInv'
  <2>1. /\ h'[i] = r /\ h[i] = None /\ \A j \in Handlers \ {i} : h'[j] = h[j]
        /\ UNCHANGED <<clients, tg>> /\ (apart' => apart)
    BY <1>1, BeginMoves
  <2>2. r.pc \notin {"tg", "delete"}
    BY <1>1 DEF Started
  <2> QED
    BY <2>1, <2>2, MoveTg
<1>2. ASSUME NEW i \in Handlers, Finish(i), apart PROVE TgInv'
  <2>0. Separate /\ Views
    BY <1>2 DEF ApartInv
  <2>1. CASE CheckKey(i)
    BY <2>1, CheckKeyMoves, MoveTg DEF KeyReady, Moved, Ended, store
  <2>2. CASE WriteFile(i)
    <3>1. /\ h[i] # None /\ h[i].id \in IDs /\ Moved(i, "tg")
          /\ clients' = [clients EXCEPT ![h[i].id] = h[i].client] /\ tg' = tg
      BY <2>2, WriteFileMoves
    <3>2. \A x \in IDs \ {h[i].id} : clients'[x] = clients[x] /\ Tags(x)' = Tags(x)
      BY <3>1 DEF Shape, TypeOK, Tags
    <3> QED
      BY <1>2, <2>0, <3>1, <3>2, OthersTg DEF Moved
  <2>3. CASE TagClient(i)
    <3>1. /\ h[i] # None /\ h[i].pc = "tg" /\ Saves(h[i]) /\ h[i].id \in IDs /\ h[i].client \in Client
          /\ Moved(i, "chmod") /\ tg' = Tagged(h[i].id, h[i].client) /\ clients' = clients
      BY <2>3, TagClientMoves
    <3>2. \A x \in IDs : Tags(x)' = IF x = h[i].id THEN TagsOf(h[i].client) ELSE Tags(x)
      BY <3>1, TagEffect
    <3>3. clients[h[i].id] = h[i].client
      BY <2>0, <3>1 DEF Views, View
    <3> QED
      BY <1>2, <2>0, <3>1, <3>2, <3>3, OthersTg DEF Moved
  <2>4. CASE ManagePerms(i)
    BY <2>4, ManagePermsMoves, MoveTg DEF Moved, Ended, store
  <2>5. CASE Xsend(i)
    BY <2>5, XsendMoves, MoveTg DEF Moved, Ended, store
  <2>6. CASE UntagClient(i)
    <3>1. /\ h[i] # None /\ h[i].id \in IDs /\ Moved(i, "delete")
          /\ tg' = Untagged(h[i].id) /\ clients' = clients
      BY <2>6, UntagClientMoves
    <3>2. \A x \in IDs : Tags(x)' = IF x = h[i].id THEN {} ELSE Tags(x)
      BY <3>1 DEF Tags, Untagged
    <3> QED
      BY <1>2, <2>0, <3>1, <3>2, OthersTg DEF Moved
  <2>7. CASE DeleteFile(i)
    <3>1. /\ h[i] # None /\ h[i].pc = "delete" /\ h[i].id \in IDs /\ Ended(i)
          /\ clients' = [clients EXCEPT ![h[i].id] = None] /\ tg' = tg
      BY <2>7, DeleteFileMoves
    <3>2. clients'[h[i].id] = None /\ \A x \in IDs \ {h[i].id} : clients'[x] = clients[x]
      BY <3>1 DEF Shape, TypeOK
    <3>3. \A x \in IDs : Tags(x)' = Tags(x)
      BY <3>1 DEF Tags
    <3>4. Tags(h[i].id) = {} /\ TagsOf(clients'[h[i].id]) = {}
      BY <1>2, <3>1, <3>2 DEF TgInv, TagsOf
    <3>5. PICK id \in IDs : id = h[i].id
      BY <3>1
    <3>6. Tags(id)' = TagsOf(clients'[id])
      BY <3>3, <3>4, <3>5
    <3> QED
      BY <1>2, <2>0, <3>1, <3>2, <3>3, <3>5, <3>6, OthersTg DEF Ended
  <2>8. CASE ReadClients(i)
    BY <2>8, ReadClientsMoves, MoveTg DEF Ended, store
  <2>9. CASE WriteConf(i)
    BY <2>9, WriteConfMoves, MoveTg DEF Moved, store
  <2>10. CASE UpdateHashes(i)
    BY <2>10, UpdateHashesMoves, MoveTg DEF Ended, store
  <2> QED
    BY <1>2, <2>1, <2>2, <2>3, <2>4, <2>5, <2>6, <2>7, <2>8, <2>9, <2>10 DEF Finish
<1>3. ASSUME NEW i \in Handlers, Finish(i), ~apart PROVE TgInv'
  <2>1. apart' = apart
    BY <1>3 DEF Finish, CheckKey, WriteFile, TagClient, ManagePerms, Xsend, UntagClient, DeleteFile,
                ReadClients, WriteConf, UpdateHashes
  <2> QED
    BY <1>3, <2>1 DEF TgInv
<1>4. CASE Restart
  <2>1. (\A i \in Handlers : h'[i] = None) /\ clients' = clients /\ tg' = TgOf(clients)
    BY <1>4 DEF Restart
  <2>2. ASSUME NEW id \in IDs PROVE Tags(id)' = TagsOf(clients'[id])
    <3>1. \A u \in TgUsers : id \in tg'[u] <=> clients[id] # None /\ clients[id].enabled /\ clients[id].tg = u
      BY <2>1 DEF TgOf
    <3>2. clients[id] # None => clients[id].tg \in TgUsers \cup {None}
      BY DEF Shape, TypeOK, Client
    <3>3. None \notin TgUsers
      BY ClientsAssumption
    <3> QED
      BY <2>1, <3>1, <3>2, <3>3 DEF Tags, TagsOf
  <2> QED
    BY <2>1, <2>2 DEF TgInv, TagsOf
<1>5. CASE UNCHANGED <<clients, h, tg, apart>>
  BY <1>5 DEF TgInv, Tags, TagsOf, Busy
<1>6. ASSUME NEW s \in Servers, SetInterface(s) PROVE UNCHANGED <<clients, h, tg, apart>>
  BY <1>6 DEF SetInterface
<1>7. UNCHANGED vars => UNCHANGED <<clients, h, tg, apart>>
  BY DEF vars, store
<1> QED
  BY <1>1, <1>2, <1>3, <1>4, <1>5, <1>6, <1>7, Steps

\* When no request is under way, the Telegram cache lists exactly the enabled clients of
\* each user, if overlapping requests were about different clients: whatever was saved,
\* deleted, disabled or cut off by a restart (jsondb SaveClient, DeleteClient, Init).
THEOREM TgFollowsClients == Spec => []TgMatchesClients
<1>1. Shape /\ TgInv => TgMatchesClients
  <2> SUFFICES ASSUME Shape, TgInv, apart, Quiet PROVE tg = TgOf(clients)
    BY DEF TgMatchesClients
  <2>1. \A id \in IDs : Tags(id) = TagsOf(clients[id])
    BY DEF TgInv, Busy, Quiet
  <2>2. tg \in [TgUsers -> SUBSET IDs] /\ None \notin TgUsers
    BY ClientsAssumption DEF Shape, TypeOK
  <2>3. ASSUME NEW u \in TgUsers
        PROVE  tg[u] = {id \in IDs : clients[id] # None /\ clients[id].enabled /\ clients[id].tg = u}
    <3>1. ASSUME NEW id \in IDs
          PROVE  id \in tg[u] <=> clients[id] # None /\ clients[id].enabled /\ clients[id].tg = u
      <4>1. id \in tg[u] <=> u \in TagsOf(clients[id])
        BY <2>1 DEF Tags
      <4> QED
        BY <2>2, <4>1 DEF TagsOf
    <3>2. tg[u] \subseteq IDs
      BY <2>2
    <3> QED
      BY <3>1, <3>2
  <2> QED
    BY <2>2, <2>3 DEF TgOf
<1> QED
  BY <1>1, ShapeInit, ShapeStep, ApartInit, ApartStep, TgInit, TgStep, PTL DEF Spec

----------------------------------------------------------------------------
(* The peers of the agent.                                                 *)

\* PeerInv holds at the start.
LEMMA PeerInit == Init => PeerInv
BY DEF Init, PeerInv

\* A request that is going to be sent, or removes the file, goes on to do so.
LEMMA MovePeer ==
  ASSUME PeerInv, apart' => apart, UNCHANGED <<clients, peers, agentOK>>, NEW i \in Handlers,
         \A j \in Handlers \ {i} : h'[j] = h[j],
         apart /\ h[i] # None /\ Sends(h[i]) => h'[i] # None /\ h'[i].id = h[i].id /\ Sends(h'[i])
  PROVE  PeerInv'
<1>1. apart => \A id \in IDs : Pending(id) => Pending(id)'
  BY DEF Pending
<1> QED
  BY <1>1 DEF PeerInv

\* What others are going to send is still to be sent.
LEMMA OthersPending ==
  ASSUME NEW i \in Handlers, \A j \in Handlers \ {i} : h'[j] = h[j],
         NEW x, h[i].id # x, Pending(x)
  PROVE  Pending(x)'
BY DEF Pending

\* A client with a new key is saved by a request that will send it; a change of the status keeps the key.
LEMMA WriteFilePeer ==
  ASSUME Shape, ApartInv, PeerInv, NEW i \in Handlers, WriteFile(i)
  PROVE  PeerInv'
<1>1. /\ h[i] # None /\ h[i].pc = "write" /\ Saves(h[i]) /\ h[i].id \in IDs /\ Moved(i, "tg")
      /\ clients' = [clients EXCEPT ![h[i].id] = h[i].client]
      /\ UNCHANGED <<apart, peers, agentOK>>
  BY WriteFileMoves
<1>2. clients'[h[i].id] = h[i].client /\ \A x \in IDs \ {h[i].id} : clients'[x] = clients[x]
  BY <1>1 DEF Shape, TypeOK
<1>3. /\ h'[i] # None /\ h'[i].pc = "tg" /\ h'[i].kind = h[i].kind /\ h'[i].id = h[i].id
      /\ \A j \in Handlers \ {i} : h'[j] = h[j]
  BY <1>1 DEF Moved
<1> SUFFICES ASSUME apart, agentOK, NEW x \in IDs, clients'[x] # None, clients'[x].key # None, clients'[x].endpoint
             PROVE  clients'[x].key \in peers \/ Pending(x)'
  BY <1>1 DEF PeerInv
<1>4. CASE x # h[i].id
  BY <1>2, <1>3, <1>4, OthersPending DEF PeerInv
<1>5. CASE x = h[i].id /\ Claims(h[i])
  BY <1>3, <1>5 DEF Pending, Sends, Claims
<1>6. CASE x = h[i].id /\ h[i].kind = "status"
  <2>1. clients[x] # None /\ clients[x].key = clients'[x].key
    BY <1>1, <1>2, <1>6 DEF ApartInv, Views, View
  <2>2. clients[x].endpoint
    <3>1. View(h[i])
      BY <1>1 DEF ApartInv, Views
    <3>2. clients[h[i].id].endpoint = h[i].client.endpoint
      BY <1>1, <1>6, <3>1, Zenon DEF View
    <3>3. h[i].client = clients'[x] /\ x = h[i].id
      BY <1>2, <1>6
    <3> QED
      BY <3>2, <3>3, Zenon
  <2>3. clients[x].key \in peers \/ Pending(x)
    BY <2>1, <2>2 DEF PeerInv
  <2>4. ~Sends(h[i])
    BY <1>1 DEF Sends
  <2>5. Pending(x) => Pending(x)'
    BY <1>3, <2>4 DEF Pending
  <2> QED
    BY <2>1, <2>3, <2>5
<1> QED
  BY <1>1, <1>4, <1>5, <1>6 DEF Saves, Claims

\* A client without a file need not be a peer.
LEMMA DeleteFilePeer ==
  ASSUME Shape, PeerInv, NEW i \in Handlers, DeleteFile(i)
  PROVE  PeerInv'
<1>1. /\ h[i].id \in IDs /\ clients' = [clients EXCEPT ![h[i].id] = None]
      /\ \A j \in Handlers \ {i} : h'[j] = h[j]
      /\ UNCHANGED <<apart, peers, agentOK>>
  BY DeleteFileMoves DEF Ended
<1>2. clients'[h[i].id] = None /\ \A x \in IDs \ {h[i].id} : clients'[x] = clients[x]
  BY <1>1 DEF Shape, TypeOK
<1> QED
  BY <1>1, <1>2, OthersPending DEF PeerInv

\* The agent adds the key of the client that was saved; it removes one that no other client has.
LEMMA XsendPeer ==
  ASSUME Shape, ApartInv, PeerInv, NEW i \in Handlers, Xsend(i)
  PROVE  PeerInv'
<1>1. /\ h[i] # None /\ h[i].pc = "send" /\ h[i].id \in IDs /\ h[i].client # None
      /\ (Moved(i, "untag") /\ h[i].kind = "remove") \/ (Ended(i) /\ Claims(h[i]))
      /\ agentOK' => agentOK /\ peers' = PeersAfter(i)
      /\ UNCHANGED <<clients, apart>>
  BY XsendMoves, NoneAssumption DEF store
<1>2. \A j \in Handlers \ {i} : h'[j] = h[j]
  BY <1>1 DEF Moved, Ended
<1> SUFFICES ASSUME apart, agentOK', NEW x \in IDs, clients[x] # None, clients[x].key # None, clients[x].endpoint
             PROVE  clients[x].key \in peers' \/ Pending(x)'
  BY <1>1 DEF PeerInv
<1>3. Views /\ KeysDistinct
  BY DEF ApartInv
<1>4. clients[h[i].id] = h[i].client
  BY <1>1, <1>3 DEF Views, View, Saves, Claims
<1>5. clients[x].key \in peers \/ Pending(x)
  BY <1>1 DEF PeerInv
<1>6. CASE h[i].kind = "remove"
  <2>1. /\ h'[i] # None /\ h'[i].pc = "untag" /\ h'[i].kind = "remove" /\ h'[i].id = h[i].id
    BY <1>1, <1>6 DEF Moved, Claims
  <2>2. CASE x = h[i].id
    BY <2>1, <2>2 DEF Pending, Sends
  <2>3. CASE x # h[i].id
    <3>1. clients[x].key # h[i].client.key
      BY <1>1, <1>3, <1>4, <2>3 DEF KeysDistinct, KeyFree
    <3>2. peers \ {h[i].client.key} \subseteq peers'
      BY <1>1, <1>6 DEF PeersAfter
    <3>3. clients[x].key \in peers => clients[x].key \in peers'
      BY <3>1, <3>2
    <3> QED
      BY <1>2, <1>5, <2>3, <3>3, OthersPending
  <2> QED
    BY <2>2, <2>3
<1>7. CASE Claims(h[i])
  <2>1. /\ peers \subseteq peers'
        /\ h[i].client.key # None /\ h[i].client.endpoint => h[i].client.key \in peers'
    BY <1>1, <1>7 DEF PeersAfter, Claims
  <2>2. CASE x = h[i].id
    BY <1>4, <2>1, <2>2
  <2>3. CASE x # h[i].id
    BY <1>2, <1>5, <2>1, <2>3, OthersPending
  <2> QED
    BY <2>2, <2>3
<1> QED
  BY <1>1, <1>6, <1>7

\* Every step keeps PeerInv.
LEMMA PeerStep == Shape /\ ApartInv /\ PeerInv /\ [Next]_vars => PeerInv'
<1> SUFFICES ASSUME Shape, ApartInv, PeerInv, [Next]_vars PROVE PeerInv'
  OBVIOUS
<1>1. ASSUME NEW i \in Handlers, NEW r, Started(i, r) PROVE PeerInv'
  BY <1>1, BeginMoves, MovePeer
<1>2. ASSUME NEW i \in Handlers, Finish(i) PROVE PeerInv'
  <2>1. CASE CheckKey(i)
    BY <2>1, CheckKeyMoves, MovePeer DEF KeyReady, Moved, Ended, store, Sends
  <2>2. CASE WriteFile(i) \/ DeleteFile(i) \/ Xsend(i)
    BY <2>2, WriteFilePeer, DeleteFilePeer, XsendPeer
  <2>3. CASE TagClient(i)
    BY <2>3, TagClientMoves, MovePeer DEF Moved, Sends, Claims, Saves
  <2>4. CASE ManagePerms(i)
    <3>1. /\ h[i] # None /\ h[i].pc = "chmod" /\ Saves(h[i]) /\ h[i].client \in Client
          /\ \/ Ended(i) /\ (h[i].kind = "status" \/ clients[h[i].id] = None)
             \/ Moved(i, "send") /\ Claims(h[i])
          /\ UNCHANGED <<clients, peers, agentOK, apart>>
      BY <2>4, ManagePermsMoves DEF store
    <3>2. apart => clients[h[i].id] # None
      BY <3>1, NoneAssumption DEF ApartInv, Views, View
    <3>3. apart /\ Sends(h[i]) => h'[i] # None /\ h'[i].id = h[i].id /\ Sends(h'[i])
      BY <3>1, <3>2 DEF Moved, Ended, Sends, Claims
    <3> QED
      BY <3>1, <3>3, MovePeer DEF Moved, Ended
  <2>5. CASE UntagClient(i)
    BY <2>5, UntagClientMoves, MovePeer DEF Moved, Sends, Claims
  <2>6. CASE ReadClients(i)
    BY <2>6, ReadClientsMoves, MovePeer DEF Ended, Sends, Claims, store
  <2>7. CASE WriteConf(i)
    BY <2>7, WriteConfMoves, MovePeer DEF Moved, Sends, Claims, store
  <2>8. CASE UpdateHashes(i)
    BY <2>8, UpdateHashesMoves, MovePeer DEF Ended, Sends, Claims, store
  <2> QED
    BY <1>2, <2>1, <2>2, <2>3, <2>4, <2>5, <2>6, <2>7, <2>8 DEF Finish
<1>3. CASE Restart
  <2>1. UNCHANGED <<clients, peers, apart>> /\ (agentOK' => agentOK /\ Quiet)
    BY <1>3 DEF Restart
  <2>2. Quiet => \A id \in IDs : ~Pending(id)
    BY DEF Quiet, Pending
  <2> QED
    BY <2>1, <2>2 DEF PeerInv
<1>4. CASE UNCHANGED <<clients, h, peers, apart, agentOK>>
  BY <1>4 DEF PeerInv, Pending
<1>5. ASSUME NEW s \in Servers, SetInterface(s) PROVE UNCHANGED <<clients, h, peers, apart, agentOK>>
  BY <1>5 DEF SetInterface
<1>6. UNCHANGED vars => UNCHANGED <<clients, h, peers, apart, agentOK>>
  BY DEF vars, store
<1> QED
  BY <1>1, <1>2, <1>3, <1>4, <1>5, <1>6, Steps

\* When no request is under way and the agent has run vtysh for all it was sent, every
\* client in the database that has a key and an Endpoint is a peer, whatever keys and
\* Endpoints users gave to clients, took from them and gave to others, in any number of
\* overlapping requests about different clients (NewClient, UpdateClient, RemoveClient
\* and beplugin.Xsend).
THEOREM ClientsArePeers == Spec => []ClientIsPeer
<1>1. PeerInv => ClientIsPeer
  BY DEF PeerInv, ClientIsPeer, Pending, Quiet
<1> QED
  BY <1>1, ShapeInit, ShapeStep, ApartInit, ApartStep, PeerInit, PeerStep, PTL DEF Spec
=============================================================================
