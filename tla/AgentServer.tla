---------------------------- MODULE AgentServer ----------------------------
(***************************************************************************)
(* The C++ web agent (webagent/cpp): TcpServer, Client and the handlers of *)
(* main.cpp.  Its threads are the main thread, which accepts connections   *)
(* and runs the signal handler, one receive thread per Client, and the     *)
(* thread that removes dead clients.  They share the vector _clients under *)
(* _clientsMtx and run the subscriber's callbacks under _subscribersMtx.   *)
(* The peers are calls of beplugin.Xsend: connect, write one request, wait *)
(* for the answer until the read deadline, close.                          *)
(***************************************************************************)
EXTENDS Naturals, FiniteSets

CONSTANTS
  Conns,          \* connections, each one used once
  NoConn,         \* "no connection": an unlocked mutex, an empty local
  IPs,            \* where peers connect from: the observer's wantedIP or another
  Requests,       \* the requests the peers send, a subset of RequestKinds
  SignalPoints    \* where in the main thread a termination signal may arrive

(***************************************************************************)
(* What a request makes the handler do: HELLO runs vtysh and is answered   *)
(* OK; GLOBAL is a HELLO with SET_WIREGUARD_GLOBAL_CONFIG, for which       *)
(* doAction returns true at once; BAD is one that it refuses, because it   *)
(* does not know the sub-command or the network in it is malformed; BYE    *)
(* and UNKNOWN are the other two branches of the handler.                  *)
(***************************************************************************)
RequestKinds == {"HELLO", "GLOBAL", "BAD", "BYE", "UNKNOWN"}

\* The contents of a receive buffer nobody has written to.
Junk == "junk"
NoMsg == "none"

ASSUME ConnAssumption == /\ IPs \subseteq {"wanted", "other"}
                         /\ NoConn \notin Conns
                         /\ Requests \subseteq RequestKinds
                         /\ SignalPoints \subseteq {"accept", "push", "pushing"}

VARIABLES
  proc,        \* the agent process: running, exited, killed by SIGPIPE
  mainPc,      \* main thread
  mainConn,    \* acceptClient's local newClient
  sigConn,     \* the client close() is at
  removerPc,   \* dead-clients thread
  removerConn, \* its clientToRemove
  stop,        \* _stopRemoveClientsTask
  clientsMtx,  \* holder of _clientsMtx: "free", "main" or "remover"
  subMtx,      \* receive thread that holds _subscribersMtx, or NoConn
  clients,     \* _clients
  obj,         \* a Client object: none, live, closed (its fd too), freed
  connected,   \* Client::_isConnected
  ip,          \* Client::_ip
  thr,         \* control point of Client::receiveTask
  buf,         \* its receivedMessage
  ans,         \* the answer the handler is about to send
  sock,        \* the connection as the agent's kernel sees it
  errTaken,    \* the pending error of a reset socket has been reported
  inbox,       \* request in the agent's socket buffer
  reply,       \* answer in the peer's socket buffer
  peer,        \* the peer: the Xsend call
  applied      \* history: how often the request of c was executed by vtysh

serverVars == <<mainPc, mainConn, sigConn, removerPc, removerConn, stop, clientsMtx, clients>>
threadVars == <<subMtx, thr, buf, ans, applied>>
netVars    == <<sock, errTaken, inbox, reply, peer>>
objVars    == <<obj, connected, ip>>
vars == <<proc, serverVars, threadVars, netVars, objVars>>

Init ==
  /\ proc = "running"
  /\ mainPc = "accept"      /\ mainConn = NoConn /\ sigConn = NoConn
  /\ removerPc = "check"    /\ removerConn = NoConn
  /\ stop = FALSE
  /\ clientsMtx = "free"    /\ subMtx = NoConn
  /\ clients = {}
  /\ obj       = [c \in Conns |-> "none"]
  /\ connected = [c \in Conns |-> FALSE]
  /\ ip        = [c \in Conns |-> NoMsg]
  /\ thr       = [c \in Conns |-> "none"]
  /\ buf       = [c \in Conns |-> Junk]
  /\ ans       = [c \in Conns |-> NoMsg]
  /\ sock      = [c \in Conns |-> "none"]
  /\ errTaken  = [c \in Conns |-> FALSE]
  /\ inbox     = [c \in Conns |-> NoMsg]
  /\ reply     = [c \in Conns |-> NoMsg]
  /\ peer      = [c \in Conns |-> "idle"]
  /\ applied   = [c \in Conns |-> 0]

----------------------------------------------------------------------------
(* The peers: beplugin.Xsend and handleConnectionCPP.                      *)

\* net.Dial completes in the kernel's backlog, before accept.
PeerConnect(c) ==
  /\ proc = "running"
  /\ peer[c] = "idle"
  /\ peer' = [peer EXCEPT ![c] = "connected"]
  /\ sock' = [sock EXCEPT ![c] = "open"]
  /\ UNCHANGED <<proc, serverVars, threadVars, objVars, errTaken, inbox, reply>>

\* c.Write of the one request.
PeerSend(c, m) ==
  /\ peer[c] = "connected"
  /\ peer' = [peer EXCEPT ![c] = "waiting"]
  /\ inbox' = [inbox EXCEPT ![c] = m]
  /\ UNCHANGED <<proc, serverVars, threadVars, objVars, sock, errTaken, reply>>

\* c.Read returns the answer; the deferred c.Close ends the connection.
PeerRead(c) ==
  /\ peer[c] = "waiting"
  /\ reply[c] # NoMsg
  /\ peer' = [peer EXCEPT ![c] = IF reply[c] = "OK" THEN "true" ELSE "false"]
  /\ reply' = [reply EXCEPT ![c] = NoMsg]
  /\ sock' = [sock EXCEPT ![c] = "fin"]
  /\ UNCHANGED <<proc, serverVars, threadVars, objVars, errTaken, inbox>>

\* The read deadline passes, whatever the agent is doing; Xsend answers false.
PeerTimeout(c) ==
  /\ peer[c] = "waiting"
  /\ peer' = [peer EXCEPT ![c] = "closing"]
  /\ UNCHANGED <<proc, serverVars, threadVars, objVars, sock, errTaken, inbox, reply>>

\* The deferred c.Close after the deadline.  An answer that arrived in
\* between is unread, and closing a socket with unread data resets it.
PeerClose(c) ==
  /\ peer[c] = "closing"
  /\ peer' = [peer EXCEPT ![c] = "false"]
  /\ sock' = [sock EXCEPT ![c] = IF reply[c] = NoMsg THEN "fin" ELSE "reset"]
  /\ reply' = [reply EXCEPT ![c] = NoMsg]
  /\ UNCHANGED <<proc, serverVars, threadVars, objVars, errTaken, inbox>>

----------------------------------------------------------------------------
(* The main thread: the accept loop.                                       *)

\* acceptClient up to the lock: the receive thread runs before the client
\* is in _clients.
AcceptClient(c) ==
  /\ proc = "running"
  /\ mainPc = "accept"
  /\ sock[c] # "none" /\ obj[c] = "none"
  /\ obj' = [obj EXCEPT ![c] = "live"]
  /\ connected' = [connected EXCEPT ![c] = TRUE]
  /\ \E i \in IPs : ip' = [ip EXCEPT ![c] = i]
  /\ thr' = [thr EXCEPT ![c] = "check"]
  /\ mainPc' = "push"
  /\ mainConn' = c
  /\ UNCHANGED <<proc, sigConn, removerPc, removerConn, stop, clientsMtx, clients, netVars,
                 subMtx, buf, ans, applied>>

PushLock ==
  /\ proc = "running"
  /\ mainPc = "push"
  /\ clientsMtx = "free"
  /\ clientsMtx' = "main"
  /\ mainPc' = "pushing"
  /\ UNCHANGED <<proc, mainConn, sigConn, removerPc, removerConn, stop, clients, threadVars,
                 netVars, objVars>>

\* Mutant: push_back is skipped for a client that has disconnected already.
PushBackConnected ==
  /\ proc = "running"
  /\ mainPc = "pushing"
  /\ clients' = IF connected[mainConn] THEN clients \cup {mainConn} ELSE clients
  /\ clientsMtx' = "free"
  /\ mainPc' = "accept"
  /\ mainConn' = NoConn
  /\ UNCHANGED <<proc, sigConn, removerPc, removerConn, stop, threadVars, netVars, objVars>>

\* push_back, then the lock_guard's destructor.
PushBack ==
  /\ proc = "running"
  /\ mainPc = "pushing"
  /\ clients' = clients \cup {mainConn}
  /\ clientsMtx' = "free"
  /\ mainPc' = "accept"
  /\ mainConn' = NoConn
  /\ UNCHANGED <<proc, sigConn, removerPc, removerConn, stop, threadVars, netVars, objVars>>

----------------------------------------------------------------------------
(* The main thread: sig_handler, which calls TcpServer::close and exits.   *)
(* It runs on top of whatever the main thread was doing.                   *)

\* Mutant: close() forgets to stop the remover before joining it.
SignalNoStop ==
  /\ proc = "running"
  /\ mainPc \in SignalPoints
  /\ mainPc' = "sigJoin"
  /\ UNCHANGED <<proc, mainConn, sigConn, removerPc, removerConn, stop, clientsMtx, clients,
                 threadVars, netVars, objVars>>

\* setTerminate(true) and _stopRemoveClientsTask = true.
Signal ==
  /\ proc = "running"
  /\ mainPc \in SignalPoints
  /\ mainPc' = "sigJoin"
  /\ stop' = TRUE
  /\ UNCHANGED <<proc, mainConn, sigConn, removerPc, removerConn, clientsMtx, clients,
                 threadVars, netVars, objVars>>

\* _clientsRemoverThread->join().
SigJoinRemover ==
  /\ proc = "running"
  /\ mainPc = "sigJoin"
  /\ removerPc = "done"
  /\ mainPc' = "sigLock"
  /\ UNCHANGED <<proc, mainConn, sigConn, removerPc, removerConn, stop, clientsMtx, clients,
                 threadVars, netVars, objVars>>

SigLock ==
  /\ proc = "running"
  /\ mainPc = "sigLock"
  /\ clientsMtx = "free"
  /\ clientsMtx' = "main"
  /\ mainPc' = "sigClose"
  /\ UNCHANGED <<proc, mainConn, sigConn, removerPc, removerConn, stop, clients, threadVars,
                 netVars, objVars>>

\* client->close(): setConnected(false) ...
SigCloseClient(c) ==
  /\ proc = "running"
  /\ mainPc = "sigClose"
  /\ c \in clients /\ obj[c] = "live"
  /\ connected' = [connected EXCEPT ![c] = FALSE]
  /\ mainPc' = "sigThread"
  /\ sigConn' = c
  /\ UNCHANGED <<proc, mainConn, removerPc, removerConn, stop, clientsMtx, clients, threadVars,
                 netVars, obj, ip>>

\* ... _receiveThread->join() and ::close(_sockfd).  close() does not delete
\* the clients.
SigJoinThread ==
  /\ proc = "running"
  /\ mainPc = "sigThread"
  /\ thr[sigConn] = "done"
  /\ obj' = [obj EXCEPT ![sigConn] = "closed"]
  /\ mainPc' = "sigClose"
  /\ sigConn' = NoConn
  /\ UNCHANGED <<proc, mainConn, removerPc, removerConn, stop, clientsMtx, clients, threadVars,
                 netVars, connected, ip>>

\* _clients.clear(), unlock, ::close of the listening socket, exit().
SigExit ==
  /\ proc = "running"
  /\ mainPc = "sigClose"
  /\ \A c \in clients : obj[c] = "closed"
  /\ clients' = {}
  /\ clientsMtx' = "free"
  /\ proc' = "exited"
  /\ UNCHANGED <<mainPc, mainConn, sigConn, removerPc, removerConn, stop, threadVars, netVars,
                 objVars>>

----------------------------------------------------------------------------
(* The dead-clients thread: removeDeadClients.                             *)

RemoverCheck ==
  /\ proc = "running"
  /\ removerPc = "check"
  /\ removerPc' = IF stop THEN "done" ELSE "lock"
  /\ UNCHANGED <<proc, mainPc, mainConn, sigConn, removerConn, stop, clientsMtx, clients,
                 threadVars, netVars, objVars>>

RemoverLock ==
  /\ proc = "running"
  /\ removerPc = "lock"
  /\ clientsMtx = "free"
  /\ clientsMtx' = "remover"
  /\ removerPc' = "scan"
  /\ UNCHANGED <<proc, mainPc, mainConn, sigConn, removerConn, stop, clients, threadVars,
                 netVars, objVars>>

\* find_if found a client that is not connected; close() starts joining.
RemoverFind(c) ==
  /\ proc = "running"
  /\ removerPc = "scan"
  /\ c \in clients /\ ~connected[c]
  /\ removerConn' = c
  /\ removerPc' = "join"
  /\ UNCHANGED <<proc, mainPc, mainConn, sigConn, stop, clientsMtx, clients, threadVars,
                 netVars, objVars>>

\* Mutant: the object is deleted while its receive thread may still run.
RemoverDeleteNoJoin ==
  /\ proc = "running"
  /\ removerPc = "join"
  /\ obj' = [obj EXCEPT ![removerConn] = "freed"]
  /\ clients' = clients \ {removerConn}
  /\ removerConn' = NoConn
  /\ removerPc' = "scan"
  /\ UNCHANGED <<proc, mainPc, mainConn, sigConn, stop, clientsMtx, threadVars, netVars,
                 connected, ip>>

\* The receive thread is joined; the fd is closed, the object deleted and erased.
RemoverDelete ==
  /\ proc = "running"
  /\ removerPc = "join"
  /\ thr[removerConn] = "done"
  /\ obj' = [obj EXCEPT ![removerConn] = "freed"]
  /\ clients' = clients \ {removerConn}
  /\ removerConn' = NoConn
  /\ removerPc' = "scan"
  /\ UNCHANGED <<proc, mainPc, mainConn, sigConn, stop, clientsMtx, threadVars, netVars,
                 connected, ip>>

\* No dead client is left: unlock and sleep(2).
RemoverUnlock ==
  /\ proc = "running"
  /\ removerPc = "scan"
  /\ \A c \in clients : connected[c]
  /\ clientsMtx' = "free"
  /\ removerPc' = "sleep"
  /\ UNCHANGED <<proc, mainPc, mainConn, sigConn, removerConn, stop, clients, threadVars,
                 netVars, objVars>>

\* Mutant: removeDeadClients scans once instead of forever.
RemoverWakeOnce ==
  /\ proc = "running"
  /\ removerPc = "sleep"
  /\ removerPc' = "done"
  /\ UNCHANGED <<proc, mainPc, mainConn, sigConn, removerConn, stop, clientsMtx, clients,
                 threadVars, netVars, objVars>>

RemoverWake ==
  /\ proc = "running"
  /\ removerPc = "sleep"
  /\ removerPc' = "check"
  /\ UNCHANGED <<proc, mainPc, mainConn, sigConn, removerConn, stop, clientsMtx, clients,
                 threadVars, netVars, objVars>>

----------------------------------------------------------------------------
(* A receive thread: Client::receiveTask and the handlers it calls.        *)

\* while (isConnected())
RecvCheck(c) ==
  /\ proc = "running"
  /\ thr[c] = "check"
  /\ thr' = [thr EXCEPT ![c] = IF connected[c] THEN "select" ELSE "done"]
  /\ UNCHANGED <<proc, serverVars, netVars, objVars, subMtx, buf, ans, applied>>

\* waitFor returned TIMEOUT after its second: back to the loop's condition.
RecvTimeout(c) ==
  /\ proc = "running"
  /\ thr[c] = "select"
  /\ inbox[c] = NoMsg /\ sock[c] = "open"
  /\ thr' = [thr EXCEPT ![c] = "check"]
  /\ UNCHANGED <<proc, serverVars, netVars, objVars, subMtx, buf, ans, applied>>

\* recv returned the request.
RecvMsg(c) ==
  /\ proc = "running"
  /\ thr[c] = "select"
  /\ inbox[c] # NoMsg
  /\ buf' = [buf EXCEPT ![c] = inbox[c]]
  /\ inbox' = [inbox EXCEPT ![c] = NoMsg]
  /\ thr' = [thr EXCEPT ![c] = "publish"]
  /\ UNCHANGED <<proc, serverVars, objVars, subMtx, ans, applied, sock,
                 errTaken, reply, peer>>

\* recv returned 0: setConnected(false), then the DISCONNECTED event.
RecvClosed(c) ==
  /\ proc = "running"
  /\ thr[c] = "select"
  /\ inbox[c] = NoMsg
  /\ sock[c] = "fin" \/ (sock[c] = "reset" /\ errTaken[c])
  /\ connected' = [connected EXCEPT ![c] = FALSE]
  /\ thr' = [thr EXCEPT ![c] = "gone"]
  /\ UNCHANGED <<proc, serverVars, netVars, obj, ip, subMtx, buf, ans, applied>>

\* recv returned -1, which the size_t numOfBytesReceived turns into a huge
\* count: the INCOMING_MSG event is published with what the buffer holds.
RecvError(c) ==
  /\ proc = "running"
  /\ thr[c] = "select"
  /\ inbox[c] = NoMsg
  /\ sock[c] = "reset" /\ ~errTaken[c]
  /\ errTaken' = [errTaken EXCEPT ![c] = TRUE]
  /\ thr' = [thr EXCEPT ![c] = "publish"]
  /\ UNCHANGED <<proc, serverVars, objVars, subMtx, buf, ans, applied, sock,
                 inbox, reply, peer>>

\* Mutant: the subscribers are called without _subscribersMtx.
PublishMsgUnlocked(c) ==
  /\ proc = "running"
  /\ thr[c] = "publish"
  /\ IF ip[c] = "wanted"
       THEN subMtx' = c /\ thr' = [thr EXCEPT ![c] = "handle"]
       ELSE subMtx' = subMtx /\ thr' = [thr EXCEPT ![c] = "check"]
  /\ UNCHANGED <<proc, serverVars, netVars, objVars, buf, ans, applied>>

\* Mutant: an event that finds the mutex taken is dropped.
PublishMsgTryLock(c) ==
  /\ proc = "running"
  /\ thr[c] = "publish"
  /\ IF ip[c] = "wanted" /\ subMtx = NoConn
       THEN subMtx' = c /\ thr' = [thr EXCEPT ![c] = "handle"]
       ELSE subMtx' = subMtx /\ thr' = [thr EXCEPT ![c] = "check"]
  /\ UNCHANGED <<proc, serverVars, netVars, objVars, buf, ans, applied>>

\* Mutant: wantedIP is not compared.
PublishMsgToAnyIP(c) ==
  /\ proc = "running"
  /\ thr[c] = "publish"
  /\ subMtx = NoConn
  /\ subMtx' = c /\ thr' = [thr EXCEPT ![c] = "handle"]
  /\ UNCHANGED <<proc, serverVars, netVars, objVars, buf, ans, applied>>

\* publishSingleClientMsg: lock; the observer wants only its own IP.
PublishMsg(c) ==
  /\ proc = "running"
  /\ thr[c] = "publish"
  /\ subMtx = NoConn
  /\ IF ip[c] = "wanted"
       THEN subMtx' = c /\ thr' = [thr EXCEPT ![c] = "handle"]
       ELSE subMtx' = subMtx /\ thr' = [thr EXCEPT ![c] = "check"]
  /\ UNCHANGED <<proc, serverVars, netVars, objVars, buf, ans, applied>>

\* Mutant: the request itself is sent back.
HandleMsgEcho(c) ==
  /\ proc = "running"
  /\ thr[c] = "handle"
  /\ ans' = [ans EXCEPT ![c] = buf[c]]
  /\ applied' = [applied EXCEPT ![c] = IF buf[c] = "HELLO" THEN @ + 1 ELSE @]
  /\ thr' = [thr EXCEPT ![c] = "send"]
  /\ UNCHANGED <<proc, serverVars, netVars, objVars, subMtx, buf>>

\* Mutant: doAction returns true at once for every sub-command it knows.
HandleMsgNothing(c) ==
  /\ proc = "running"
  /\ thr[c] = "handle"
  /\ ans' = [ans EXCEPT ![c] = IF buf[c] \in {"HELLO", "GLOBAL", "BYE"} THEN "OK" ELSE "NOK"]
  /\ thr' = [thr EXCEPT ![c] = "send"]
  /\ UNCHANGED <<proc, serverVars, netVars, objVars, subMtx, buf, applied>>

\* onIncomingMsg_basedSocket up to the answer; a HELLO runs vtysh twice,
\* the command and "write", and runCommand never reports a failure; "NOT
\* IMPLEMENTED" is answered OK too.
HandleMsg(c) ==
  /\ proc = "running"
  /\ thr[c] = "handle"
  /\ ans' = [ans EXCEPT ![c] = IF buf[c] \in {"HELLO", "GLOBAL", "BYE"} THEN "OK" ELSE "NOK"]
  /\ applied' = [applied EXCEPT ![c] = IF buf[c] = "HELLO" THEN @ + 1 ELSE @]
  /\ thr' = [thr EXCEPT ![c] = "send"]
  /\ UNCHANGED <<proc, serverVars, netVars, objVars, subMtx, buf>>

\* Client::send returns without sending when the client is not connected,
\* and sendToClient reports success.
SendSkipped(c) ==
  /\ ~connected[c]
  /\ UNCHANGED <<proc, reply>>

\* ::send hands the answer to the kernel; a peer that has closed drops it.
SendBytes(c) ==
  /\ connected[c] /\ sock[c] \in {"open", "fin"}
  /\ reply' = [reply EXCEPT ![c] = IF sock[c] = "open" THEN ans[c] ELSE @]
  /\ UNCHANGED proc

\* ::send on a reset socket: the pending error makes it return -1, which
\* size_t hides; once that error was reported, SIGPIPE kills the process.
SendReset(c) ==
  /\ connected[c] /\ sock[c] = "reset"
  /\ proc' = IF errTaken[c] THEN "killed" ELSE proc
  /\ UNCHANGED reply

\* sendMessage, then the return through publishSingleClientMsg: unlock.
SendMessage(c) ==
  /\ proc = "running"
  /\ thr[c] = "send"
  /\ SendSkipped(c) \/ SendBytes(c) \/ SendReset(c)
  /\ subMtx' = NoConn
  /\ ans' = [ans EXCEPT ![c] = NoMsg]
  /\ thr' = [thr EXCEPT ![c] = "check"]
  /\ UNCHANGED <<serverVars, objVars, buf, applied, sock, errTaken, inbox, peer>>

\* publishClientDisconnected: lock, log, unlock; the thread ends.
PublishDisconnected(c) ==
  /\ proc = "running"
  /\ thr[c] = "gone"
  /\ subMtx = NoConn
  /\ thr' = [thr EXCEPT ![c] = "done"]
  /\ UNCHANGED <<proc, serverVars, netVars, objVars, subMtx, buf, ans, applied>>

----------------------------------------------------------------------------
Peer(c) == \/ PeerConnect(c) \/ PeerRead(c) \/ PeerTimeout(c) \/ PeerClose(c)
           \/ \E m \in Requests : PeerSend(c, m)

Main == \/ PushLock \/ PushBack
        \/ SigJoinRemover \/ SigLock \/ SigJoinThread \/ SigExit
        \/ \E c \in Conns : AcceptClient(c) \/ SigCloseClient(c)

Remover == \/ RemoverCheck \/ RemoverLock \/ RemoverDelete \/ RemoverUnlock \/ RemoverWake
           \/ \E c \in Conns : RemoverFind(c)

Receiver(c) == \/ RecvCheck(c) \/ RecvTimeout(c) \/ RecvMsg(c) \/ RecvClosed(c)
               \/ RecvError(c) \/ PublishMsg(c) \/ HandleMsg(c) \/ SendMessage(c)
               \/ PublishDisconnected(c)

Next == Signal \/ Main \/ Remover \/ \E c \in Conns : Peer(c) \/ Receiver(c)

Spec == Init /\ [][Next]_vars

(***************************************************************************)
(* Fairness.  Every thread keeps running (weak fairness).  The main thread *)
(* gets _clientsMtx if it is free again and again (strong fairness): the   *)
(* remover, which takes it forever, leaves it free for a sleep(2) each     *)
(* time.  Peers and signals owe nothing.                                   *)
(***************************************************************************)
Fairness ==
  /\ WF_vars(Main) /\ SF_vars(PushLock)
  /\ WF_vars(Remover)
  /\ \A c \in Conns : WF_vars(Receiver(c))

FairSpec == Spec /\ Fairness

----------------------------------------------------------------------------
ThreadPcs == {"none", "check", "select", "publish", "handle", "send", "gone", "done"}
Running(c) == thr[c] \notin {"none", "done"}

\* No termination signal has arrived.
Serving == mainPc \in {"accept", "push", "pushing"}

\* The shape of the agent's state.
TypeOK ==
  /\ proc \in {"running", "exited", "killed"}
  /\ mainPc \in {"accept", "push", "pushing", "sigJoin", "sigLock", "sigClose", "sigThread"}
  /\ mainConn \in Conns \cup {NoConn}
  /\ sigConn \in Conns \cup {NoConn}
  /\ removerPc \in {"check", "lock", "scan", "join", "sleep", "done"}
  /\ removerConn \in Conns \cup {NoConn}
  /\ stop \in BOOLEAN
  /\ clientsMtx \in {"free", "main", "remover"}
  /\ subMtx \in Conns \cup {NoConn}
  /\ clients \subseteq Conns
  /\ obj \in [Conns -> {"none", "live", "closed", "freed"}]
  /\ connected \in [Conns -> BOOLEAN]
  /\ ip \in [Conns -> {"wanted", "other", NoMsg}]
  /\ thr \in [Conns -> ThreadPcs]
  /\ buf \in [Conns -> RequestKinds \cup {Junk}]
  /\ ans \in [Conns -> {"OK", "NOK", NoMsg}]
  /\ sock \in [Conns -> {"none", "open", "fin", "reset"}]
  /\ errTaken \in [Conns -> BOOLEAN]
  /\ inbox \in [Conns -> RequestKinds \cup {NoMsg}]
  /\ reply \in [Conns -> {"OK", "NOK", NoMsg}]
  /\ peer \in [Conns -> {"idle", "connected", "waiting", "closing", "true", "false"}]
  /\ applied \in [Conns -> Nat]

\* Only one receive thread at a time runs the handler, so the vtysh processes
\* of two requests never overlap (server.cpp publishSingleClientMsg).
HandlersSerialised ==
  \A c, d \in Conns : thr[c] \in {"handle", "send"} /\ thr[d] \in {"handle", "send"} => c = d

\* A Client is closed and deleted only after its receive thread has ended, and
\* never stays in _clients after its deletion (server.cpp removeDeadClients,
\* close): no thread uses a freed object or a closed descriptor.
NoUseAfterFree ==
  \A c \in Conns : /\ Running(c) => obj[c] = "live"
                   /\ c \in clients => obj[c] \in {"live", "closed"}
                   /\ obj[c] = "freed" => c \notin clients

\* No client is forgotten: one that runs and is not in _clients is the one
\* acceptClient is about to add (server.cpp acceptClient starts the thread first).
NoClientForgotten ==
  \A c \in Conns : obj[c] = "live" /\ c \notin clients => mainConn = c

\* Xsend returns true only for a request the agent knew and, for one that has a
\* vtysh command, only after vtysh was run for it.  The exception is the one that
\* has none: SET_WIREGUARD_GLOBAL_CONFIG does nothing and is answered OK
\* (vtyshell.cpp doAction).
TrueMeansDone ==
  \A c \in Conns : peer[c] = "true" => \/ buf[c] = "HELLO" /\ applied[c] >= 1
                                       \/ buf[c] \in {"GLOBAL", "BYE"} /\ applied[c] = 0

\* Only the peers at the observer's wantedIP are served: no other has a request
\* executed or is told that it was (server.cpp publishSingleClientMsg).
OnlyWantedServed == \A c \in Conns : ip[c] # "wanted" => applied[c] = 0 /\ peer[c] # "true"

\* A request is executed at most once (client.cpp: "Receive client packets,
\* and notify user"; a failed recv is meant to be a disconnection).
ExecutedAtMostOnce == \A c \in Conns : applied[c] <= 1

\* A client whose connection ended is closed, deleted and erased, or the
\* process ends (server.cpp removeDeadClients).
DeadClientRemoved ==
  \A c \in Conns : (obj[c] = "live" /\ ~connected[c]) ~>
    (obj[c] = "freed" \/ proc # "running" \/ ~Serving)

\* A request that reached the agent is executed, whatever its peer does in the
\* meantime, unless the agent is told to stop.
RequestExecuted ==
  \A c \in Conns : inbox[c] = "HELLO" ~>
    (applied[c] >= 1 \/ ip[c] = "other" \/ proc # "running" \/ ~Serving)

\* main.cpp sig_handler: "Received signal {}, exiting...": the process does exit.
SignalExits == (mainPc = "sigJoin") ~> (proc # "running")
=============================================================================
