------------------------- MODULE AgentServerProofs -------------------------
(***************************************************************************)
(* Proofs about AgentServer for any number of connections: the state keeps *)
(* its type, the handlers of two requests never overlap, no thread uses a  *)
(* Client after it was closed or deleted, and an answer can be trusted.    *)
(***************************************************************************)
EXTENDS AgentServer, TLAPS

(***************************************************************************)
(* The strengthening the lifetime argument needs.  The handler of a        *)
(* request runs under _subscribersMtx.  A client is deleted only by the    *)
(* remover and closed only by the signal handler, and the two never work   *)
(* at the same time, because the handler first joins the remover.  Both    *)
(* take their client from _clients, where acceptClient's new one is not    *)
(* yet.                                                                    *)
(***************************************************************************)
HandlerHoldsLock == \A c \in Conns : thr[c] \in {"handle", "send"} => subMtx = c

InSignalClose == mainPc \in {"sigLock", "sigClose", "sigThread"}

Ownership ==
  /\ InSignalClose => removerPc = "done"
  /\ \A c \in Conns : obj[c] = "closed" => InSignalClose
  /\ removerPc = "join" => removerConn \in clients
  /\ mainPc = "sigThread" => sigConn \in clients /\ obj[sigConn] = "live"

NewClient ==
  /\ mainPc = "accept" => mainConn = NoConn
  /\ mainPc \in {"push", "pushing"} => mainConn \in Conns
  /\ mainConn \in Conns => mainConn \notin clients /\ obj[mainConn] = "live"

Started == \A c \in Conns : obj[c] = "none" => thr[c] = "none"

Inv == /\ TypeOK /\ HandlerHoldsLock /\ Ownership /\ NewClient /\ Started
       /\ NoUseAfterFree /\ NoClientForgotten

----------------------------------------------------------------------------
\* The initial state satisfies the invariant.
LEMMA InitInv == Init => Inv
  <1> SUFFICES ASSUME Init PROVE Inv
    OBVIOUS
  <1>1. TypeOK
    BY ConnAssumption DEF Init, TypeOK, ThreadPcs, RequestKinds, Junk, NoMsg
  <1>2. HandlerHoldsLock /\ Started /\ NoUseAfterFree /\ NoClientForgotten
    BY DEF Init, HandlerHoldsLock, Started, NoUseAfterFree, NoClientForgotten, Running
  <1>3. Ownership /\ NewClient
    BY ConnAssumption DEF Init, Ownership, InSignalClose, NewClient
  <1> QED BY <1>1, <1>2, <1>3 DEF Inv

\* Every step preserves the type invariant.
LEMMA TypeStep == TypeOK /\ Ownership /\ NewClient /\ [Next]_vars => TypeOK'
  <1> SUFFICES ASSUME TypeOK, Ownership, NewClient, [Next]_vars
               PROVE  TypeOK'
    OBVIOUS
  <1> USE ConnAssumption DEF TypeOK, ThreadPcs, RequestKinds, Junk, NoMsg, serverVars, threadVars, netVars, objVars
  <1>1. ASSUME NEW c \in Conns, Peer(c) PROVE TypeOK'
    <2>1. CASE PeerConnect(c) BY <2>1 DEF PeerConnect
    <2>2. CASE PeerRead(c) BY <2>2 DEF PeerRead
    <2>3. CASE PeerTimeout(c) BY <2>3 DEF PeerTimeout
    <2>4. CASE PeerClose(c) BY <2>4 DEF PeerClose
    <2>5. ASSUME NEW m \in Requests, PeerSend(c, m) PROVE TypeOK'
      BY <2>5 DEF PeerSend
    <2> QED BY <1>1, <2>1, <2>2, <2>3, <2>4, <2>5 DEF Peer
  <1>2. CASE Signal BY <1>2 DEF Signal
  <1>3. CASE Main
    <2>1. CASE PushLock BY <2>1 DEF PushLock
    <2>2. CASE PushBack BY <2>2 DEF PushBack, NewClient
    <2>3. CASE SigJoinRemover BY <2>3 DEF SigJoinRemover
    <2>4. CASE SigLock BY <2>4 DEF SigLock
    <2>5. CASE SigJoinThread BY <2>5 DEF SigJoinThread
    <2>6. CASE SigExit BY <2>6 DEF SigExit
    <2>7. ASSUME NEW c \in Conns, AcceptClient(c) PROVE TypeOK'
      BY <2>7 DEF AcceptClient
    <2>8. ASSUME NEW c \in Conns, SigCloseClient(c) PROVE TypeOK'
      BY <2>8 DEF SigCloseClient
    <2> QED BY <1>3, <2>1, <2>2, <2>3, <2>4, <2>5, <2>6, <2>7, <2>8 DEF Main
  <1>4. CASE Remover
    <2>1. CASE RemoverCheck BY <2>1 DEF RemoverCheck
    <2>2. CASE RemoverLock BY <2>2 DEF RemoverLock
    <2>3. CASE RemoverDelete BY <2>3 DEF RemoverDelete
    <2>4. CASE RemoverUnlock BY <2>4 DEF RemoverUnlock
    <2>5. CASE RemoverWake BY <2>5 DEF RemoverWake
    <2>6. ASSUME NEW c \in Conns, RemoverFind(c) PROVE TypeOK'
      BY <2>6 DEF RemoverFind
    <2> QED BY <1>4, <2>1, <2>2, <2>3, <2>4, <2>5, <2>6 DEF Remover
  <1>5. ASSUME NEW c \in Conns, Receiver(c) PROVE TypeOK'
    <2>1. CASE RecvCheck(c) BY <2>1 DEF RecvCheck
    <2>2. CASE RecvTimeout(c) BY <2>2 DEF RecvTimeout
    <2>3. CASE RecvMsg(c) BY <2>3 DEF RecvMsg
    <2>4. CASE RecvClosed(c) BY <2>4 DEF RecvClosed
    <2>5. CASE RecvError(c) BY <2>5 DEF RecvError
    <2>6. CASE PublishMsg(c) BY <2>6 DEF PublishMsg
    <2>7. CASE HandleMsg(c) BY <2>7 DEF HandleMsg
    <2>8. CASE SendMessage(c)
      <3>1. CASE SendSkipped(c) BY <2>8, <3>1 DEF SendMessage, SendSkipped
      <3>2. CASE SendBytes(c) BY <2>8, <3>2 DEF SendMessage, SendBytes
      <3>3. CASE SendReset(c) BY <2>8, <3>3 DEF SendMessage, SendReset
      <3> QED BY <2>8, <3>1, <3>2, <3>3 DEF SendMessage
    <2>9. CASE PublishDisconnected(c) BY <2>9 DEF PublishDisconnected
    <2> QED BY <1>5, <2>1, <2>2, <2>3, <2>4, <2>5, <2>6, <2>7, <2>8, <2>9 DEF Receiver
  <1>6. CASE UNCHANGED vars BY <1>6 DEF vars
  <1> QED BY <1>1, <1>2, <1>3, <1>4, <1>5, <1>6 DEF Next

\* A step of a peer, of the main thread or of the remover leaves the handlers'
\* lock alone; a receive thread enters the handler only through the free lock.
LEMMA LockStep == TypeOK /\ HandlerHoldsLock /\ Started /\ [Next]_vars => HandlerHoldsLock'
  <1> SUFFICES ASSUME TypeOK, HandlerHoldsLock, Started, [Next]_vars
               PROVE  HandlerHoldsLock'
    OBVIOUS
  <1> USE ConnAssumption DEF TypeOK, HandlerHoldsLock, serverVars, threadVars, netVars, objVars
  <1>1. ASSUME NEW c \in Conns, Peer(c) PROVE HandlerHoldsLock'
    BY <1>1 DEF Peer, PeerConnect, PeerRead, PeerTimeout, PeerClose, PeerSend
  <1>2. CASE Signal BY <1>2 DEF Signal
  <1>3. CASE Main
    <2>1. ASSUME NEW c \in Conns, AcceptClient(c) PROVE HandlerHoldsLock'
      BY <2>1 DEF AcceptClient, Started
    <2> QED BY <1>3, <2>1 DEF Main, PushLock, PushBack, SigJoinRemover, SigLock, SigJoinThread,
                            SigExit, SigCloseClient
  <1>4. CASE Remover
    BY <1>4 DEF Remover, RemoverCheck, RemoverLock, RemoverDelete, RemoverUnlock, RemoverWake,
                RemoverFind
  <1>5. ASSUME NEW c \in Conns, Receiver(c) PROVE HandlerHoldsLock'
    <2>1. CASE RecvCheck(c) BY <2>1 DEF RecvCheck
    <2>2. CASE RecvTimeout(c) BY <2>2 DEF RecvTimeout
    <2>3. CASE RecvMsg(c) BY <2>3 DEF RecvMsg
    <2>4. CASE RecvClosed(c) BY <2>4 DEF RecvClosed
    <2>5. CASE RecvError(c) BY <2>5 DEF RecvError
    <2>6. CASE PublishMsg(c) BY <2>6 DEF PublishMsg
    <2>7. CASE HandleMsg(c) BY <2>7 DEF HandleMsg
    <2>8. CASE SendMessage(c) BY <2>8 DEF SendMessage
    <2>9. CASE PublishDisconnected(c) BY <2>9 DEF PublishDisconnected
    <2> QED BY <1>5, <2>1, <2>2, <2>3, <2>4, <2>5, <2>6, <2>7, <2>8, <2>9 DEF Receiver
  <1>6. CASE UNCHANGED vars BY <1>6 DEF vars
  <1> QED BY <1>1, <1>2, <1>3, <1>4, <1>5, <1>6 DEF Next

\* What the lifetime of the Client objects rests on.
Lifetime == Ownership /\ NewClient /\ Started /\ NoUseAfterFree /\ NoClientForgotten

\* The main thread, the signal handler included, keeps the lifetime invariant.
LEMMA MainLifetime == TypeOK /\ Lifetime /\ (Signal \/ Main) => Lifetime'
  <1> SUFFICES ASSUME TypeOK, Lifetime, Signal \/ Main PROVE Lifetime'
    OBVIOUS
  <1> USE ConnAssumption DEF TypeOK, Lifetime, Ownership, InSignalClose, NewClient, Started,
          NoUseAfterFree, NoClientForgotten, Running, serverVars, threadVars, netVars, objVars
  <1>1. CASE Signal BY <1>1 DEF Signal
  <1>2. CASE PushLock BY <1>2 DEF PushLock
  <1>3. CASE PushBack BY <1>3 DEF PushBack
  <1>4. CASE SigJoinRemover BY <1>4 DEF SigJoinRemover
  <1>5. CASE SigLock BY <1>5 DEF SigLock
  <1>6. CASE SigJoinThread BY <1>6 DEF SigJoinThread
  <1>7. CASE SigExit BY <1>7 DEF SigExit
  <1>8. ASSUME NEW c \in Conns, AcceptClient(c) PROVE Lifetime'
    BY <1>8 DEF AcceptClient
  <1>9. ASSUME NEW c \in Conns, SigCloseClient(c) PROVE Lifetime'
    BY <1>9 DEF SigCloseClient
  <1> QED BY <1>1, <1>2, <1>3, <1>4, <1>5, <1>6, <1>7, <1>8, <1>9 DEF Main

\* So does the remover: it deletes only a client of _clients whose thread ended.
LEMMA RemoverLifetime == TypeOK /\ Lifetime /\ Remover => Lifetime'
  <1> SUFFICES ASSUME TypeOK, Lifetime, Remover PROVE Lifetime'
    OBVIOUS
  <1> USE ConnAssumption DEF TypeOK, Lifetime, Ownership, InSignalClose, NewClient, Started,
          NoUseAfterFree, NoClientForgotten, Running, serverVars, threadVars, netVars, objVars
  <1>1. CASE RemoverCheck BY <1>1 DEF RemoverCheck
  <1>2. CASE RemoverLock BY <1>2 DEF RemoverLock
  <1>3. CASE RemoverDelete BY <1>3 DEF RemoverDelete
  <1>4. CASE RemoverUnlock BY <1>4 DEF RemoverUnlock
  <1>5. CASE RemoverWake BY <1>5 DEF RemoverWake
  <1>6. ASSUME NEW c \in Conns, RemoverFind(c) PROVE Lifetime'
    BY <1>6 DEF RemoverFind
  <1> QED BY <1>1, <1>2, <1>3, <1>4, <1>5, <1>6 DEF Remover

\* A receive thread changes no object; once ended it never runs again.
LEMMA ReceiverLifetime ==
  ASSUME TypeOK, Lifetime, NEW c \in Conns, Receiver(c)
  PROVE  Lifetime'
  <1> USE ConnAssumption DEF TypeOK, Lifetime, Ownership, InSignalClose, NewClient, Started,
          NoUseAfterFree, NoClientForgotten, Running, serverVars, threadVars, netVars, objVars
  <1>1. CASE RecvCheck(c) BY <1>1 DEF RecvCheck
  <1>2. CASE RecvTimeout(c) BY <1>2 DEF RecvTimeout
  <1>3. CASE RecvMsg(c) BY <1>3 DEF RecvMsg
  <1>4. CASE RecvClosed(c) BY <1>4 DEF RecvClosed
  <1>5. CASE RecvError(c) BY <1>5 DEF RecvError
  <1>6. CASE PublishMsg(c) BY <1>6 DEF PublishMsg
  <1>7. CASE HandleMsg(c) BY <1>7 DEF HandleMsg
  <1>8. CASE SendMessage(c) BY <1>8 DEF SendMessage
  <1>9. CASE PublishDisconnected(c) BY <1>9 DEF PublishDisconnected
  <1> QED BY <1>1, <1>2, <1>3, <1>4, <1>5, <1>6, <1>7, <1>8, <1>9 DEF Receiver

\* Peers touch only the sockets.
LEMMA PeerLifetime ==
  ASSUME TypeOK, Lifetime, NEW c \in Conns, Peer(c)
  PROVE  Lifetime'
  BY DEF Lifetime, Ownership, InSignalClose, NewClient, Started, NoUseAfterFree,
         NoClientForgotten, Running, serverVars, threadVars, netVars, objVars,
         Peer, PeerConnect, PeerRead, PeerTimeout, PeerClose, PeerSend

\* Every step preserves the invariant.
LEMMA StepInv == Inv /\ [Next]_vars => Inv'
  <1> SUFFICES ASSUME Inv, [Next]_vars PROVE Inv'
    OBVIOUS
  <1>1. TypeOK /\ HandlerHoldsLock /\ Lifetime
    BY DEF Inv, Lifetime
  <1>2. TypeOK'
    BY <1>1, TypeStep DEF Lifetime
  <1>3. HandlerHoldsLock'
    BY <1>1, LockStep DEF Lifetime
  <1>4. Lifetime'
    <2>1. CASE UNCHANGED vars
      BY <1>1, <2>1 DEF Lifetime, Ownership, InSignalClose, NewClient, Started, NoUseAfterFree,
         NoClientForgotten, Running, serverVars, threadVars, netVars, objVars, vars
    <2> QED BY <1>1, <2>1, MainLifetime, RemoverLifetime, ReceiverLifetime, PeerLifetime DEF Next
  <1> QED BY <1>2, <1>3, <1>4 DEF Inv, Lifetime

\* Inv is an invariant of the agent.
LEMMA SpecInv == Spec => []Inv
  BY InitInv, StepInv, PTL DEF Spec

\* The agent's state keeps its type, whatever the number of connections.
THEOREM TypeCorrect == Spec => []TypeOK
  <1>1. Inv => TypeOK BY DEF Inv
  <1> QED BY <1>1, SpecInv, PTL

\* publishSingleClientMsg serialises the handlers: the vtysh processes of two
\* requests never overlap, for any number of connections.
THEOREM HandlersNeverOverlap == Spec => []HandlersSerialised
  <1>1. Inv => HandlersSerialised
    BY DEF Inv, HandlerHoldsLock, HandlersSerialised
  <1> QED BY <1>1, SpecInv, PTL

\* No receive thread works on a closed or deleted Client, and _clients holds
\* no deleted one (removeDeadClients, close).
THEOREM ClientsAreMemorySafe == Spec => []NoUseAfterFree
  <1>1. Inv => NoUseAfterFree BY DEF Inv
  <1> QED BY <1>1, SpecInv, PTL

\* Every live Client is in _clients or is the one acceptClient is adding.
THEOREM ClientsAreTracked == Spec => []NoClientForgotten
  <1>1. Inv => NoClientForgotten BY DEF Inv
  <1> QED BY <1>1, SpecInv, PTL
----------------------------------------------------------------------------
(***************************************************************************)
(* What an answer is worth.  A connection carries one request: until the   *)
(* agent has read it, its handler has not run and nothing was answered.    *)
(* From then on the buffer stays, so that an OK on its way back, wherever  *)
(* it is, is about the request that was executed.                          *)
(***************************************************************************)
Done(c) == \/ buf[c] = "HELLO" /\ applied[c] >= 1
           \/ buf[c] \in {"GLOBAL", "BYE"} /\ applied[c] = 0

Unread(c) == peer[c] \in {"idle", "connected"} \/ inbox[c] # NoMsg

Fresh(c) == /\ thr[c] \notin {"publish", "handle", "send"}
            /\ ans[c] = NoMsg /\ reply[c] = NoMsg /\ applied[c] = 0
            /\ peer[c] # "true" /\ sock[c] # "reset"

Served(c) == thr[c] \in {"handle", "send"} \/ applied[c] > 0 \/ ans[c] = "OK" \/ reply[c] = "OK"
             \/ peer[c] = "true"

Answers ==
  \A c \in Conns :
    /\ inbox[c] # NoMsg => peer[c] \notin {"idle", "connected"}
    /\ Unread(c) => Fresh(c)
    /\ ans[c] = "OK" \/ reply[c] = "OK" \/ peer[c] = "true" => Done(c)
    /\ applied[c] > 0 => buf[c] = "HELLO"
    /\ Served(c) => ip[c] = "wanted"
    /\ obj[c] = "none" => ip[c] = NoMsg

\* Neither the main thread nor the remover touches a request or an answer.
LEMMA ServerAnswers == TypeOK /\ Answers /\ (Signal \/ Main \/ Remover) => Answers'
  <1> SUFFICES ASSUME TypeOK, Answers, Signal \/ Main \/ Remover PROVE Answers'
    OBVIOUS
  <1> USE DEF Answers, Done, Unread, Fresh, Served, serverVars, threadVars, netVars, objVars
  <1>1. CASE Signal BY <1>1 DEF Signal
  <1>2. CASE Remover
    BY <1>2 DEF Remover, RemoverCheck, RemoverLock, RemoverFind, RemoverDelete, RemoverUnlock,
                RemoverWake, TypeOK
  <1>3. ASSUME NEW c \in Conns, AcceptClient(c) PROVE Answers'
    BY <1>3 DEF AcceptClient, TypeOK, NoMsg
  <1>4. ASSUME NEW c \in Conns, SigCloseClient(c) PROVE Answers'
    BY <1>4 DEF SigCloseClient
  <1>5. CASE PushLock \/ PushBack \/ SigJoinRemover \/ SigLock \/ SigExit
    BY <1>5 DEF PushLock, PushBack, SigJoinRemover, SigLock, SigExit
  <1>6. CASE SigJoinThread
    BY <1>6 DEF SigJoinThread, TypeOK
  <1> QED BY <1>1, <1>2, <1>3, <1>4, <1>5, <1>6 DEF Main

\* A peer sends one request and takes what has arrived.
LEMMA PeerAnswers ==
  ASSUME TypeOK, Answers, NEW c \in Conns, Peer(c)
  PROVE  Answers'
  <1> USE DEF TypeOK, Answers, Done, Unread, Fresh, Served, NoMsg, serverVars, threadVars, netVars,
              objVars
  <1>1. CASE PeerConnect(c) BY <1>1 DEF PeerConnect
  <1>2. CASE PeerRead(c) BY <1>2 DEF PeerRead
  <1>3. CASE PeerTimeout(c) BY <1>3 DEF PeerTimeout
  <1>4. CASE PeerClose(c) BY <1>4 DEF PeerClose
  <1>5. ASSUME NEW m \in Requests, PeerSend(c, m) PROVE Answers'
    BY <1>5 DEF PeerSend
  <1> QED BY <1>1, <1>2, <1>3, <1>4, <1>5 DEF Peer

\* A receive thread answers OK only what its handler has executed, and runs the
\* handler only for the address its observer wants.
LEMMA ReceiverAnswers ==
  ASSUME TypeOK, Answers, NEW c \in Conns, Receiver(c)
  PROVE  Answers'
  <1> USE DEF TypeOK, Answers, Done, Unread, Fresh, Served, NoMsg, serverVars, threadVars, netVars,
              objVars
  <1>1. CASE RecvCheck(c) BY <1>1 DEF RecvCheck
  <1>2. CASE RecvTimeout(c) BY <1>2 DEF RecvTimeout
  <1>3. CASE RecvMsg(c) BY <1>3 DEF RecvMsg
  <1>4. CASE RecvClosed(c) BY <1>4 DEF RecvClosed
  <1>5. CASE RecvError(c) BY <1>5 DEF RecvError
  <1>6. CASE PublishMsg(c) BY <1>6 DEF PublishMsg
  <1>7. CASE HandleMsg(c) BY <1>7 DEF HandleMsg
  <1>8. CASE SendMessage(c)
    <2>1. CASE SendSkipped(c) BY <1>8, <2>1 DEF SendMessage, SendSkipped
    <2>2. CASE SendBytes(c) BY <1>8, <2>2 DEF SendMessage, SendBytes
    <2>3. CASE SendReset(c) BY <1>8, <2>3 DEF SendMessage, SendReset
    <2> QED BY <1>8, <2>1, <2>2, <2>3 DEF SendMessage
  <1>9. CASE PublishDisconnected(c) BY <1>9 DEF PublishDisconnected
  <1> QED BY <1>1, <1>2, <1>3, <1>4, <1>5, <1>6, <1>7, <1>8, <1>9 DEF Receiver

\* Answers is an invariant of the agent.
LEMMA SpecAnswers == Spec => []Answers
  <1>1. Init => Answers
    BY DEF Init, Answers, Unread, Fresh, Served, NoMsg
  <1>2. TypeOK /\ Answers /\ [Next]_vars => Answers'
    <2> SUFFICES ASSUME TypeOK, Answers, [Next]_vars PROVE Answers'
      OBVIOUS
    <2>1. CASE UNCHANGED vars
      BY <2>1 DEF Answers, Done, Unread, Fresh, Served, vars, serverVars, threadVars, netVars,
                  objVars
    <2> QED BY <2>1, ServerAnswers, PeerAnswers, ReceiverAnswers DEF Next
  <1> QED BY <1>1, <1>2, TypeCorrect, PTL DEF Spec

\* Xsend returns true only for a BYE, for the sub-command that is not implemented or
\* after vtysh was run for the request, for any number of connections, timeouts and
\* late answers.
THEOREM TrueAnswersAreDone == Spec => []TrueMeansDone
  <1>1. Answers => TrueMeansDone
    BY DEF Answers, Done, TrueMeansDone
  <1> QED BY <1>1, SpecAnswers, PTL

\* No peer but the one at the observer's wantedIP has a request executed or is
\* told that it was.
THEOREM OthersAreNotServed == Spec => []OnlyWantedServed
  <1>1. TypeOK /\ Answers => OnlyWantedServed
    BY DEF TypeOK, Answers, Served, OnlyWantedServed
  <1> QED BY <1>1, SpecAnswers, TypeCorrect, PTL
=============================================================================
