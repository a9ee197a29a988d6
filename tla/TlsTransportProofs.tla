------------------------- MODULE TlsTransportProofs -------------------------
(***************************************************************************)
(* Proofs about TlsTransport for every number of sockets, of root          *)
(* certificates, of bytes in a record and of items in a receive buffer:    *)
(* the notify thread never outlives its socket, and no handshake inherits  *)
(* anything from the connection before it.                                 *)
(***************************************************************************)
EXTENDS TlsTransport, FiniteSetTheorems, SequenceTheorems, TLAPS

-----------------------------------------------------------------------------
(* Facts about the operators.                                              *)

(* xSockHandle is -1 when there is no socket, which no descriptor is.      *)
LEMMA NoSocketIsNone == NoSocket \notin Sockets
BY TransportAssumption DEF NoSocket, Sockets

(* xConfigureCAChain counts no more certificates than it was given.        *)
LEMMA ValidCountType ==
  ASSUME NEW results
  PROVE  ValidCount(results) \in 0 .. NumRootCA
<1> DEFINE ok == {i \in Tried(results) : results[i] = "ok"}
<1>1. IsFiniteSet(1 .. NumRootCA)
      /\ Cardinality(1 .. NumRootCA) = IF 1 > NumRootCA THEN 0 ELSE NumRootCA - 1 + 1
  BY FS_Interval, TransportAssumption
<1>2. ok \subseteq 1 .. NumRootCA
  BY DEF Tried
<1>3. IsFiniteSet(ok) /\ Cardinality(ok) <= Cardinality(1 .. NumRootCA)
  BY <1>1, <1>2, FS_Subset
<1>4. Cardinality(ok) \in Nat
  BY <1>3, FS_CardinalityType
<1> QED
  BY <1>1, <1>3, <1>4, TransportAssumption DEF ValidCount

(* A read takes the first item out of the receive buffer of the socket.    *)
LEMMA TailBounded ==
  ASSUME NEW s \in Seq(Items), s # <<>>, Len(s) <= MaxRx
  PROVE  Tail(s) \in Seq(Items) /\ Len(Tail(s)) <= MaxRx
<1>1. Len(s) \in Nat /\ Tail(s) \in Seq(Items) /\ Len(Tail(s)) = Len(s) - 1
  BY HeadTailProperties
<1> QED
  BY <1>1, TransportAssumption

(* mbedtls_ssl_send: the bytes that a call of sock_send took are bytes of  *)
(* the record, whichever of them they are.                                 *)
LEMMA SentType ==
  ASSUME NEW s \in Seq(1 .. RecordLength), NEW n \in 1 .. RecordLength
  PROVE  s \o [i \in 1 .. n |-> i] \in Seq(1 .. RecordLength)
<1>1. [i \in 1 .. n |-> i] \in Seq(1 .. RecordLength)
  BY TransportAssumption
<1> QED
  BY <1>1

-----------------------------------------------------------------------------
(* The inductive invariant.  SocketsOwned alone is not inductive: that the *)
(* thread has left its select when the socket is closed follows only from  *)
(* the handle being an exact account of the thread, which the agent waits  *)
(* for before it closes; and that the session is fresh only from where the *)
(* agent must have been to start a thread.                                 *)

(* vCreateSocketNotifyTask sets the handle, and vSocketNotifyThread clears *)
(* it when all that is left to do is to delete itself.                     *)
Gone == {"none", "deleting"}
HandleExact == handle = (thread.at \notin Gone)

(* While there is a thread that runs, its socket is that of the context,   *)
(* open, and the agent is between a handshake and the end of a disconnect. *)
ThreadHasSocket ==
  thread.at \notin Gone =>
    /\ thread.sock = sock /\ sock \in open
    /\ agent \in {"loop", "send", "reset", "disconnect", "stop"}

(* mbedtls_transport_connect starts from a session that was reset, and     *)
(* mbedtls_transport_disconnect resets it because it finds the context     *)
(* configured.                                                             *)
SessionReset ==
  /\ agent \in {"setup", "connect", "handshake"} => session = "fresh"
  /\ agent = "stop" => state = "CONFIGURED"

(* After xConnectSocket the socket of the context is an open one.          *)
SocketConnected ==
  /\ agent = "handshake" => sock \in open
  /\ open \subseteq {sock}

IInv == TypeOK /\ HandleExact /\ ThreadHasSocket /\ SessionReset /\ SocketConnected

LEMMA InitIInv == Init => IInv
<1> SUFFICES ASSUME Init PROVE IInv
  OBVIOUS
<1>1. <<>> \in Seq(Items) /\ Len(<<>>) <= MaxRx /\ <<>> \in Seq(1 .. RecordLength)
  BY TransportAssumption
<1>2. 0 \in 0 .. NumRootCA
  BY TransportAssumption
<1>3. TypeOK
  BY <1>1, <1>2 DEF Init, TypeOK, NoThread
<1> QED
  BY <1>3 DEF Init, IInv, HandleExact, Gone, ThreadHasSocket, SessionReset, SocketConnected, NoThread

-----------------------------------------------------------------------------
(* One lemma for each part of the transport.                               *)

LEMMA ConnectIInv ==
  ASSUME IInv, Configure \/ ConnectSocket \/ ConnectSocketFails \/ HandshakeFails \/ HandshakeSucceeds
  PROVE  IInv'
<1> USE DEF IInv
<1>1. CASE Configure
  <2>1. rootCAs' \in 0 .. NumRootCA
    BY <1>1, ValidCountType DEF Configure, TypeOK
  <2>2. TypeOK'
    BY <1>1, <2>1 DEF Configure, TypeOK, netVars, threadVars
  <2> QED
    BY <1>1, <2>2 DEF Configure, netVars, threadVars, HandleExact, Gone, ThreadHasSocket,
       SessionReset, SocketConnected
<1>2. CASE ConnectSocket
  <2>1. TypeOK'
    BY <1>2, TransportAssumption DEF ConnectSocket, TypeOK, threadVars
  <2> QED
    BY <1>2, <2>1 DEF ConnectSocket, threadVars, HandleExact, Gone, ThreadHasSocket, SessionReset,
       SocketConnected
<1>3. CASE ConnectSocketFails
  <2>1. TypeOK'
    BY <1>3 DEF ConnectSocketFails, TypeOK, netVars, threadVars
  <2> QED
    BY <1>3, <2>1 DEF ConnectSocketFails, netVars, threadVars, HandleExact, Gone, ThreadHasSocket,
       SessionReset, SocketConnected
<1>4. CASE HandshakeFails
  <2>1. TypeOK'
    BY <1>4 DEF HandshakeFails, TypeOK, netVars, threadVars
  <2> QED
    BY <1>4, <2>1 DEF HandshakeFails, netVars, threadVars, HandleExact, Gone, ThreadHasSocket,
       SessionReset, SocketConnected
<1>5. CASE HandshakeSucceeds
  <2>1. TypeOK'
    BY <1>5 DEF HandshakeSucceeds, TypeOK, netVars
  <2> QED
    BY <1>5, <2>1 DEF HandshakeSucceeds, netVars, HandleExact, Gone, ThreadHasSocket, SessionReset,
       SocketConnected
<1> QED
  BY <1>1, <1>2, <1>3, <1>4, <1>5

LEMMA LoopIInv ==
  ASSUME IInv, RecvData \/ RecvNothing \/ RecvEof \/ RecvFails \/ CloseOnReset \/ CloseOnNotify
               \/ SendRecord \/ SockSend \/ SendFails \/ SendDone \/ LoopEnds
  PROVE  IInv'
<1> USE DEF IInv, tlsVars, netVars, threadVars
<1>1. CASE RecvData
  <2>1. rx' \in Seq(Items) /\ Len(rx') <= MaxRx
    BY <1>1, TailBounded DEF RecvData, TypeOK
  <2>2. TypeOK'
    BY <1>1, <2>1 DEF RecvData, TypeOK
  <2> QED
    BY <1>1, <2>2 DEF RecvData, HandleExact, Gone, ThreadHasSocket, SessionReset, SocketConnected
<1>2. CASE RecvNothing
  <2>1. rx' \in Seq(Items) /\ Len(rx') <= MaxRx
    BY <1>2, TailBounded DEF RecvNothing, TypeOK
  <2>2. TypeOK'
    BY <1>2, <2>1 DEF RecvNothing, TypeOK
  <2> QED
    BY <1>2, <2>2 DEF RecvNothing, HandleExact, Gone, ThreadHasSocket, SessionReset, SocketConnected
<1>3. CASE RecvFails
  BY <1>3 DEF RecvFails, TypeOK, HandleExact, Gone, ThreadHasSocket, SessionReset, SocketConnected
<1>4. CASE CloseOnReset
  <2>1. TypeOK'
    BY <1>4, TransportAssumption DEF CloseOnReset, TypeOK
  <2> QED
    BY <1>4, <2>1 DEF CloseOnReset, HandleExact, Gone, ThreadHasSocket, SessionReset, SocketConnected
<1>5. CASE SendRecord
  <2>1. TypeOK'
    BY <1>5, TransportAssumption DEF SendRecord, TypeOK
  <2> QED
    BY <1>5, <2>1 DEF SendRecord, HandleExact, Gone, ThreadHasSocket, SessionReset, SocketConnected
<1>6. CASE SockSend
  <2>1. sent' \in Seq(1 .. RecordLength)
    BY <1>6, SentType DEF SockSend, TypeOK
  <2>2. TypeOK'
    BY <1>6, <2>1 DEF SockSend, TypeOK
  <2> QED
    BY <1>6, <2>2 DEF SockSend, HandleExact, Gone, ThreadHasSocket, SessionReset, SocketConnected
<1>7. CASE SendFails
  <2>1. TypeOK'
    BY <1>7, TransportAssumption DEF SendFails, TypeOK
  <2> QED
    BY <1>7, <2>1 DEF SendFails, HandleExact, Gone, ThreadHasSocket, SessionReset, SocketConnected
<1>8. CASE SendDone
  <2>1. TypeOK'
    BY <1>8, TransportAssumption DEF SendDone, TypeOK
  <2> QED
    BY <1>8, <2>1 DEF SendDone, HandleExact, Gone, ThreadHasSocket, SessionReset, SocketConnected
<1>9. CASE LoopEnds
  BY <1>9 DEF LoopEnds, TypeOK, HandleExact, Gone, ThreadHasSocket, SessionReset, SocketConnected
<1>10. CASE RecvEof
  BY <1>10 DEF RecvEof, TypeOK, HandleExact, Gone, ThreadHasSocket, SessionReset, SocketConnected
<1>11. CASE CloseOnNotify
  <2>1. rx' \in Seq(Items) /\ Len(rx') <= MaxRx
    BY <1>11, TailBounded DEF CloseOnNotify, TypeOK
  <2>2. TypeOK'
    BY <1>11, <2>1 DEF CloseOnNotify, TypeOK
  <2> QED
    BY <1>11, <2>2 DEF CloseOnNotify, HandleExact, Gone, ThreadHasSocket, SessionReset,
       SocketConnected
<1> QED
  BY <1>1, <1>2, <1>3, <1>4, <1>5, <1>6, <1>7, <1>8, <1>9, <1>10, <1>11

LEMMA StopIInv ==
  ASSUME IInv, CloseNotify \/ StopPoll \/ CloseAfterReset \/ Disconnect
  PROVE  IInv'
<1> USE DEF IInv, tlsVars, netVars, threadVars, HandleExact, Gone, ThreadHasSocket, SessionReset,
            SocketConnected
<1>1. CASE CloseNotify
  BY <1>1 DEF CloseNotify, TypeOK
<1>2. CASE StopPoll
  BY <1>2 DEF StopPoll, TypeOK
<1>3. CASE CloseAfterReset
  BY <1>3 DEF CloseAfterReset, TypeOK
<1>4. CASE Disconnect
  BY <1>4 DEF Disconnect, TypeOK
<1> QED
  BY <1>1, <1>2, <1>3, <1>4

LEMMA ThreadIInv ==
  ASSUME IInv, ThreadStep
  PROVE  IInv'
<1> USE DEF IInv, tlsVars, netVars
<1>1. CASE ThreadStart
  <2>1. TypeOK'
    BY <1>1 DEF ThreadStart, TypeOK
  <2> QED
    BY <1>1, <2>1 DEF ThreadStart, TypeOK, HandleExact, Gone, ThreadHasSocket, SessionReset,
       SocketConnected
<1>2. CASE ThreadSelect
  <2>1. TypeOK'
    BY <1>2 DEF ThreadSelect, TypeOK
  <2> QED
    BY <1>2, <2>1 DEF ThreadSelect, TypeOK, HandleExact, Gone, ThreadHasSocket, SessionReset,
       SocketConnected
<1>3. CASE ThreadWait
  <2>1. TypeOK'
    BY <1>3 DEF ThreadWait, TypeOK
  <2> QED
    BY <1>3, <2>1 DEF ThreadWait, TypeOK, HandleExact, Gone, ThreadHasSocket, SessionReset,
       SocketConnected
<1>4. CASE ThreadExit
  <2>1. TypeOK'
    BY <1>4 DEF ThreadExit, TypeOK
  <2> QED
    BY <1>4, <2>1 DEF ThreadExit, TypeOK, HandleExact, Gone, ThreadHasSocket, SessionReset,
       SocketConnected
<1>5. CASE ThreadDelete
  <2>1. TypeOK'
    BY <1>5 DEF ThreadDelete, TypeOK, NoThread
  <2> QED
    BY <1>5, <2>1 DEF ThreadDelete, NoThread, HandleExact, Gone, ThreadHasSocket, SessionReset,
       SocketConnected
<1> QED
  BY <1>1, <1>2, <1>3, <1>4, <1>5 DEF ThreadStep

LEMMA NetworkIInv ==
  ASSUME IInv, Arrive \/ PeerEnds
  PROVE  IInv'
<1> USE DEF IInv, tlsVars, threadVars
<1>1. CASE Arrive
  <2>1. rx' \in Seq(Items) /\ Len(rx') <= MaxRx
    BY <1>1, TransportAssumption DEF Arrive, TypeOK
  <2>2. TypeOK'
    BY <1>1, <2>1 DEF Arrive, TypeOK
  <2> QED
    BY <1>1, <2>2 DEF Arrive, HandleExact, Gone, ThreadHasSocket, SessionReset, SocketConnected
<1>2. CASE PeerEnds
  BY <1>2 DEF PeerEnds, TypeOK, HandleExact, Gone, ThreadHasSocket, SessionReset, SocketConnected
<1> QED
  BY <1>1, <1>2

LEMMA NextIInv == IInv /\ [Next]_vars => IInv'
<1> SUFFICES ASSUME IInv, [Next]_vars PROVE IInv'
  OBVIOUS
<1>1. CASE UNCHANGED vars
  BY <1>1 DEF vars, IInv, TypeOK, HandleExact, Gone, ThreadHasSocket, SessionReset, SocketConnected
<1>2. CASE Ended
  BY <1>1, <1>2 DEF Ended
<1>3. CASE AgentStep \/ StopStep \/ ThreadStep \/ Arrive \/ PeerEnds
  BY <1>3, ConnectIInv, LoopIInv, StopIInv, ThreadIInv, NetworkIInv DEF AgentStep, StopStep
<1> QED
  BY <1>1, <1>2, <1>3 DEF Next

THEOREM IInvHolds == Spec => []IInv
<1>1. Init => IInv
  BY InitIInv
<1>2. IInv /\ [Next]_vars => IInv'
  BY NextIInv
<1> QED
  BY <1>1, <1>2, PTL DEF Spec

-----------------------------------------------------------------------------
(* The properties that the run checks.                                     *)

(* Every field of the TLS context, of the notify thread and of the socket  *)
(* keeps its type, the receive buffer its bound.                           *)
THEOREM TransportTypes == Spec => []TypeOK
<1>1. IInv => TypeOK
  BY DEF IInv
<1> QED
  BY <1>1, IInvHolds, PTL

(* mbedtls_transport_disconnect, _recv and _send: the thread never selects *)
(* on a closed socket or on that of another connection, and no socket but  *)
(* that of the context is open.                                            *)
THEOREM SocketsAreOwned == Spec => []SocketsOwned
<1>1. IInv => SocketsOwned
  BY DEF IInv, Gone, ThreadHasSocket, SocketConnected, SocketsOwned
<1> QED
  BY <1>1, IInvHolds, PTL

(* mbedtls_transport_connect: no handshake begins with a used session, or  *)
(* with a thread of an earlier connection that has more to do than to      *)
(* delete itself.                                                          *)
THEOREM ConnectionsAreFresh == Spec => []ConnectsFresh
<1>1. IInv => ConnectsFresh
  BY DEF IInv, HandleExact, Gone, ThreadHasSocket, SessionReset, ConnectsFresh
<1> QED
  BY <1>1, IInvHolds, PTL

=============================================================================
