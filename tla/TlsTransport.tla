---------------------------- MODULE TlsTransport ----------------------------
(***************************************************************************)
(* mbedtls_transport.c as the MQTT agent uses it: the TLS context is       *)
(* configured once, then connected, used and disconnected for ever.  While *)
(* it is connected a thread of idle priority (vSocketNotifyThread) selects *)
(* on the socket and tells the agent that there is something to read; the  *)
(* agent answers each read with a notification.  Before the socket is      *)
(* closed the thread must be stopped, for which the agent notifies it once *)
(* a tick until it has cleared its handle.                                 *)
(*                                                                         *)
(* What arrives at the socket is a sequence of items: data (an application *)
(* record), part (bytes that complete none), bad (a record that mbedtls    *)
(* refuses) and close (a TLS close notify, after which the connection of   *)
(* TCP may stay up for a while).  A record to send is the sequence of bytes 1 .. RecordLength. *)
(***************************************************************************)
EXTENDS Integers, Sequences, FiniteSets

CONSTANTS NumSockets,   \* descriptors; lwIP uses a closed one again
          MaxRx,        \* bound: items in the receive buffer of a socket
          RecordLength, \* bytes of an outgoing record
          NumRootCA     \* uxNumRootCA

ASSUME TransportAssumption ==
  /\ NumSockets \in Nat \ {0} /\ MaxRx \in Nat \ {0}
  /\ RecordLength \in Nat \ {0} /\ NumRootCA \in Nat \ {0}

Sockets == 0 .. NumSockets - 1
NoSocket == -1

VARIABLES
  state,    \* xConnectionState
  sock,     \* xSockHandle
  open,     \* the sockets that lwIP has open
  session,  \* xSslCtx: "fresh" after a reset, "used" once a handshake began
  rootCAs,  \* certificates in xRootCaChain
  agent,    \* where the agent's task is
  rx,       \* what has arrived at the socket and was not read yet
  peer,     \* "up", "fin" (end of file) or "reset"
  sent,     \* bytes of the record being sent that the socket took, in order
  thread,   \* vSocketNotifyThread: where it is, and its socket
  handle,   \* pxNotifyThreadCtx->xTaskHandle is not NULL
  notified  \* the notification of the thread: "none", "zero" or "exit"

vars == <<state, sock, open, session, rootCAs, agent, rx, peer, sent, thread, handle, notified>>
tlsVars == <<state, sock, open, session, rootCAs>>
netVars == <<rx, peer>>
threadVars == <<thread, handle, notified>>

Items == {"data", "part", "bad", "close"}
NoThread == [at |-> "none", sock |-> NoSocket]

TypeOK ==
  /\ state \in {"ALLOCATED", "CONFIGURED", "CONNECTED"}
  /\ sock \in Sockets \cup {NoSocket}
  /\ open \subseteq Sockets
  /\ session \in {"fresh", "used"}
  /\ rootCAs \in 0 .. NumRootCA
  /\ agent \in {"setup", "connect", "handshake", "loop", "send", "reset", "disconnect", "stop",
                "end"}
  /\ rx \in Seq(Items) /\ Len(rx) <= MaxRx
  /\ peer \in {"up", "fin", "reset"}
  /\ sent \in Seq(1 .. RecordLength)
  /\ thread \in [at : {"none", "start", "select", "wait", "last", "exit", "deleting"},
                sock : Sockets \cup {NoSocket}]
  /\ handle \in BOOLEAN
  /\ notified \in {"none", "zero", "exit"}

Init ==
  /\ state = "ALLOCATED" /\ sock = NoSocket /\ open = {} /\ session = "fresh"
  /\ rootCAs = 0
  /\ agent = "setup"
  /\ rx = <<>> /\ peer = "up" /\ sent = <<>>
  /\ thread = NoThread /\ handle = FALSE /\ notified = "none"

-----------------------------------------------------------------------------
(* mbedtls_transport_configure, once at the start of the agent.            *)

\* What can become of a root certificate: it is loaded, it cannot be read, the
\* profile does not allow it, or there is no memory for it.  Memory is needed
\* only after the first that is loaded.
CaResults ==
  {r \in [1 .. NumRootCA -> {"ok", "unread", "profile", "nomem"}] :
     \A i \in 1 .. NumRootCA : r[i] = "nomem" => \E j \in 1 .. i - 1 : r[j] = "ok"}

\* xConfigureCAChain stops at the first certificate without memory.
Tried(results) ==
  {i \in 1 .. NumRootCA : \A j \in 1 .. i - 1 : results[j] # "nomem"}

ValidCount(results) == Cardinality({i \in Tried(results) : results[i] = "ok"})

\* The last certificate that was tried.
LastTried(results) == CHOOSE i \in Tried(results) : \A j \in Tried(results) : j <= i

\* The status is that of the last certificate that was tried, for which the
\* flags of the profile, being positive, are a success; it is a failure when
\* there is none.
CaChainOk(results) ==
  /\ ValidCount(results) > 0
  /\ results[LastTried(results)] \in {"ok", "profile"}

\* Any other step of the configuration may fail: then the agent ends.
Configure ==
  /\ agent = "setup"
  /\ \/ agent' = "end" /\ UNCHANGED <<state, rootCAs>>
     \/ \E results \in CaResults :
          /\ rootCAs' = ValidCount(results)
          /\ \/ CaChainOk(results) /\ state' = "CONFIGURED" /\ agent' = "connect"
             \/ agent' = "end" /\ state' = state
  /\ UNCHANGED <<sock, open, session, sent, netVars, threadVars>>

-----------------------------------------------------------------------------
(* mbedtls_transport_connect.                                              *)

\* xConnectSocket.  A socket that is left is closed; the lookup, the socket or
\* every address may fail.
ConnectSocket ==
  /\ agent = "connect"
  /\ \E s \in Sockets \ (open \ {sock}) :
       /\ sock' = s /\ open' = (open \ {sock}) \cup {s}
       /\ rx' = <<>> /\ peer' = "up"
       /\ agent' = "handshake"
  /\ UNCHANGED <<state, session, rootCAs, sent, threadVars>>

ConnectSocketFails ==
  /\ agent = "connect"
  /\ sock' = NoSocket /\ open' = open \ {sock}
  /\ session' = "fresh"
  /\ UNCHANGED <<state, rootCAs, agent, sent, netVars, threadVars>>

\* An option that cannot be set, or the handshake, fails.
HandshakeFails ==
  /\ agent = "handshake"
  /\ sock' = NoSocket /\ open' = open \ {sock}
  /\ session' = "fresh"
  /\ agent' = "connect"
  /\ UNCHANGED <<state, rootCAs, sent, netVars, threadVars>>

\* vCreateSocketNotifyTask waits for the handle to be cleared.  The stack and the
\* control block are the same for every thread, also if the last one is not yet
\* deleted and on a list of the kernel (external); it does not run again.
HandshakeSucceeds ==
  /\ agent = "handshake"
  /\ ~handle
  /\ session' = "used"
  /\ thread' = [at |-> "start", sock |-> sock] /\ handle' = TRUE /\ notified' = "none"
  /\ state' = "CONNECTED"
  /\ agent' = "loop"
  /\ UNCHANGED <<sock, open, rootCAs, sent, netVars>>

-----------------------------------------------------------------------------
(* mbedtls_transport_recv and mbedtls_transport_send, called by the loop   *)
(* of the agent, which ends when one of them returns an error.             *)

\* A record: the thread is told to look again.
RecvData ==
  /\ agent = "loop"
  /\ rx # <<>> /\ Head(rx) = "data"
  /\ rx' = Tail(rx)
  /\ notified' = IF handle THEN "zero" ELSE notified
  /\ UNCHANGED <<tlsVars, agent, peer, sent, thread, handle>>

\* MBEDTLS_ERR_SSL_WANT_READ: it is not.
RecvNothing ==
  /\ agent = "loop"
  /\ rx # <<>> /\ Head(rx) = "part"
  /\ rx' = Tail(rx)
  /\ UNCHANGED <<tlsVars, agent, peer, sent, threadVars>>

\* mbedtls_ssl_read (external) returns 0 at the end of the file, which is taken
\* for a read: the loop goes on until it misses a PINGRESP (LoopEnds).
RecvEof ==
  /\ agent = "loop"
  /\ rx = <<>> /\ peer = "fin"
  /\ notified' = IF handle THEN "zero" ELSE notified
  /\ UNCHANGED <<tlsVars, agent, netVars, sent, thread, handle>>

\* Errors other than the two below leave the socket to the disconnect.
RecvFails ==
  /\ agent = "loop"
  /\ rx # <<>> /\ Head(rx) = "bad"
  /\ agent' = "disconnect"
  /\ UNCHANGED <<tlsVars, netVars, sent, threadVars>>

\* MBEDTLS_ERR_NET_CONN_RESET: the socket is closed, once the thread is stopped.
\* mbedtls_transport_send has the same lines.
CloseOnReset ==
  /\ agent = "loop" \/ agent = "send"
  /\ peer = "reset" /\ (agent = "loop" => rx = <<>>)
  /\ state' = "CONFIGURED"
  /\ agent' = "reset"
  /\ sent' = <<>>
  /\ UNCHANGED <<sock, open, session, rootCAs, netVars, threadVars>>

\* MBEDTLS_ERR_SSL_PEER_CLOSE_NOTIFY: so it is, whatever becomes of TCP.
CloseOnNotify ==
  /\ agent = "loop"
  /\ rx # <<>> /\ Head(rx) = "close"
  /\ rx' = Tail(rx)
  /\ state' = "CONFIGURED"
  /\ agent' = "reset"
  /\ UNCHANGED <<sock, open, session, rootCAs, peer, sent, threadVars>>

\* mbedtls_ssl_write has a record for mbedtls_ssl_send.
SendRecord ==
  /\ agent = "loop"
  /\ sent' = <<>>
  /\ agent' = "send"
  /\ UNCHANGED <<tlsVars, netVars, threadVars>>

\* Mutant: the buffer is advanced but the length is not.
SockSendPastEnd ==
  /\ agent = "send"
  /\ peer # "reset"
  /\ Len(sent) < RecordLength
  /\ \E n \in 1 .. RecordLength : sent' = sent \o [i \in 1 .. n |-> Len(sent) + i]
  /\ UNCHANGED <<tlsVars, agent, netVars, threadVars>>

\* sock_send takes the first n bytes of the record, whatever was sent before.
\* When it would block, the agent delays and tries again.
SockSend ==
  /\ agent = "send"
  /\ peer # "reset"
  /\ Len(sent) < RecordLength
  /\ \E n \in 1 .. RecordLength : sent' = sent \o [i \in 1 .. n |-> i]
  /\ UNCHANGED <<tlsVars, agent, netVars, threadVars>>

\* mbedtls (external) takes more bytes than there were for an error.
SendDone ==
  /\ agent = "send"
  /\ Len(sent) >= RecordLength
  /\ agent' = IF Len(sent) > RecordLength THEN "disconnect" ELSE "loop"
  /\ sent' = <<>>
  /\ UNCHANGED <<tlsVars, netVars, threadVars>>

\* MBEDTLS_ERR_NET_SEND_FAILED
SendFails ==
  /\ agent = "send"
  /\ agent' = "disconnect"
  /\ sent' = <<>>
  /\ UNCHANGED <<tlsVars, netVars, threadVars>>

\* The agent ends its loop for a reason of its own, a missing PINGRESP or one
\* of the failures of MQTT_Connect.
LoopEnds ==
  /\ agent = "loop"
  /\ agent' = "disconnect"
  /\ UNCHANGED <<tlsVars, netVars, sent, threadVars>>

-----------------------------------------------------------------------------
(* mbedtls_transport_disconnect, which the agent calls after every loop.   *)

CloseNotify ==
  /\ agent = "disconnect"
  /\ state' = "CONFIGURED"
  /\ agent' = "stop"
  /\ UNCHANGED <<sock, open, session, rootCAs, sent, netVars, threadVars>>

\* vStopSocketNotifyTask: one round of its loop.
StopPoll ==
  /\ agent \in {"reset", "stop"}
  /\ handle
  /\ notified' = "exit"
  /\ UNCHANGED <<tlsVars, agent, netVars, sent, thread, handle>>

\* Mutant: the socket is closed without waiting for the thread.
CloseAfterResetNoStop ==
  /\ agent = "reset"
  /\ sock' = NoSocket /\ open' = open \ {sock}
  /\ agent' = "disconnect"
  /\ UNCHANGED <<state, session, rootCAs, sent, netVars, threadVars>>

\* The thread is gone: the rest of mbedtls_transport_recv or _send.
CloseAfterReset ==
  /\ agent = "reset"
  /\ ~handle
  /\ sock' = NoSocket /\ open' = open \ {sock}
  /\ agent' = "disconnect"
  /\ UNCHANGED <<state, session, rootCAs, sent, netVars, threadVars>>

\* Mutant: the session is reset only when there is a socket to close.
DisconnectResetsOpen ==
  /\ agent = "stop"
  /\ ~handle
  /\ sock' = NoSocket /\ open' = open \ {sock}
  /\ session' = IF sock # NoSocket THEN "fresh" ELSE session
  /\ agent' = "connect"
  /\ UNCHANGED <<state, rootCAs, sent, netVars, threadVars>>

\* The thread is gone: the rest of mbedtls_transport_disconnect.
Disconnect ==
  /\ agent = "stop"
  /\ ~handle
  /\ sock' = NoSocket /\ open' = open \ {sock}
  /\ session' = IF state = "CONFIGURED" THEN "fresh" ELSE session
  /\ agent' = "connect"
  /\ UNCHANGED <<state, rootCAs, sent, netVars, threadVars>>

-----------------------------------------------------------------------------
(* vSocketNotifyThread.                                                    *)

\* A notification that is there already is forgotten.
ThreadStart ==
  /\ thread.at = "start"
  /\ notified' = "none"
  /\ thread' = [thread EXCEPT !.at = "select"]
  /\ UNCHANGED <<tlsVars, agent, netVars, sent, handle>>

\* sock_select returns when there is something to read or the connection is
\* over; a reset is in the error set.  In either case the thread then waits
\* for a notification, after an error for the last time.
ThreadSelect ==
  /\ thread.at = "select"
  /\ rx # <<>> \/ peer # "up"
  /\ thread' = [thread EXCEPT !.at = IF peer = "reset" THEN "last" ELSE "wait"]
  /\ UNCHANGED <<tlsVars, agent, netVars, sent, handle, notified>>

\* Mutant: every notification is taken for a read.
ThreadWaitIgnoresExit ==
  /\ thread.at \in {"wait", "last"}
  /\ notified # "none"
  /\ thread' = [thread EXCEPT !.at = IF thread.at = "last" THEN "exit" ELSE "select"]
  /\ notified' = "none"
  /\ UNCHANGED <<tlsVars, agent, netVars, sent, handle>>

ThreadWait ==
  /\ thread.at \in {"wait", "last"}
  /\ notified # "none"
  /\ thread' = [thread EXCEPT
       !.at = IF thread.at = "last" \/ notified = "exit" THEN "exit" ELSE "select"]
  /\ notified' = "none"
  /\ UNCHANGED <<tlsVars, agent, netVars, sent, handle>>

\* The handle is cleared; an agent that polls it may run from here on.
ThreadExit ==
  /\ thread.at = "exit"
  /\ thread' = [thread EXCEPT !.at = "deleting"] /\ handle' = FALSE
  /\ UNCHANGED <<tlsVars, agent, netVars, sent, notified>>

\* vTaskDelete( NULL )
ThreadDelete ==
  /\ thread.at = "deleting"
  /\ thread' = NoThread
  /\ UNCHANGED <<tlsVars, agent, netVars, sent, handle, notified>>

-----------------------------------------------------------------------------
(* The network (external).                                                 *)

Arrive ==
  /\ sock \in open /\ peer = "up" /\ Len(rx) < MaxRx
  /\ \E item \in Items : rx' = Append(rx, item)
  /\ UNCHANGED <<tlsVars, agent, peer, sent, threadVars>>

\* The peer closes or resets, or lwIP gives up sending.
PeerEnds ==
  /\ sock \in open /\ peer = "up"
  /\ peer' \in {"fin", "reset"}
  /\ UNCHANGED <<tlsVars, agent, rx, sent, threadVars>>

\* After a close notify: the peer, which answers the agent's by closing, or has
\* sent its own and closes then, ends the connection, and lwIP gives it up when
\* what was sent is not acknowledged.
EndsAfterCloseNotify == agent \in {"reset", "stop"} /\ PeerEnds

\* The agent's task has deleted itself.
Ended == agent = "end" /\ UNCHANGED vars

-----------------------------------------------------------------------------

AgentStep ==
  \/ Configure
  \/ ConnectSocket \/ ConnectSocketFails \/ HandshakeFails \/ HandshakeSucceeds
  \/ RecvData \/ RecvNothing \/ RecvEof \/ RecvFails \/ CloseOnReset \/ CloseOnNotify
  \/ SendRecord \/ SockSend \/ SendFails \/ SendDone \/ LoopEnds
  \/ CloseNotify

StopStep == StopPoll \/ CloseAfterReset \/ Disconnect

ThreadStep == ThreadStart \/ ThreadSelect \/ ThreadWait \/ ThreadExit \/ ThreadDelete

Next == AgentStep \/ StopStep \/ ThreadStep \/ Arrive \/ PeerEnds \/ Ended

Spec == Init /\ [][Next]_vars

\* The agent delays for a tick in each round of vStopSocketNotifyTask, so that
\* the thread, although of idle priority, gets to run.
FairSpec ==
  /\ Spec
  /\ WF_vars(StopStep)
  /\ WF_vars(ThreadStep)
  /\ WF_vars(EndsAfterCloseNotify)

-----------------------------------------------------------------------------
(* Properties.                                                             *)

\* mbedtls_transport_disconnect, _recv, _send and the failure paths of a connect:
\* the thread never selects on a socket that is closed, or that is by now the
\* socket of another connection; and only the socket of the context is open.
SocketsOwned ==
  /\ thread.at \in {"start", "select"} => thread.sock = sock /\ sock \in open
  /\ open \subseteq {sock}

\* mbedtls_transport_connect: a handshake is never begun with what is left of
\* an earlier session, whichever of recv, send, disconnect and a failed connect
\* has ended it, nor with the thread of an earlier connection still to use its
\* socket or its notification: at most its deletion is outstanding.
ConnectsFresh ==
  agent \in {"connect", "handshake"} =>
    session = "fresh" /\ ~handle /\ thread.at \in {"none", "deleting"}

\* vStopSocketNotifyTask: whatever the thread is doing, the agent gets past it.
StopReturns == agent \in {"reset", "stop"} ~> agent \notin {"reset", "stop"}

\* vCreateSocketNotifyTask stops the old thread first, so that its stack and its
\* control block are free when the new one gets them.  Refuted by the agent that
\* sees the cleared handle before the thread, of idle priority, has deleted itself.
OldThreadGone == agent = "handshake" => thread = NoThread

\* The comment on mbedtls_transport_send: what is sent is the data, so that the
\* socket takes the bytes of a record in their order, each of them once.
SentInOrder == sent = [i \in 1 .. Len(sent) |-> i]

=============================================================================
