--------------------------- MODULE RequestService ---------------------------
(***************************************************************************)
(* What the MQTT agent promises to a task that makes a synchronous request *)
(* (MqttAgent_SubscribeSync, MqttAgent_UnSubscribeSync): a request that is *)
(* posted gets a ticket that no other open request has, is answered at     *)
(* most once, by that ticket, and its call returns only with the answer.   *)
(* Nothing is said of pools, queues, notifications or connections, nor     *)
(* that an answer ever comes: a request may be posted while the broker     *)
(* cannot be reached.                                                      *)
(***************************************************************************)

CONSTANTS Clients,  \* the tasks that make synchronous requests
          Tickets,  \* what tells the open requests apart
          NoTicket

VARIABLES
  ticket,  \* ticket[t]: of the request t waits for, or NoTicket
  reply    \* reply[t]: the ticket t is answered with, or NoTicket

requestVars == <<ticket, reply>>

\* t waits and has not been answered yet.
OpenRequest(t) == ticket[t] # NoTicket /\ reply[t] = NoTicket

RequestInit ==
  /\ ticket = [t \in Clients |-> NoTicket]
  /\ reply = [t \in Clients |-> NoTicket]

\* A ticket may be given again as soon as it is answered, even before the
\* client that had it has returned.
Post(t, c) ==
  /\ ticket[t] = NoTicket
  /\ \A u \in Clients : OpenRequest(u) => ticket[u] # c
  /\ ticket' = [ticket EXCEPT ![t] = c]
  /\ UNCHANGED reply

Answer(t) ==
  /\ OpenRequest(t)
  /\ reply' = [reply EXCEPT ![t] = ticket[t]]
  /\ UNCHANGED ticket

Collect(t) ==
  /\ reply[t] # NoTicket
  /\ ticket' = [ticket EXCEPT ![t] = NoTicket]
  /\ reply' = [reply EXCEPT ![t] = NoTicket]

RequestNext ==
  \E t \in Clients :
    (\E c \in Tickets : Post(t, c)) \/ Answer(t) \/ Collect(t)

RequestSpec == RequestInit /\ [][RequestNext]_requestVars

=============================================================================
