------------------------------- MODULE Relay --------------------------------
(* The relay server: core::network::Server (HadesMP/Core/Network/server.h) on  *)
(* enetpp::server (3rdparty/enetpp/include/server.h) on an ENet host.          *)
(*                                                                             *)
(* Two threads.  enetpp's worker owns the ENet host: each turn it sends the    *)
(* queued packets, services the host and turns what ENet dispatches into       *)
(* events.  The server thread runs Server::Invoke: it flushes its own queue    *)
(* into enetpp's packet queue, takes a copy of the events and handles them one *)
(* by one; a received packet is queued again for every other client.  Client   *)
(* objects are allocated by the worker, referred to by events, and deleted by  *)
(* the server thread.                                                          *)
EXTENDS Naturals, Sequences, FiniteSets, Functions

CONSTANTS Peers,        \* the peer slots of the ENet host
          NoPeer,
          MaxClients,   \* bound: connections accepted, hence uids given out
          MaxPackets,   \* bound: packets received
          Malformed     \* those whose content does not unpack

ASSUME PeersAssumption == IsFiniteSet(Peers) /\ NoPeer \notin Peers
ASSUME BoundsAssumption == MaxClients \in Nat /\ MaxPackets \in Nat
ASSUME MalformedAssumption == Malformed \subseteq 1..MaxPackets

Uids  == 1..MaxClients
NoUid == 0                      \* a null ClientT*; client objects go by their uid
Packets == [from : Uids, id : 1..MaxPackets]    \* `from' is a tag of the model

VARIABLES
    peerState,   \* ENet peer: "disconnected", "pending", "connected", "zombie"
    incoming,    \* ENet peer: dispatchedCommands, packets not yet dispatched
    dispatch,    \* ENet host: dispatchQueue, peers with something to report
    peerData,    \* peer->data, the client object of the peer
    peerMap,     \* _thread_peer_map
    next_uid,
    wpc,         \* worker: "send", "service", "dispatch"
    events,      \* _event_queue_copy followed by _event_queue, ...
    copied,      \* ... and the length of the former
    alive,       \* client objects allocated and not deleted
    connected,   \* _connected_clients
    queue,       \* Server::queue: per uid, the packets queued for it
    packetQueue, \* enetpp::server::_packet_queue, in the same form
    spc,         \* server thread: "flush", "consume", "handle"
    is_host,
    received,    \* how many packets have arrived
    wire,        \* per uid, the packets given to enet_peer_send for it
    dropped,     \* history: <<uid, packet>> that the worker threw away
    missed       \* history: per uid, packets dispatched before it connected

hostVars    == <<peerState, incoming, dispatch, received>>
clientVars  == <<peerData, peerMap, next_uid>>
eventVars   == <<events, copied>>
historyVars == <<wire, dropped, missed>>
vars == <<hostVars, clientVars, wpc, eventVars, alive, connected, queue,
          packetQueue, spc, is_host, historyVars>>

(* A queue of packets by client. *)
Emptied == [u \in Uids |-> <<>>]

Init == /\ peerState = [p \in Peers |-> "disconnected"]
        /\ incoming = [p \in Peers |-> <<>>] /\ dispatch = <<>>
        /\ peerData = [p \in Peers |-> NoUid]
        /\ peerMap = [u \in Uids |-> NoPeer]
        /\ next_uid = 1 /\ wpc = "send"
        /\ events = <<>> /\ copied = 0
        /\ alive = {} /\ connected = {}
        /\ queue = Emptied /\ packetQueue = Emptied
        /\ spc = "flush" /\ is_host = FALSE /\ received = 0
        /\ wire = [u \in Uids |-> <<>>] /\ dropped = {}
        /\ missed = [u \in Uids |-> {}]

Event(type, u, pkt) == [type |-> type, client |-> u, packet |-> pkt]
NoPacket == [from |-> NoUid, id |-> 0]

(* enet_protocol_dispatch_state and the needsDispatch flag: a peer is in the   *)
(* dispatch queue at most once.                                                *)
WithDispatch(p) == IF p \in Range(dispatch) THEN dispatch ELSE Append(dispatch, p)

(* The event at the head of _event_queue_copy, and its pop(). *)
NextEvent(type) == spc = "handle" /\ copied > 0 /\ Head(events).type = type

EventHandled == events' = Tail(events) /\ copied' = copied - 1

-----------------------------------------------------------------------------
(* Mistakes this code could have: wrong versions of the definitions whose      *)
(* names they start with, kept to show that the properties notice them.        *)
(* Nothing below uses them.                                                    *)

InitializeClientLate(p) ==
    /\ next_uid' = next_uid + 1
    /\ peerMap' = [peerMap EXCEPT ![next_uid] = p]
    /\ UNCHANGED peerData

ForgetClientKeepData(p) ==
    /\ peerMap' = [peerMap EXCEPT ![peerData[p]] = NoPeer]
    /\ events' = Append(events, Event("DISCONNECT", peerData[p], NoPacket))
    /\ UNCHANGED peerData

SendableWrongState(u) == peerMap[u] # NoPeer /\ peerState[peerMap[u]] = "pending"

FlushNextKept(u) ==
    /\ spc = "flush" /\ connected # {} /\ queue[u] # <<>>
    /\ packetQueue' = [packetQueue EXCEPT ![u] = Append(@, Head(queue[u]))]
    /\ UNCHANGED <<hostVars, clientVars, wpc, eventVars, alive, connected, queue,
                   spc, is_host, historyVars>>

FlushesForSeveral == Cardinality(connected) > 1

HandleDisconnectNotErased ==
    /\ NextEvent("DISCONNECT")
    /\ alive' = alive \ {Head(events).client}
    /\ EventHandled
    /\ UNCHANGED <<hostVars, clientVars, wpc, connected, queue, packetQueue, spc,
                   is_host, historyVars>>

RecipientsEcho(e) == connected

-----------------------------------------------------------------------------
(* What enet_host_service can find while the worker calls it.                  *)

(* A client's connection completes; the CONNECT event waits to be dispatched.  *)
NetConnect(p) ==
    /\ wpc = "service" /\ peerState[p] = "disconnected"
    /\ next_uid + Cardinality({q \in Peers : peerState[q] = "pending"}) <= MaxClients
    /\ peerState' = [peerState EXCEPT ![p] = "pending"]
    /\ dispatch' = WithDispatch(p)
    /\ UNCHANGED <<incoming, received, clientVars, wpc, eventVars, alive,
                   connected, queue, packetQueue, spc, is_host, historyVars>>

(* A reliable packet arrives; ENet accepts it only on a connected peer. *)
NetReceive(p) ==
    /\ wpc = "service" /\ peerState[p] = "connected" /\ received < MaxPackets
    /\ received' = received + 1
    /\ incoming' = [incoming EXCEPT ![p] =
                        Append(@, [from |-> peerData[p], id |-> received + 1])]
    /\ dispatch' = WithDispatch(p)
    /\ UNCHANGED <<peerState, clientVars, wpc, eventVars, alive, connected,
                   queue, packetQueue, spc, is_host, historyVars>>

(* The client's process is gone (its reliable packets time out), or it said    *)
(* goodbye: the peer turns zombie, whatever it still had to deliver.           *)
NetDisconnect(p) ==
    /\ wpc = "service" /\ peerState[p] = "connected"
    /\ peerState' = [peerState EXCEPT ![p] = "zombie"]
    /\ dispatch' = WithDispatch(p)
    /\ UNCHANGED <<incoming, received, clientVars, wpc, eventVars, alive,
                   connected, queue, packetQueue, spc, is_host, historyVars>>

EndService == /\ wpc = "service"
              /\ wpc' = "dispatch"
              /\ UNCHANGED <<hostVars, clientVars, eventVars, alive, connected,
                             queue, packetQueue, spc, is_host, historyVars>>

-----------------------------------------------------------------------------
(* The worker: one enet_host_check_events and the handler of what it returns.  *)

(* The new client object gets its uid, and the peer and the map refer to it. *)
InitializeClient(p) ==
    /\ next_uid' = next_uid + 1
    /\ peerData' = [peerData EXCEPT ![p] = next_uid]
    /\ peerMap' = [peerMap EXCEPT ![next_uid] = p]

ForgetClient(p) ==
    /\ peerData' = [peerData EXCEPT ![p] = NoUid]
    /\ peerMap' = [peerMap EXCEPT ![peerData[p]] = NoPeer]
    /\ events' = Append(events, Event("DISCONNECT", peerData[p], NoPacket))

DispatchConnect ==
    /\ wpc = "dispatch" /\ dispatch # <<>>
    /\ LET p == Head(dispatch)
           u == next_uid
       IN /\ peerState[p] = "pending"
          /\ peerState' = [peerState EXCEPT ![p] = "connected"]
          /\ InitializeClient(p)
          /\ alive' = alive \union {u}
          /\ events' = Append(events, Event("CONNECT", u, NoPacket))
          /\ missed' = [missed EXCEPT ![u] =
                            {n \in 1..received :
                                \A q \in Peers : \A k \in 1..Len(incoming[q]) :
                                    incoming[q][k].id # n}]
    /\ dispatch' = Tail(dispatch)
    /\ UNCHANGED <<incoming, received, wpc, copied, connected, queue,
                   packetQueue, spc, is_host, wire, dropped>>

(* A packet of a peer without a client object is discarded. *)
DispatchReceive ==
    /\ wpc = "dispatch" /\ dispatch # <<>>
    /\ LET p == Head(dispatch)
           u == peerData[p]
       IN /\ peerState[p] = "connected"
          /\ incoming' = [incoming EXCEPT ![p] = Tail(@)]
          /\ dispatch' = IF Len(incoming[p]) > 1 THEN Append(Tail(dispatch), p)
                                                 ELSE Tail(dispatch)
          /\ events' = IF u # NoUid
                       THEN Append(events, Event("RECEIVE", u, Head(incoming[p])))
                       ELSE events
    /\ UNCHANGED <<peerState, received, clientVars, wpc, copied, alive, connected,
                   queue, packetQueue, spc, is_host, historyVars>>

(* ENet resets the peer, and with it the packets it had not dispatched. *)
DispatchDisconnect ==
    /\ wpc = "dispatch" /\ dispatch # <<>>
    /\ LET p == Head(dispatch)
           u == peerData[p]
       IN /\ peerState[p] = "zombie"
          /\ peerState' = [peerState EXCEPT ![p] = "disconnected"]
          /\ incoming' = [incoming EXCEPT ![p] = <<>>]
          /\ IF u # NoUid THEN ForgetClient(p)
                          ELSE UNCHANGED <<peerData, peerMap, events>>
    /\ dispatch' = Tail(dispatch)
    /\ UNCHANGED <<received, next_uid, wpc, copied, alive, connected, queue,
                   packetQueue, spc, is_host, historyVars>>

EndDispatch == /\ wpc = "dispatch" /\ dispatch = <<>>
               /\ wpc' = "send"
               /\ UNCHANGED <<hostVars, clientVars, eventVars, alive, connected,
                              queue, packetQueue, spc, is_host, historyVars>>

(* send_queued_packets_in_thread: a packet whose client is unknown or no       *)
(* longer connected is popped and nothing else.                                *)
Sendable(u) == peerMap[u] # NoPeer /\ peerState[peerMap[u]] = "connected"

SendQueuedPackets ==
    /\ wpc = "send"
    /\ wpc' = "service"
    /\ packetQueue' = Emptied
    /\ wire' = [u \in Uids |->
                    IF Sendable(u) THEN wire[u] \o packetQueue[u] ELSE wire[u]]
    /\ dropped' = dropped \union {d \in Uids \X Packets :
                                    /\ ~Sendable(d[1])
                                    /\ d[2] \in Range(packetQueue[d[1]])}
    /\ UNCHANGED <<hostVars, clientVars, eventVars, alive, connected, queue,
                   spc, is_host, missed>>

-----------------------------------------------------------------------------
(* The server thread: Server::Invoke.                                          *)

(* The queue is looked at only while some client is connected. *)
Flushes == connected # {}

(* send_packet_to, for the next packet of one client: it takes the lock of     *)
(* _packet_queue each time.  (Only the order for each client matters: the code *)
(* has one queue for all.)                                                     *)
FlushNext(u) ==
    /\ spc = "flush" /\ Flushes /\ queue[u] # <<>>
    /\ packetQueue' = [packetQueue EXCEPT ![u] = Append(@, Head(queue[u]))]
    /\ queue' = [queue EXCEPT ![u] = Tail(@)]
    /\ UNCHANGED <<hostVars, clientVars, wpc, eventVars, alive, connected, spc,
                   is_host, historyVars>>

EndFlush ==
    /\ spc = "flush" /\ (Flushes => queue = Emptied)
    /\ spc' = "consume"
    /\ UNCHANGED <<hostVars, clientVars, wpc, eventVars, alive, connected, queue,
                   packetQueue, is_host, historyVars>>

(* consume_events swaps the queue for an empty one under the mutex. *)
CopyEvents ==
    /\ spc = "consume"
    /\ spc' = "handle"
    /\ copied' = Len(events)
    /\ UNCHANGED <<hostVars, clientVars, wpc, events, alive, connected, queue,
                   packetQueue, is_host, historyVars>>

HandleConnect ==
    /\ NextEvent("CONNECT")
    /\ connected' = connected \union {Head(events).client}
    /\ is_host' = TRUE
    /\ EventHandled
    /\ UNCHANGED <<hostVars, clientVars, wpc, alive, queue, packetQueue, spc,
                   historyVars>>

HandleDisconnect ==
    /\ NextEvent("DISCONNECT")
    /\ connected' = connected \ {Head(events).client}
    /\ alive' = alive \ {Head(events).client}
    /\ EventHandled
    /\ UNCHANGED <<hostVars, clientVars, wpc, queue, packetQueue, spc, is_host,
                   historyVars>>

(* "Relay back to clients": to every connected client but the sender; what    *)
(* does not unpack ends in the catch, with a message box, and goes to nobody.  *)
Recipients(e) == connected \ {e.client}

HandleReceive ==
    /\ NextEvent("RECEIVE")
    /\ LET e == Head(events)
       IN queue' = [u \in Uids |->
                        IF u \in Recipients(e) /\ e.packet.id \notin Malformed
                        THEN Append(queue[u], e.packet) ELSE queue[u]]
    /\ EventHandled
    /\ UNCHANGED <<hostVars, clientVars, wpc, alive, connected, packetQueue, spc,
                   is_host, historyVars>>

ConsumeDone == /\ spc = "handle" /\ copied = 0
               /\ spc' = "flush"
               /\ UNCHANGED <<hostVars, clientVars, wpc, eventVars, alive,
                              connected, queue, packetQueue, is_host, historyVars>>

-----------------------------------------------------------------------------
Network == \E p \in Peers : NetConnect(p) \/ NetReceive(p) \/ NetDisconnect(p)

Worker == \/ EndService \/ EndDispatch \/ SendQueuedPackets
          \/ DispatchConnect \/ DispatchReceive \/ DispatchDisconnect

ServerThread == \/ EndFlush \/ CopyEvents \/ ConsumeDone
                \/ \E u \in Uids : FlushNext(u)
                \/ HandleConnect \/ HandleDisconnect \/ HandleReceive

Next == Network \/ Worker \/ ServerThread

Spec == Init /\ [][Next]_vars

(* Both threads loop for ever (if a message box comes up, someone closes it);  *)
(* the network owes nothing.                                                   *)
FairSpec == Spec /\ WF_vars(Worker) /\ WF_vars(ServerThread)

-----------------------------------------------------------------------------
(* Properties.                                                                 *)

TypeOK ==
    /\ peerState \in [Peers -> {"disconnected", "pending", "connected", "zombie"}]
    /\ incoming \in [Peers -> Seq([from : Uids \union {NoUid}, id : 1..MaxPackets])]
    /\ dispatch \in Seq(Peers)
    /\ peerData \in [Peers -> Uids \union {NoUid}]
    /\ peerMap \in [Uids -> Peers \union {NoPeer}]
    /\ next_uid \in 1..(MaxClients + 1)
    /\ wpc \in {"send", "service", "dispatch"}
    /\ events \in Seq([type : {"CONNECT", "RECEIVE", "DISCONNECT"},
                       client : Uids, packet : Packets \union {NoPacket}])
    /\ copied \in 0..Len(events)
    /\ alive \subseteq Uids /\ connected \subseteq Uids
    /\ queue \in [Uids -> Seq(Packets)]
    /\ packetQueue \in [Uids -> Seq(Packets)]
    /\ spc \in {"flush", "consume", "handle"}
    /\ is_host \in BOOLEAN
    /\ received \in 0..MaxPackets
    /\ wire \in [Uids -> Seq(Packets)]
    /\ dropped \subseteq Uids \X Packets
    /\ missed \in [Uids -> SUBSET (1..MaxPackets)]

(* No use after free: every client object that an event, a peer or             *)
(* _connected_clients still refers to has not been deleted, although it is     *)
(* the server thread that deletes and the worker that refers.                  *)
NoUseAfterFree ==
    /\ \A k \in 1..Len(events) : events[k].client \in alive
    /\ \A p \in Peers : peerData[p] # NoUid => peerData[p] \in alive
    /\ connected \subseteq alive

(* The assertions of enetpp: a connecting peer carries no old client object, a *)
(* disconnecting one is in _thread_peer_map under its uid (so that no two      *)
(* peers share one: server_client::get_uid() "MUST return globally unique      *)
(* value"), and the client of a DISCONNECT being handled is a connected one.   *)
AssertionsHold ==
    /\ \A p \in Peers :
          /\ peerState[p] \in {"disconnected", "pending"} => peerData[p] = NoUid
          /\ peerData[p] # NoUid => peerMap[peerData[p]] = p
    /\ NextEvent("DISCONNECT") => Head(events).client \in connected

(* The worker's note: a peer has its client object before its first packet, so *)
(* that no received packet is discarded for want of one.                       *)
NoPacketDiscarded ==
    \A p \in Peers : incoming[p] # <<>> => peerData[p] # NoUid

(* No client gets its own packet back, nor one dispatched before it connected. *)
OnlyOthersSinceJoining ==
    \A u \in Uids : \A k \in 1..Len(wire[u]) :
        /\ wire[u][k].from # u
        /\ wire[u][k].id \notin missed[u]

(* Packets of one sender reach each recipient in the order they arrived, each  *)
(* at most once.                                                               *)
SenderOrderKept ==
    \A u \in Uids : \A j, k \in 1..Len(wire[u]) :
        j < k /\ wire[u][j].from = wire[u][k].from => wire[u][j].id < wire[u][k].id

(* A packet thrown away by the worker (and never destroyed: enetpp leaks it)   *)
(* was for a client that is gone for good.                                     *)
DroppedOnlyForDeparted ==
    \A d \in dropped : \A p \in Peers : peerData[p] # d[1]

(* A packet received while another client is connected reaches that client,    *)
(* or the client leaves, whatever malformed packets come before it.            *)
Departed(u) == \A p \in Peers : peerData[p] # u

EventuallyRelayed ==
    \A u \in Uids, n \in 1..MaxPackets :
        (/\ u \in connected /\ n \notin Malformed
         /\ \E k \in 1..Len(events) : /\ events[k].type = "RECEIVE"
                                       /\ events[k].client # u
                                       /\ events[k].packet.id = n)
        ~> \/ Departed(u)
           \/ \E k \in 1..Len(wire[u]) : wire[u][k].id = n

=============================================================================
