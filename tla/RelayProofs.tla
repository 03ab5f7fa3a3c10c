---------------------------- MODULE RelayProofs -----------------------------
(* What is proved of the relay server, for any number of peers, clients and    *)
(* packets.  First the life of the client objects, which the worker allocates  *)
(* and the server thread deletes (IInv); then, on top of it, the pipeline that *)
(* a packet takes from its sender's peer to the recipients (Pipeline).         *)
EXTENDS Relay, FiniteSetTheorems, SequenceTheorems, TLAPS

-----------------------------------------------------------------------------
(* The inductive invariant.                                                    *)

Messages == [from : Uids \union {NoUid}, id : 0..MaxPackets]
Events   == [type : {"CONNECT", "RECEIVE", "DISCONNECT"}, client : Uids,
             packet : Messages]
Pending  == {p \in Peers : peerState[p] = "pending"}

(* The part of TypeOK that the rest needs. *)
Types ==
    /\ peerState \in [Peers -> {"disconnected", "pending", "connected", "zombie"}]
    /\ incoming \in [Peers -> Seq(Messages)]
    /\ dispatch \in Seq(Peers)
    /\ peerData \in [Peers -> Uids \union {NoUid}]
    /\ peerMap \in [Uids -> Peers \union {NoPeer}]
    /\ next_uid \in 1..(MaxClients + 1)
    /\ events \in Seq(Events)
    /\ copied \in 0..Len(events)
    /\ received \in 0..MaxPackets

(* There is a uid for each connection that waits to be dispatched. *)
UidsLeft == next_uid + Cardinality(Pending) <= MaxClients + 1

(* A peer is in the dispatch queue once, and has something to report. *)
Dispatches ==
    /\ \A i, j \in 1..Len(dispatch) : dispatch[i] = dispatch[j] => i = j
    /\ \A i \in 1..Len(dispatch) :
          peerState[dispatch[i]] = "connected" => incoming[dispatch[i]] # <<>>

(* A peer has a client object from the dispatch of its connection to that of   *)
(* its end, and the map leads from the one's uid to the other.                 *)
PeersHold == \A p \in Peers :
    /\ peerState[p] \in {"disconnected", "pending"}
           => peerData[p] = NoUid /\ incoming[p] = <<>>
    /\ peerState[p] \in {"connected", "zombie"} => peerData[p] # NoUid
    /\ peerData[p] # NoUid => peerMap[peerData[p]] = p /\ peerData[p] \in alive

(* What an event, a peer or _connected_clients refers to is allocated; no uid  *)
(* was given out twice.                                                        *)
Allocated == /\ \A u \in alive : u \in Uids /\ u < next_uid
             /\ \A i \in 1..Len(events) : events[i].client \in alive
             /\ connected \subseteq alive

(* A client's events begin with its CONNECT and end with its DISCONNECT, which *)
(* the worker adds when it forgets the client ...                              *)
EventOrder ==
    \A i, j \in 1..Len(events) :
        /\ events[i].type = "DISCONNECT" /\ i < j => events[i].client # events[j].client
        /\ events[j].type = "CONNECT" /\ i < j => events[i].client # events[j].client

Forgotten ==
    \A i \in 1..Len(events) : events[i].type = "DISCONNECT"
        => \A p \in Peers : peerData[p] # events[i].client

(* ... and until the CONNECT is handled it waits.                              *)
ConnectWaits(u) == \E i \in 1..Len(events) : /\ events[i].type = "CONNECT"
                                             /\ events[i].client = u
Announced == \A u \in alive : u \in connected \/ ConnectWaits(u)

Life == PeersHold /\ Allocated /\ EventOrder /\ Forgotten /\ Announced
IInv == Types /\ UidsLeft /\ Dispatches /\ Life

-----------------------------------------------------------------------------
(* Sequences.                                                                  *)

LEMMA AppendOne ==
  ASSUME NEW S, NEW s \in Seq(S), NEW x \in S
  PROVE  /\ Append(s, x) \in Seq(S)
         /\ Len(Append(s, x)) = Len(s) + 1 /\ Len(s) \in Nat
         /\ \A i \in 1..Len(s) : Append(s, x)[i] = s[i]
         /\ Append(s, x)[Len(s) + 1] = x
  OBVIOUS

LEMMA TailOne ==
  ASSUME NEW S, NEW s \in Seq(S), s # <<>>
  PROVE  /\ Tail(s) \in Seq(S) /\ Head(s) \in S /\ Head(s) = s[1]
         /\ Len(Tail(s)) = Len(s) - 1 /\ Len(s) \in Nat \ {0}
         /\ \A i \in 1..(Len(s) - 1) : Tail(s)[i] = s[i + 1]
  OBVIOUS

LEMMA TailNotEmpty ==
  ASSUME NEW S, NEW s \in Seq(S), Len(s) > 1
  PROVE  Tail(s) # <<>>
  <1>1. s # <<>>
    OBVIOUS
  <1>2. Tail(s) \in Seq(S) /\ Len(Tail(s)) = Len(s) - 1 /\ Len(s) \in Nat
    BY <1>1, TailOne
  <1>3. Len(Tail(s)) # 0
    BY <1>2
  <1> QED  BY <1>2, <1>3, EmptySeq

(* The dispatch queue without its first, and with one more. *)
LEMMA PoppedOnce ==
  ASSUME NEW S, NEW s \in Seq(S), s # <<>>,
         \A i, j \in 1..Len(s) : s[i] = s[j] => i = j
  PROVE  /\ Tail(s) \in Seq(S)
         /\ \A i, j \in 1..Len(Tail(s)) : Tail(s)[i] = Tail(s)[j] => i = j
         /\ \A i \in 1..Len(Tail(s)) : /\ Tail(s)[i] # s[1] /\ Tail(s)[i] \in S
                                       /\ \E j \in 1..Len(s) : Tail(s)[i] = s[j]
  <1>1. \A i \in 1..Len(Tail(s)) : Tail(s)[i] = s[i + 1] /\ i + 1 \in 1..Len(s)
    BY TailOne
  <1>2. 1 \in 1..Len(s) /\ Tail(s) \in Seq(S)
    BY TailOne
  <1> QED  BY <1>1, <1>2

LEMMA AddedOnce ==
  ASSUME NEW S, NEW s \in Seq(S), NEW x \in S, NEW t, t = Append(s, x),
         \A i, j \in 1..Len(s) : s[i] = s[j] => i = j,
         \A i \in 1..Len(s) : s[i] # x
  PROVE  /\ t \in Seq(S)
         /\ \A i, j \in 1..Len(t) : t[i] = t[j] => i = j
         /\ \A i \in 1..Len(t) : t[i] = x \/ \E j \in 1..Len(s) : t[i] = s[j]
  BY AppendOne

LEMMA EventTypes ==
  ASSUME Types, NEW u \in Uids, NEW t \in {"CONNECT", "RECEIVE", "DISCONNECT"},
         NEW m \in Messages
  PROVE  /\ Event(t, u, m) \in Events /\ NoPacket \in Messages
         /\ Event(t, u, m).type = t /\ Event(t, u, m).client = u
  BY BoundsAssumption DEF Event, Events, Messages, NoPacket

(* Handling the event at the head. *)
LEMMA PopEvent ==
  ASSUME Types, NEW t, NextEvent(t), EventHandled
  PROVE  /\ Len(events) \in Nat \ {0}
         /\ events' \in Seq(Events) /\ Len(events') = Len(events) - 1
         /\ \A i \in 1..Len(events') : events'[i] = events[i + 1]
         /\ copied' \in 0..Len(events')
         /\ events[1] = Head(events) /\ events[1].type = t
         /\ events[1].client \in Uids
  <1>1. events # <<>>
    BY DEF Types, NextEvent
  <1>2. events[1] \in Events
    BY <1>1, TailOne DEF Types
  <1> QED  BY <1>1, <1>2, TailOne DEF Types, NextEvent, EventHandled, Events

-----------------------------------------------------------------------------
(* The network and the dispatch queue.                                         *)

LEMMA WithDispatchOnce ==
  ASSUME Types, Dispatches, NEW p \in Peers, dispatch' = WithDispatch(p)
  PROVE  /\ dispatch' \in Seq(Peers)
         /\ \A i, j \in 1..Len(dispatch') : dispatch'[i] = dispatch'[j] => i = j
         /\ \A i \in 1..Len(dispatch') :
               \/ dispatch'[i] = p
               \/ \E j \in 1..Len(dispatch) : dispatch'[i] = dispatch[j]
  <1>1. CASE p \in Range(dispatch)
    BY <1>1 DEF WithDispatch, Types, Dispatches
  <1>2. CASE p \notin Range(dispatch)
    <2>1. dispatch' = Append(dispatch, p)
      BY <1>2 DEF WithDispatch
    <2>2. \A i \in 1..Len(dispatch) : dispatch[i] # p
      BY <1>2 DEF Range, Types
    <2> QED  BY <2>1, <2>2, AppendOne DEF Types, Dispatches
  <1> QED  BY <1>1, <1>2

LEMMA PendingFinite ==
  ASSUME Types
  PROVE  IsFiniteSet(Pending) /\ Cardinality(Pending) \in Nat
  <1>1. Pending \in SUBSET Peers
    BY DEF Pending
  <1> QED  BY <1>1, PeersAssumption, FS_Subset, FS_CardinalityType

LEMMA NetConnectKeepsIInv ==
  ASSUME IInv, NEW p \in Peers, NetConnect(p)
  PROVE  IInv'
  <1> USE DEF IInv, NetConnect, clientVars, eventVars
  <1>1. /\ dispatch' \in Seq(Peers)
        /\ \A i, j \in 1..Len(dispatch') : dispatch'[i] = dispatch'[j] => i = j
        /\ \A i \in 1..Len(dispatch') :
              \/ dispatch'[i] = p
              \/ \E j \in 1..Len(dispatch) : dispatch'[i] = dispatch[j]
    BY WithDispatchOnce
  <1>2. Types'
    BY <1>1 DEF Types
  <1>3. UidsLeft'
    <2>1. p \notin Pending /\ Pending' = Pending \union {p}
      BY DEF Types, Pending
    <2>2. Cardinality(Pending') = Cardinality(Pending) + 1
      BY <2>1, PendingFinite, FS_AddElement
    <2>3. next_uid + Cardinality(Pending) <= MaxClients
      BY DEF Pending
    <2> QED  BY <2>2, <2>3, PendingFinite, BoundsAssumption DEF UidsLeft, Types
  <1>4. Dispatches'
    <2>1. ASSUME NEW i \in 1..Len(dispatch'), peerState'[dispatch'[i]] = "connected"
          PROVE  incoming'[dispatch'[i]] # <<>>
      <3>1. CASE dispatch'[i] = p
        BY <2>1, <3>1 DEF Types
      <3>2. ASSUME NEW j \in 1..Len(dispatch), dispatch'[i] = dispatch[j], dispatch'[i] # p
            PROVE  incoming'[dispatch'[i]] # <<>>
        BY <2>1, <3>2 DEF Types, Dispatches
      <3> QED  BY <1>1, <3>1, <3>2
    <2> QED  BY <1>1, <2>1 DEF Dispatches
  <1>5. Life'
    BY DEF Types, Life, PeersHold, Allocated, EventOrder, Forgotten, Announced,
           ConnectWaits
  <1> QED  BY <1>2, <1>3, <1>4, <1>5

LEMMA NetReceiveKeepsIInv ==
  ASSUME IInv, NEW p \in Peers, NetReceive(p)
  PROVE  IInv'
  <1> USE DEF IInv, NetReceive, clientVars, eventVars
  <1> DEFINE m == [from |-> peerData[p], id |-> received + 1]
  <1>1. /\ dispatch' \in Seq(Peers)
        /\ \A i, j \in 1..Len(dispatch') : dispatch'[i] = dispatch'[j] => i = j
        /\ \A i \in 1..Len(dispatch') :
              \/ dispatch'[i] = p
              \/ \E j \in 1..Len(dispatch) : dispatch'[i] = dispatch[j]
    BY WithDispatchOnce
  <1>2. /\ m \in Messages /\ received' \in 0..MaxPackets
        /\ incoming' = [incoming EXCEPT ![p] = Append(@, m)]
    BY BoundsAssumption DEF Types, Messages
  <1> HIDE DEF m
  <1>3. /\ incoming'[p] \in Seq(Messages) /\ incoming'[p] # <<>>
        /\ \A q \in Peers \ {p} : incoming'[q] = incoming[q]
    BY <1>2, AppendOne DEF Types
  <1>4. Types'
    BY <1>1, <1>2, <1>3 DEF Types
  <1>5. UidsLeft'
    BY DEF UidsLeft, Pending
  <1>6. Dispatches'
    <2>1. ASSUME NEW i \in 1..Len(dispatch'), peerState'[dispatch'[i]] = "connected"
          PROVE  incoming'[dispatch'[i]] # <<>>
      <3>1. CASE dispatch'[i] = p
        BY <2>1, <3>1, <1>3 DEF Types
      <3>2. ASSUME NEW j \in 1..Len(dispatch), dispatch'[i] = dispatch[j], dispatch'[i] # p
            PROVE  incoming'[dispatch'[i]] # <<>>
        <4>1. dispatch[j] \in Peers /\ peerState[dispatch[j]] = "connected"
          BY <2>1, <3>2 DEF Types
        <4>2. incoming[dispatch[j]] # <<>>
          BY <4>1 DEF Dispatches
        <4> QED  BY <1>3, <3>2, <4>1, <4>2
      <3> QED  BY <1>1, <3>1, <3>2
    <2> QED  BY <1>1, <2>1 DEF Dispatches
  <1>7. Life'
    <2>1. PeersHold'
      <3>1. peerState[p] = "connected" /\ peerState' = peerState
            /\ UNCHANGED <<peerData, peerMap, alive>>
        OBVIOUS
      <3> QED  BY <1>3, <3>1 DEF Life, PeersHold
    <2>2. Allocated' /\ EventOrder' /\ Forgotten' /\ Announced'
      <3>1. UNCHANGED <<peerData, alive, events, connected, next_uid>>
        OBVIOUS
      <3> QED  BY <3>1 DEF Life, Allocated, EventOrder, Forgotten, Announced, ConnectWaits
    <2> QED  BY <2>1, <2>2 DEF Life
  <1> QED  BY <1>4, <1>5, <1>6, <1>7

LEMMA NetDisconnectKeepsIInv ==
  ASSUME IInv, NEW p \in Peers, NetDisconnect(p)
  PROVE  IInv'
  <1> USE DEF IInv, NetDisconnect, clientVars, eventVars
  <1>1. /\ dispatch' \in Seq(Peers)
        /\ \A i, j \in 1..Len(dispatch') : dispatch'[i] = dispatch'[j] => i = j
        /\ \A i \in 1..Len(dispatch') :
              \/ dispatch'[i] = p
              \/ \E j \in 1..Len(dispatch) : dispatch'[i] = dispatch[j]
    BY WithDispatchOnce
  <1>2. Types'
    BY <1>1 DEF Types
  <1>3. UidsLeft'
    <2>1. Pending' = Pending
      BY DEF Types, Pending
    <2> QED  BY <2>1 DEF UidsLeft
  <1>4. Dispatches'
    <2>1. ASSUME NEW i \in 1..Len(dispatch'), peerState'[dispatch'[i]] = "connected"
          PROVE  incoming'[dispatch'[i]] # <<>>
      <3>1. CASE dispatch'[i] = p
        BY <2>1, <3>1 DEF Types
      <3>2. ASSUME NEW j \in 1..Len(dispatch), dispatch'[i] = dispatch[j], dispatch'[i] # p
            PROVE  incoming'[dispatch'[i]] # <<>>
        BY <2>1, <3>2 DEF Types, Dispatches
      <3> QED  BY <1>1, <3>1, <3>2
    <2> QED  BY <1>1, <2>1 DEF Dispatches
  <1>5. Life'
    BY DEF Types, Life, PeersHold, Allocated, EventOrder, Forgotten, Announced,
           ConnectWaits
  <1> QED  BY <1>2, <1>3, <1>4, <1>5

-----------------------------------------------------------------------------
(* The worker.                                                                 *)

(* What is at the head of the dispatch queue, and what remains. *)
LEMMA PopDispatch ==
  ASSUME Types, Dispatches, dispatch # <<>>
  PROVE  /\ Head(dispatch) \in Peers /\ Tail(dispatch) \in Seq(Peers)
         /\ dispatch[1] = Head(dispatch) /\ Len(dispatch) \in Nat \ {0}
         /\ Len(Tail(dispatch)) = Len(dispatch) - 1
         /\ \A i \in 1..Len(Tail(dispatch)) :
               Tail(dispatch)[i] = dispatch[i + 1] /\ Tail(dispatch)[i] # Head(dispatch)
         /\ \A i, j \in 1..Len(Tail(dispatch)) :
               Tail(dispatch)[i] = Tail(dispatch)[j] => i = j
  <1>1. /\ Head(dispatch) \in Peers /\ Tail(dispatch) \in Seq(Peers)
        /\ dispatch[1] = Head(dispatch) /\ Len(dispatch) \in Nat \ {0}
        /\ Len(Tail(dispatch)) = Len(dispatch) - 1
        /\ \A i \in 1..(Len(dispatch) - 1) : Tail(dispatch)[i] = dispatch[i + 1]
    BY TailOne DEF Types
  <1> QED  BY <1>1 DEF Dispatches

LEMMA DispatchConnectKeepsIInv ==
  ASSUME IInv, DispatchConnect
  PROVE  IInv'
  <1> USE DEF IInv
  <1> DEFINE p == Head(dispatch)
             u == next_uid
             e == Event("CONNECT", u, NoPacket)
  <1>1. /\ p \in Peers /\ dispatch' \in Seq(Peers)
        /\ \A i \in 1..Len(dispatch') : dispatch'[i] # p
                                        /\ \E j \in 1..Len(dispatch) : dispatch'[i] = dispatch[j]
        /\ \A i, j \in 1..Len(dispatch') : dispatch'[i] = dispatch'[j] => i = j
    <2>1. dispatch # <<>> /\ dispatch' = Tail(dispatch)
      BY DEF DispatchConnect
    <2> HIDE DEF p, u, e
    <2> QED  BY <2>1, PopDispatch DEF p
  <1>2. /\ peerState[p] = "pending"
        /\ peerState' = [peerState EXCEPT ![p] = "connected"]
        /\ next_uid' = u + 1 /\ peerData' = [peerData EXCEPT ![p] = u]
        /\ peerMap' = [peerMap EXCEPT ![u] = p]
        /\ alive' = alive \union {u} /\ events' = Append(events, e)
        /\ UNCHANGED <<incoming, received, copied, connected>>
    BY DEF DispatchConnect, InitializeClient
  <1>3. /\ u \in Uids /\ u \notin alive /\ u # NoUid
        /\ next_uid' + Cardinality(Pending') <= MaxClients + 1
    <2>1. p \in Pending /\ Pending' = Pending \ {p}
      BY <1>1, <1>2 DEF Types, Pending
    <2>2. /\ Cardinality(Pending') = Cardinality(Pending) - 1
          /\ Cardinality(Pending) \in Nat /\ Cardinality(Pending') \in Nat
      BY <2>1, PendingFinite, FS_RemoveElement, FS_CardinalityType
    <2> QED  BY <1>2, <2>2, BoundsAssumption
             DEF UidsLeft, Types, Uids, NoUid, Life, Allocated
  <1>4. e \in Events /\ e.type = "CONNECT" /\ e.client = u
    BY <1>3, EventTypes, BoundsAssumption DEF NoPacket, Messages
  <1> HIDE DEF p, u, e
  <1>5. /\ events' \in Seq(Events) /\ Len(events') = Len(events) + 1 /\ Len(events) \in Nat
        /\ \A i \in 1..Len(events) : events'[i] = events[i]
        /\ events'[Len(events) + 1] = e
    BY <1>2, <1>4, AppendOne DEF Types
  <1>6. Types'
    <2>1. next_uid' \in 1..(MaxClients + 1)
      BY <1>2, <1>3, BoundsAssumption DEF u, Uids
    <2> QED  BY <1>1, <1>2, <1>3, <1>5, <2>1 DEF Types
  <1>7. UidsLeft'
    BY <1>3 DEF UidsLeft
  <1>8. Dispatches'
    <2>1. ASSUME NEW i \in 1..Len(dispatch'), peerState'[dispatch'[i]] = "connected"
          PROVE  incoming'[dispatch'[i]] # <<>>
      <3>1. PICK j \in 1..Len(dispatch) : dispatch'[i] = dispatch[j]
        BY <1>1
      <3>2. dispatch[j] \in Peers /\ dispatch[j] # p
        BY <1>1, <3>1 DEF Types
      <3>3. peerState[dispatch[j]] = "connected"
        BY <1>2, <2>1, <3>1, <3>2 DEF Types
      <3>4. incoming[dispatch[j]] # <<>>
        BY <3>3 DEF Dispatches
      <3> QED  BY <1>2, <3>1, <3>4
    <2> QED  BY <1>1, <2>1 DEF Dispatches
  <1>9. PeersHold'
    <2>1. \A q \in Peers \ {p} : /\ peerState'[q] = peerState[q]
                                 /\ peerData'[q] = peerData[q]
                                 /\ peerData[q] # NoUid => peerData[q] # u
      BY <1>2, <1>3 DEF Types, Life, PeersHold
    <2>2. peerState'[p] = "connected" /\ peerData'[p] = u /\ peerMap'[u] = p
      BY <1>1, <1>2, <1>3 DEF Types
    <2>3. \A v \in Uids \ {u} : peerMap'[v] = peerMap[v]
      BY <1>2 DEF Types
    <2> QED  BY <1>1, <1>2, <1>3, <2>1, <2>2, <2>3 DEF Types, Life, PeersHold
  <1>10. Allocated'
    <2>1. u \in Nat /\ next_uid = u
      BY <1>3, BoundsAssumption DEF u, Uids
    <2>2. \A v \in alive' : v \in Uids /\ v < next_uid'
      BY <1>2, <1>3, <2>1 DEF Life, Allocated, Uids
    <2> QED  BY <1>2, <1>4, <1>5, <2>2 DEF Life, Allocated
  <1>11. EventOrder'
    <2>1. \A i \in 1..Len(events) : events[i].client # u
      BY <1>3 DEF Life, Allocated
    <2> QED  BY <1>4, <1>5, <2>1 DEF Life, EventOrder
  <1>12. Forgotten'
    <2>1. \A i \in 1..Len(events) : events[i].client # u
      BY <1>3 DEF Life, Allocated
    <2>2. \A q \in Peers : peerData'[q] \in {peerData[q], u}
      BY <1>2 DEF Types
    <2> QED  BY <1>4, <1>5, <2>1, <2>2 DEF Life, Forgotten
  <1>13. Announced'
    <2>1. ASSUME NEW v \in alive' PROVE (v \in connected \/ ConnectWaits(v))'
      <3>1. CASE v = u
        <4>1. Len(events) + 1 \in 1..Len(events')
          BY <1>5
        <4> QED  BY <1>4, <1>5, <3>1, <4>1 DEF ConnectWaits
      <3>2. CASE v \in alive
        <4>1. v \in connected \/ ConnectWaits(v)
          BY <3>2 DEF Life, Announced
        <4>2. ConnectWaits(v) => ConnectWaits(v)'
          BY <1>5 DEF ConnectWaits
        <4> QED  BY <1>2, <4>1, <4>2
      <3> QED  BY <1>2, <3>1, <3>2
    <2> QED  BY <2>1 DEF Announced
  <1> QED  BY <1>6, <1>7, <1>8, <1>9, <1>10, <1>11, <1>12, <1>13 DEF Life

LEMMA DispatchReceiveKeepsIInv ==
  ASSUME IInv, DispatchReceive
  PROVE  IInv'
  <1> USE DEF IInv
  <1> DEFINE p == Head(dispatch)
             u == peerData[p]
             e == Event("RECEIVE", u, Head(incoming[p]))
  <1>1. /\ p \in Peers /\ p = dispatch[1] /\ Len(dispatch) \in Nat \ {0}
        /\ Tail(dispatch) \in Seq(Peers)
        /\ Len(Tail(dispatch)) = Len(dispatch) - 1
        /\ \A i \in 1..Len(Tail(dispatch)) :
              Tail(dispatch)[i] = dispatch[i + 1] /\ Tail(dispatch)[i] # p
        /\ \A i, j \in 1..Len(Tail(dispatch)) :
              Tail(dispatch)[i] = Tail(dispatch)[j] => i = j
    BY PopDispatch DEF DispatchReceive
  <1>2. /\ peerState[p] = "connected"
        /\ incoming' = [incoming EXCEPT ![p] = Tail(@)]
        /\ dispatch' = IF Len(incoming[p]) > 1 THEN Append(Tail(dispatch), p)
                                               ELSE Tail(dispatch)
        /\ UNCHANGED <<peerState, received, peerData, peerMap, next_uid, copied,
                       alive, connected>>
    BY DEF DispatchReceive, clientVars
  <1>3. u \in Uids /\ u # NoUid /\ u \in alive /\ incoming[p] # <<>>
    BY <1>1, <1>2 DEF Types, Life, PeersHold, Dispatches
  <1>4. /\ Head(incoming[p]) \in Messages /\ Tail(incoming[p]) \in Seq(Messages)
        /\ Len(Tail(incoming[p])) = Len(incoming[p]) - 1
    BY <1>1, <1>3, TailOne DEF Types
  <1>5. e \in Events /\ e.type = "RECEIVE" /\ e.client = u /\ events' = Append(events, e)
    BY <1>3, <1>4, EventTypes DEF DispatchReceive
  <1> HIDE DEF p, u, e
  <1>6. /\ events' \in Seq(Events) /\ Len(events') = Len(events) + 1 /\ Len(events) \in Nat
        /\ \A i \in 1..Len(events) : events'[i] = events[i]
        /\ events'[Len(events) + 1] = e
    BY <1>5, AppendOne DEF Types
  <1>7. /\ incoming'[p] = Tail(incoming[p])
        /\ \A q \in Peers \ {p} : incoming'[q] = incoming[q]
    BY <1>1, <1>2 DEF Types
  <1>8. dispatch' \in Seq(Peers) /\ Dispatches'
    <2>s. peerState' = peerState
      BY <1>2
    <2>0. /\ Tail(dispatch) \in Seq(Peers)
          /\ \A i, j \in 1..Len(Tail(dispatch)) :
                Tail(dispatch)[i] = Tail(dispatch)[j] => i = j
          /\ \A i \in 1..Len(Tail(dispatch)) :
                /\ Tail(dispatch)[i] # p /\ Tail(dispatch)[i] \in Peers
                /\ \E j \in 1..Len(dispatch) : Tail(dispatch)[i] = dispatch[j]
      <3>1. /\ dispatch \in Seq(Peers) /\ dispatch # <<>> /\ dispatch[1] = p
            /\ \A i, j \in 1..Len(dispatch) : dispatch[i] = dispatch[j] => i = j
        BY <1>1 DEF Dispatches
      <3> QED  BY <3>1, PoppedOnce
    <2> DEFINE Ready(q) == peerState'[q] = "connected" => incoming'[q] # <<>>
    <2>r. \A i \in 1..Len(Tail(dispatch)) : Ready(Tail(dispatch)[i])
      <3>1. \A i \in 1..Len(dispatch) : peerState'[dispatch[i]] = "connected"
                                           => incoming[dispatch[i]] # <<>>
        BY <2>s DEF Dispatches
      <3>2. \A q \in Peers : q # p => incoming'[q] = incoming[q]
        BY <1>7
      <3> QED  BY <2>0, <3>1, <3>2
    <2>g. SUFFICES /\ dispatch' \in Seq(Peers)
                   /\ \A i, j \in 1..Len(dispatch') : dispatch'[i] = dispatch'[j] => i = j
                   /\ \A i \in 1..Len(dispatch') : Ready(dispatch'[i])
      BY <2>g DEF Dispatches
    <2>1. CASE Len(incoming[p]) > 1
      <3>1. dispatch' = Append(Tail(dispatch), p)
        BY <1>2, <2>1
      <3>2. Ready(p)
        <4>1. incoming[p] \in Seq(Messages)
          BY <1>1 DEF Types
        <4> QED  BY <1>7, <2>1, <4>1, TailNotEmpty
      <3> HIDE DEF Ready
      <3>3. p \in Peers
        BY <1>1
      <3>4. /\ dispatch' \in Seq(Peers)
            /\ \A i, j \in 1..Len(dispatch') : dispatch'[i] = dispatch'[j] => i = j
            /\ \A i \in 1..Len(dispatch') :
                  \/ dispatch'[i] = p
                  \/ \E j \in 1..Len(Tail(dispatch)) : dispatch'[i] = Tail(dispatch)[j]
        BY <2>0, <3>1, <3>3, AddedOnce
      <3> QED  BY <2>r, <3>2, <3>4
    <2>2. CASE ~(Len(incoming[p]) > 1)
      <3>1. dispatch' = Tail(dispatch)
        BY <1>2, <2>2
      <3> HIDE DEF Ready
      <3> QED  BY <2>0, <2>r, <3>1
    <2> QED  BY <2>1, <2>2
  <1>9. Types'
    <2>1. incoming' \in [Peers -> Seq(Messages)]
      BY <1>1, <1>2, <1>4 DEF Types
    <2>2. copied' \in 0..Len(events')
      BY <1>2, <1>6 DEF Types
    <2> QED  BY <1>2, <1>6, <1>8, <2>1, <2>2 DEF Types
  <1>10. UidsLeft'
    BY <1>2 DEF UidsLeft, Pending
  <1>11. PeersHold'
    BY <1>1, <1>2, <1>7 DEF Life, PeersHold
  <1>12. Allocated'
    BY <1>2, <1>3, <1>5, <1>6 DEF Life, Allocated
  <1>13. EventOrder' /\ Forgotten'
    <2>1. \A i \in 1..Len(events) : events[i].type = "DISCONNECT" => events[i].client # u
      BY <1>1 DEF Life, Forgotten, u
    <2>2. EventOrder'
      BY <1>5, <1>6, <2>1 DEF Life, EventOrder
    <2>3. Forgotten'
      BY <1>2, <1>5, <1>6 DEF Life, Forgotten
    <2> QED  BY <2>2, <2>3
  <1>14. Announced'
    BY <1>2, <1>6 DEF Life, Announced, ConnectWaits
  <1> QED  BY <1>8, <1>9, <1>10, <1>11, <1>12, <1>13, <1>14 DEF Life

LEMMA DispatchDisconnectKeepsIInv ==
  ASSUME IInv, DispatchDisconnect
  PROVE  IInv'
  <1> USE DEF IInv
  <1> DEFINE p == Head(dispatch)
             u == peerData[p]
             e == Event("DISCONNECT", u, NoPacket)
  <1>1. /\ p \in Peers /\ dispatch' \in Seq(Peers)
        /\ \A i \in 1..Len(dispatch') : dispatch'[i] # p
                                        /\ \E j \in 1..Len(dispatch) : dispatch'[i] = dispatch[j]
        /\ \A i, j \in 1..Len(dispatch') : dispatch'[i] = dispatch'[j] => i = j
    <2>1. dispatch # <<>> /\ dispatch' = Tail(dispatch)
      BY DEF DispatchDisconnect
    <2> HIDE DEF p, u, e
    <2> QED  BY <2>1, PopDispatch DEF p
  <1>2. /\ peerState[p] = "zombie"
        /\ peerState' = [peerState EXCEPT ![p] = "disconnected"]
        /\ incoming' = [incoming EXCEPT ![p] = <<>>]
        /\ UNCHANGED <<received, next_uid, copied, alive, connected>>
    BY DEF DispatchDisconnect
  <1>3. u \in Uids /\ u # NoUid /\ u \in alive
    BY <1>1, <1>2 DEF Types, Life, PeersHold
  <1>4. /\ peerData' = [peerData EXCEPT ![p] = NoUid]
        /\ peerMap' = [peerMap EXCEPT ![u] = NoPeer]
        /\ events' = Append(events, e)
    BY <1>3 DEF DispatchDisconnect, ForgetClient
  <1>5. e \in Events /\ e.type = "DISCONNECT" /\ e.client = u
    BY <1>3, EventTypes, BoundsAssumption DEF NoPacket, Messages
  <1>6. \A q \in Peers \ {p} : peerData[q] # u
    BY <1>1, <1>3 DEF Life, PeersHold
  <1>7. \A i \in 1..Len(events) : events[i].type = "DISCONNECT" => events[i].client # u
    BY <1>1 DEF Life, Forgotten
  <1> HIDE DEF p, u, e
  <1>8. /\ events' \in Seq(Events) /\ Len(events') = Len(events) + 1 /\ Len(events) \in Nat
        /\ \A i \in 1..Len(events) : events'[i] = events[i]
        /\ events'[Len(events) + 1] = e
    BY <1>4, <1>5, AppendOne DEF Types
  <1>9. /\ peerState'[p] = "disconnected" /\ peerData'[p] = NoUid /\ incoming'[p] = <<>>
        /\ \A q \in Peers \ {p} : /\ peerState'[q] = peerState[q]
                                  /\ peerData'[q] = peerData[q]
                                  /\ incoming'[q] = incoming[q]
        /\ \A v \in Uids \ {u} : peerMap'[v] = peerMap[v]
    BY <1>1, <1>2, <1>4 DEF Types
  <1>10. Types'
    <2>1. incoming' \in [Peers -> Seq(Messages)]
      BY <1>1, <1>2 DEF Types
    <2>2. /\ peerMap' \in [Uids -> Peers \union {NoPeer}]
          /\ peerData' \in [Peers -> Uids \union {NoUid}]
      BY <1>1, <1>3, <1>4 DEF Types
    <2>3. copied' \in 0..Len(events')
      BY <1>2, <1>8 DEF Types
    <2> QED  BY <1>1, <1>2, <1>8, <2>1, <2>2, <2>3 DEF Types
  <1>11. UidsLeft'
    <2>1. Pending' = Pending
      BY <1>1, <1>2, <1>9 DEF Pending
    <2> QED  BY <1>2, <2>1 DEF UidsLeft
  <1>12. Dispatches'
    <2>1. ASSUME NEW i \in 1..Len(dispatch'), peerState'[dispatch'[i]] = "connected"
          PROVE  incoming'[dispatch'[i]] # <<>>
      <3>1. PICK j \in 1..Len(dispatch) : dispatch'[i] = dispatch[j]
        BY <1>1
      <3>2. dispatch[j] \in Peers \ {p}
        BY <1>1, <3>1 DEF Types
      <3>3. peerState[dispatch[j]] = "connected"
        BY <1>9, <2>1, <3>1, <3>2
      <3>4. incoming[dispatch[j]] # <<>>
        BY <3>3 DEF Dispatches
      <3> QED  BY <1>9, <3>1, <3>2, <3>4
    <2> QED  BY <1>1, <2>1 DEF Dispatches
  <1>13. PeersHold'
    BY <1>1, <1>2, <1>6, <1>9 DEF Life, PeersHold, Types
  <1>14. Allocated'
    BY <1>2, <1>3, <1>5, <1>8 DEF Life, Allocated
  <1>15. EventOrder'
    BY <1>5, <1>7, <1>8 DEF Life, EventOrder
  <1>16. Forgotten'
    BY <1>3, <1>5, <1>6, <1>8, <1>9 DEF Life, Forgotten, Allocated, Uids, NoUid
  <1>17. Announced'
    BY <1>2, <1>8 DEF Life, Announced, ConnectWaits
  <1> QED  BY <1>10, <1>11, <1>12, <1>13, <1>14, <1>15, <1>16, <1>17 DEF Life

-----------------------------------------------------------------------------
(* The server thread.                                                          *)

LEMMA HandleConnectKeepsIInv ==
  ASSUME IInv, HandleConnect
  PROVE  IInv'
  <1> USE DEF IInv
  <1>0. /\ NextEvent("CONNECT") /\ EventHandled
        /\ connected' = connected \union {Head(events).client}
        /\ UNCHANGED <<peerState, incoming, dispatch, received, peerData, peerMap,
                       next_uid, alive>>
    BY DEF HandleConnect, hostVars, clientVars
  <1>1. /\ Len(events) \in Nat \ {0}
        /\ events' \in Seq(Events) /\ Len(events') = Len(events) - 1
        /\ \A i \in 1..Len(events') : events'[i] = events[i + 1]
        /\ copied' \in 0..Len(events')
        /\ events[1] = Head(events) /\ events[1].type = "CONNECT"
        /\ events[1].client \in Uids
    BY <1>0, PopEvent
  <1>2. Types'
    BY <1>0, <1>1 DEF Types
  <1>3. UidsLeft' /\ Dispatches' /\ PeersHold'
    BY <1>0 DEF UidsLeft, Pending, Dispatches, Life, PeersHold
  <1>4. Allocated' /\ EventOrder' /\ Forgotten'
    <2>1. ASSUME NEW i \in 1..Len(events')
          PROVE  i + 1 \in 1..Len(events) /\ events'[i] = events[i + 1]
      BY <1>1
    <2>2. Allocated'
      <3>1. 1 \in 1..Len(events) /\ events[1].client \in alive
        BY <1>1 DEF Life, Allocated
      <3> QED  BY <1>0, <1>1, <2>1, <3>1 DEF Life, Allocated
    <2>3. EventOrder'
      <3>1. ASSUME NEW i \in 1..Len(events'), NEW j \in 1..Len(events'), i < j
            PROVE  i + 1 < j + 1 /\ i + 1 \in 1..Len(events) /\ j + 1 \in 1..Len(events)
        BY <2>1, <3>1
      <3> QED  BY <2>1, <3>1 DEF Life, EventOrder
    <2>4. Forgotten'
      BY <1>0, <2>1 DEF Life, Forgotten
    <2> QED  BY <2>2, <2>3, <2>4
  <1>5. Announced'
    <2>1. ASSUME NEW v \in alive, ConnectWaits(v), v # events[1].client
          PROVE  ConnectWaits(v)'
      <3>1. PICK i \in 1..Len(events) : events[i].type = "CONNECT" /\ events[i].client = v
        BY <2>1 DEF ConnectWaits
      <3>2. i # 1 /\ i - 1 \in 1..Len(events') /\ events'[i - 1] = events[i]
        BY <1>1, <2>1, <3>1
      <3> QED  BY <3>1, <3>2 DEF ConnectWaits
    <2> QED  BY <1>0, <1>1, <2>1 DEF Life, Announced
  <1> QED  BY <1>2, <1>3, <1>4, <1>5 DEF Life

LEMMA HandleDisconnectKeepsIInv ==
  ASSUME IInv, HandleDisconnect
  PROVE  IInv'
  <1> USE DEF IInv, HandleDisconnect, hostVars, clientVars
  <1> DEFINE u == events[1].client
  <1>1. /\ Len(events) \in Nat \ {0}
        /\ events' \in Seq(Events) /\ Len(events') = Len(events) - 1
        /\ \A i \in 1..Len(events') : events'[i] = events[i + 1]
        /\ copied' \in 0..Len(events')
        /\ events[1] = Head(events) /\ events[1].type = "DISCONNECT"
        /\ events[1].client \in Uids
    BY PopEvent
  <1>2. Types'
    BY <1>1 DEF Types
  <1>3. UidsLeft' /\ Dispatches'
    BY DEF UidsLeft, Pending, Dispatches
  <1>4. /\ \A i \in 1..Len(events') : events'[i].client # u
        /\ \A p \in Peers : peerData[p] # u
        /\ alive' = alive \ {u} /\ connected' = connected \ {u}
    <2>1. ASSUME NEW i \in 1..Len(events') PROVE events'[i].client # u
      <3>1. /\ 1 \in 1..Len(events) /\ i + 1 \in 1..Len(events) /\ 1 < i + 1
            /\ events'[i] = events[i + 1]
        BY <1>1
      <3> QED  BY <1>1, <3>1 DEF Life, EventOrder
    <2>2. \A p \in Peers : peerData[p] # u
      BY <1>1 DEF Life, Forgotten
    <2> QED  BY <1>1, <2>1, <2>2
  <1>5. PeersHold'
    BY <1>4 DEF Life, PeersHold
  <1>6. Allocated' /\ EventOrder' /\ Forgotten'
    <2>1. ASSUME NEW i \in 1..Len(events')
          PROVE  i + 1 \in 1..Len(events) /\ events'[i] = events[i + 1]
      BY <1>1
    <2>2. Allocated'
      BY <1>1, <2>1, <1>4 DEF Life, Allocated
    <2>3. EventOrder'
      <3>1. ASSUME NEW i \in 1..Len(events'), NEW j \in 1..Len(events'), i < j
            PROVE  i + 1 < j + 1 /\ i + 1 \in 1..Len(events) /\ j + 1 \in 1..Len(events)
        BY <2>1, <3>1
      <3> QED  BY <2>1, <3>1 DEF Life, EventOrder
    <2>4. Forgotten'
      BY <2>1 DEF Life, Forgotten
    <2> QED  BY <2>2, <2>3, <2>4
  <1>7. Announced'
    <2>1. ASSUME NEW v \in alive, ConnectWaits(v)
          PROVE  ConnectWaits(v)'
      <3>1. PICK i \in 1..Len(events) : events[i].type = "CONNECT" /\ events[i].client = v
        BY <2>1 DEF ConnectWaits
      <3>2. i # 1 /\ i - 1 \in 1..Len(events') /\ events'[i - 1] = events[i]
        BY <1>1, <3>1
      <3> QED  BY <3>1, <3>2 DEF ConnectWaits
    <2> QED  BY <1>4, <2>1 DEF Life, Announced
  <1> QED  BY <1>2, <1>3, <1>5, <1>6, <1>7 DEF Life

LEMMA HandleReceiveKeepsIInv ==
  ASSUME IInv, HandleReceive
  PROVE  IInv'
  <1> USE DEF IInv
  <1>0. /\ NextEvent("RECEIVE") /\ EventHandled
        /\ UNCHANGED <<peerState, incoming, dispatch, received, peerData, peerMap,
                       next_uid, alive, connected>>
    BY DEF HandleReceive, hostVars, clientVars
  <1>1. /\ Len(events) \in Nat \ {0}
        /\ events' \in Seq(Events) /\ Len(events') = Len(events) - 1
        /\ \A i \in 1..Len(events') : events'[i] = events[i + 1]
        /\ copied' \in 0..Len(events')
        /\ events[1].type = "RECEIVE"
    BY <1>0, PopEvent
  <1>2. Types'
    BY <1>0, <1>1 DEF Types
  <1>3. UidsLeft' /\ Dispatches' /\ PeersHold'
    BY <1>0 DEF UidsLeft, Pending, Dispatches, Life, PeersHold
  <1>4. Allocated' /\ EventOrder' /\ Forgotten'
    <2>1. ASSUME NEW i \in 1..Len(events')
          PROVE  i + 1 \in 1..Len(events) /\ events'[i] = events[i + 1]
      BY <1>1
    <2>2. Allocated'
      BY <1>0, <1>1, <2>1 DEF Life, Allocated
    <2>3. EventOrder'
      <3>1. ASSUME NEW i \in 1..Len(events'), NEW j \in 1..Len(events'), i < j
            PROVE  i + 1 < j + 1 /\ i + 1 \in 1..Len(events) /\ j + 1 \in 1..Len(events)
        BY <2>1, <3>1
      <3> QED  BY <2>1, <3>1 DEF Life, EventOrder
    <2>4. Forgotten'
      BY <1>0, <2>1 DEF Life, Forgotten
    <2> QED  BY <2>2, <2>3, <2>4
  <1>5. Announced'
    <2>1. ASSUME NEW v \in alive, ConnectWaits(v)
          PROVE  ConnectWaits(v)'
      <3>1. PICK i \in 1..Len(events) : events[i].type = "CONNECT" /\ events[i].client = v
        BY <2>1 DEF ConnectWaits
      <3>2. i # 1 /\ i - 1 \in 1..Len(events') /\ events'[i - 1] = events[i]
        BY <1>1, <3>1
      <3> QED  BY <3>1, <3>2 DEF ConnectWaits
    <2> QED  BY <1>0, <2>1 DEF Life, Announced
  <1> QED  BY <1>2, <1>3, <1>4, <1>5 DEF Life

(* The steps that leave the peers, the clients and the events alone. *)
LEMMA QuietStepKeepsIInv ==
  ASSUME IInv,
         \/ EndService \/ EndDispatch \/ SendQueuedPackets
         \/ EndFlush \/ CopyEvents \/ ConsumeDone \/ UNCHANGED vars
         \/ \E u \in Uids : FlushNext(u)
  PROVE  IInv'
  <1>1. UNCHANGED <<peerState, incoming, dispatch, received, peerData, peerMap, next_uid,
                    events, alive, connected>>
    BY DEF EndService, EndDispatch, SendQueuedPackets, EndFlush, FlushNext, CopyEvents, ConsumeDone,
           vars, hostVars, clientVars, eventVars
  <1>2. copied' \in {copied, Len(events)}
    BY DEF EndService, EndDispatch, SendQueuedPackets, EndFlush, FlushNext, CopyEvents, ConsumeDone,
           vars, eventVars
  <1>3. Types'
    BY <1>1, <1>2 DEF IInv, Types
  <1>4. UidsLeft' /\ Dispatches'
    BY <1>1 DEF IInv, UidsLeft, Pending, Dispatches
  <1>5. Life'
    BY <1>1 DEF IInv, Life, PeersHold, Allocated, EventOrder, Forgotten, Announced,
                ConnectWaits
  <1> QED  BY <1>3, <1>4, <1>5 DEF IInv

-----------------------------------------------------------------------------
(* The theorems.                                                               *)

LEMMA InitIInv == Init => IInv
  <1> SUFFICES ASSUME Init PROVE IInv
    OBVIOUS
  <1> USE BoundsAssumption DEF Init
  <1>1. Types
    BY DEF Types
  <1>2. UidsLeft
    <2>1. Pending = {}
      BY DEF Pending
    <2> QED  BY <2>1, FS_EmptySet DEF UidsLeft
  <1>3. Dispatches /\ Life
    BY DEF Dispatches, Life, PeersHold, Allocated, EventOrder, Forgotten, Announced,
           ConnectWaits
  <1> QED  BY <1>1, <1>2, <1>3 DEF IInv

(* The life of the client objects, over every step of the relay: each is          *)
(* allocated, announced, known to its peer and forgotten in this order.        *)
THEOREM Invariant == Spec => []IInv
  <1>1. IInv /\ [Next]_vars => IInv'
    <2> SUFFICES ASSUME IInv, [Next]_vars PROVE IInv'
      OBVIOUS
    <2>1. CASE Network
      BY <2>1, NetConnectKeepsIInv, NetReceiveKeepsIInv, NetDisconnectKeepsIInv
      DEF Network
    <2>2. CASE DispatchConnect
      BY <2>2, DispatchConnectKeepsIInv
    <2>3. CASE DispatchReceive
      BY <2>3, DispatchReceiveKeepsIInv
    <2>4. CASE DispatchDisconnect
      BY <2>4, DispatchDisconnectKeepsIInv
    <2>5. CASE HandleConnect
      BY <2>5, HandleConnectKeepsIInv
    <2>6. CASE HandleDisconnect
      BY <2>6, HandleDisconnectKeepsIInv
    <2>7. CASE HandleReceive
      BY <2>7, HandleReceiveKeepsIInv
    <2>8. CASE \/ EndService \/ EndDispatch \/ SendQueuedPackets
               \/ EndFlush \/ CopyEvents \/ ConsumeDone \/ UNCHANGED vars
               \/ \E u \in Uids : FlushNext(u)
      BY <2>8, QuietStepKeepsIInv
    <2> QED  BY <2>1, <2>2, <2>3, <2>4, <2>5, <2>6, <2>7, <2>8
             DEF Next, Worker, ServerThread
  <1> QED  BY <1>1, InitIInv, PTL DEF Spec

(* The server thread deletes no client object that is still referred to. *)
THEOREM NothingUsedAfterFree == Spec => []NoUseAfterFree
  <1>1. IInv => NoUseAfterFree
    BY DEF IInv, Life, PeersHold, Allocated, NoUseAfterFree
  <1> QED  BY <1>1, Invariant, PTL

(* enetpp's assertions hold, whatever the order of connects and disconnects. *)
THEOREM AssertionsOfEnetpp == Spec => []AssertionsHold
  <1>1. ASSUME IInv, NextEvent("DISCONNECT") PROVE Head(events).client \in connected
    <2> DEFINE u == Head(events).client
    <2>1. Len(events) \in Nat \ {0} /\ events[1] = Head(events)
      BY <1>1, TailOne DEF IInv, Types, NextEvent
    <2>2. u \in alive
      BY <2>1, <1>1 DEF IInv, Life, Allocated
    <2>3. ~ConnectWaits(u)
      BY <2>1, <1>1 DEF IInv, Life, EventOrder, ConnectWaits, NextEvent
    <2> QED  BY <1>1, <2>2, <2>3 DEF IInv, Life, Announced
  <1>2. IInv => AssertionsHold
    BY <1>1 DEF IInv, Life, PeersHold, AssertionsHold
  <1> QED  BY <1>2, Invariant, PTL

(* No packet that ENet has received is thrown away for want of a client. *)
THEOREM NothingDiscarded == Spec => []NoPacketDiscarded
  <1>1. IInv => NoPacketDiscarded
    BY DEF IInv, Types, Life, PeersHold, NoPacketDiscarded
  <1> QED  BY <1>1, Invariant, PTL

-----------------------------------------------------------------------------
(* The pipeline: the inductive invariant of the packets.                       *)

(* Packets of one sender are in the order of their arrival, in one sequence    *)
(* and from one to the next.                                                   *)
Sorted(s) == \A j, k \in 1..Len(s) :
    j < k /\ s[j].from = s[k].from /\ s[j].from # NoUid => s[j].id < s[k].id
Before(s, t) == \A j \in 1..Len(s), k \in 1..Len(t) :
    s[j].from = t[k].from /\ s[j].from # NoUid => s[j].id < t[k].id

(* The packets that the events carry. *)
Carried(evs) == [i \in 1..Len(evs) |-> evs[i].packet]

(* The types of the rest. *)
PipeTypes ==
    /\ wpc \in {"send", "service", "dispatch"}
    /\ spc \in {"flush", "consume", "handle"} /\ is_host \in BOOLEAN
    /\ queue \in [Uids -> Seq(Packets)]
    /\ packetQueue \in [Uids -> Seq(Packets)]
    /\ wire \in [Uids -> Seq(Packets)]
    /\ dropped \subseteq Uids \X Packets
    /\ missed \in [Uids -> SUBSET (1..received)]

(* What is tagged with its sender, and numbered. *)
Tagged ==
    /\ \A p \in Peers : \A k \in 1..Len(incoming[p]) :
          incoming[p][k].from = peerData[p] /\ incoming[p][k].id \in 1..received
    /\ \A i \in 1..Len(events) :
          IF events[i].type = "RECEIVE"
          THEN events[i].packet.from = events[i].client /\ events[i].packet.id \in 1..received
          ELSE events[i].packet = NoPacket

Source == /\ Sorted(Carried(events))
          /\ \A p \in Peers : Sorted(incoming[p]) /\ Before(Carried(events), incoming[p])

(* The packets on their way to a client ... *)
OnTheWay(s, u) ==
    /\ Sorted(s) /\ Before(s, Carried(events)) /\ \A p \in Peers : Before(s, incoming[p])
    /\ \A k \in 1..Len(s) : s[k].from # u /\ s[k].id \notin missed[u] /\ s[k].id <= received
    /\ s # <<>> => u < next_uid

Lines == \A u \in Uids :
    /\ OnTheWay(wire[u], u) /\ OnTheWay(packetQueue[u], u) /\ OnTheWay(queue[u], u)
    /\ Before(wire[u], packetQueue[u]) /\ Before(wire[u], queue[u])
    /\ Before(packetQueue[u], queue[u])

Welcomed(u, i) == u \in connected
                  \/ \E k \in 1..Len(events) : k < i /\ events[k].type = "CONNECT"
                                               /\ events[k].client = u
Shown == \A u \in Uids :
    /\ \A p \in Peers : \A k \in 1..Len(incoming[p]) : incoming[p][k].id \notin missed[u]
    /\ \A i \in 1..Len(events) : events[i].type = "RECEIVE" /\ Welcomed(u, i)
          => events[i].packet.id \notin missed[u]
    /\ u >= next_uid => missed[u] = {}

Gone == \A d \in dropped : d[1] < next_uid /\ \A p \in Peers : peerData[p] # d[1]

Departing == /\ \A p \in Peers : peerState[p] = "zombie" => p \in Range(dispatch)
             /\ wpc = "send" => dispatch = <<>>

Pipeline == PipeTypes /\ Tagged /\ Source /\ Lines /\ Shown /\ Gone /\ Departing

-----------------------------------------------------------------------------
(* Packets in order.                                                           *)

LEMMA Concat ==
  ASSUME NEW S, NEW s \in Seq(S), NEW t \in Seq(S)
  PROVE  /\ s \o t \in Seq(S)
         /\ \A i \in 1..Len(s \o t) :
               \/ i \in 1..Len(s) /\ (s \o t)[i] = s[i]
               \/ /\ i > Len(s) /\ i - Len(s) \in 1..Len(t)
                  /\ (s \o t)[i] = t[i - Len(s)]
         /\ Len(s) \in Nat /\ Len(t) \in Nat /\ Len(s \o t) = Len(s) + Len(t)
  OBVIOUS

LEMMA SortedConcat ==
  ASSUME NEW S, NEW s \in Seq(S), NEW t \in Seq(S), Sorted(s), Sorted(t), Before(s, t)
  PROVE  Sorted(s \o t)
  <1> SUFFICES ASSUME NEW j \in 1..Len(s \o t), NEW k \in 1..Len(s \o t), j < k,
                      (s \o t)[j].from = (s \o t)[k].from, (s \o t)[j].from # NoUid
               PROVE  (s \o t)[j].id < (s \o t)[k].id
    BY DEF Sorted
  <1>0. /\ j \in Nat /\ k \in Nat /\ Len(s) \in Nat
        /\ \/ j \in 1..Len(s) /\ (s \o t)[j] = s[j]
           \/ j > Len(s) /\ j - Len(s) \in 1..Len(t) /\ (s \o t)[j] = t[j - Len(s)]
        /\ \/ k \in 1..Len(s) /\ (s \o t)[k] = s[k]
           \/ k > Len(s) /\ k - Len(s) \in 1..Len(t) /\ (s \o t)[k] = t[k - Len(s)]
    BY Concat
  <1>1. CASE k \in 1..Len(s) /\ (s \o t)[k] = s[k]
    <2>1. j \in 1..Len(s) /\ (s \o t)[j] = s[j]
      BY <1>0, <1>1
    <2> QED  BY <1>1, <2>1 DEF Sorted
  <1>2. CASE k > Len(s) /\ k - Len(s) \in 1..Len(t) /\ (s \o t)[k] = t[k - Len(s)]
    <2>1. CASE j \in 1..Len(s) /\ (s \o t)[j] = s[j]
      BY <1>2, <2>1 DEF Before
    <2>2. CASE j > Len(s) /\ j - Len(s) \in 1..Len(t) /\ (s \o t)[j] = t[j - Len(s)]
      <3>1. j - Len(s) < k - Len(s)
        BY <1>0
      <3> QED  BY <1>2, <2>2, <3>1 DEF Sorted
    <2> QED  BY <1>0, <2>1, <2>2
  <1> QED  BY <1>0, <1>1, <1>2

LEMMA BeforeConcat ==
  ASSUME NEW S, NEW s \in Seq(S), NEW t \in Seq(S), NEW r
  PROVE  /\ Before(s, r) /\ Before(t, r) => Before(s \o t, r)
         /\ Before(r, s) /\ Before(r, t) => Before(r, s \o t)
  <1>0. \A i \in 1..Len(s \o t) :
           \/ i \in 1..Len(s) /\ (s \o t)[i] = s[i]
           \/ i - Len(s) \in 1..Len(t) /\ (s \o t)[i] = t[i - Len(s)]
    BY Concat
  <1>1. ASSUME Before(s, r), Before(t, r) PROVE Before(s \o t, r)
    BY <1>0, <1>1 DEF Before
  <1>2. ASSUME Before(r, s), Before(r, t) PROVE Before(r, s \o t)
    BY <1>0, <1>2 DEF Before
  <1> QED  BY <1>1, <1>2

(* One more packet behind, and the first one taken. *)
LEMMA SortedAppend ==
  ASSUME NEW S, NEW s \in Seq(S), NEW x \in S, Sorted(s),
         \A j \in 1..Len(s) : s[j].from = x.from /\ s[j].from # NoUid => s[j].id < x.id
  PROVE  Sorted(Append(s, x))
  <1>1. /\ Len(Append(s, x)) = Len(s) + 1 /\ Len(s) \in Nat
        /\ \A i \in 1..Len(s) : Append(s, x)[i] = s[i]
        /\ Append(s, x)[Len(s) + 1] = x
    BY AppendOne
  <1> SUFFICES ASSUME NEW j \in 1..Len(s) + 1, NEW k \in 1..Len(s) + 1, j < k,
                      Append(s, x)[j].from = Append(s, x)[k].from,
                      Append(s, x)[j].from # NoUid
               PROVE  Append(s, x)[j].id < Append(s, x)[k].id
    BY <1>1 DEF Sorted
  <1>2. j \in 1..Len(s)
    BY <1>1
  <1>3. CASE k \in 1..Len(s)
    BY <1>1, <1>2, <1>3 DEF Sorted
  <1>4. CASE k = Len(s) + 1
    BY <1>1, <1>2, <1>4
  <1> QED  BY <1>1, <1>3, <1>4

LEMMA BeforeAppend ==
  ASSUME NEW S, NEW s \in Seq(S), NEW x \in S, NEW r
  PROVE  /\ /\ Before(s, r)
            /\ \A k \in 1..Len(r) : x.from = r[k].from /\ x.from # NoUid => x.id < r[k].id
            => Before(Append(s, x), r)
         /\ /\ Before(r, s)
            /\ \A k \in 1..Len(r) : r[k].from = x.from /\ r[k].from # NoUid => r[k].id < x.id
            => Before(r, Append(s, x))
  <1>1. /\ Len(Append(s, x)) = Len(s) + 1 /\ Len(s) \in Nat
        /\ \A i \in 1..Len(s) : Append(s, x)[i] = s[i]
        /\ Append(s, x)[Len(s) + 1] = x
    BY AppendOne
  <1>2. \A i \in 1..Len(Append(s, x)) : i \in 1..Len(s) \/ i = Len(s) + 1
    BY <1>1
  <1> HIDE DEF Before
  <1>3. ASSUME Before(s, r),
               \A k \in 1..Len(r) : x.from = r[k].from /\ x.from # NoUid => x.id < r[k].id
        PROVE  Before(Append(s, x), r)
    BY <1>1, <1>2, <1>3 DEF Before
  <1>4. ASSUME Before(r, s),
               \A k \in 1..Len(r) : r[k].from = x.from /\ r[k].from # NoUid => r[k].id < x.id
        PROVE  Before(r, Append(s, x))
    BY <1>1, <1>2, <1>4 DEF Before
  <1> QED  BY <1>3, <1>4

LEMMA TailSorted ==
  ASSUME NEW S, NEW s \in Seq(S), s # <<>>, Sorted(s)
  PROVE  /\ Sorted(Tail(s))
         /\ \A k \in 1..Len(Tail(s)) :
               s[1].from = Tail(s)[k].from /\ s[1].from # NoUid => s[1].id < Tail(s)[k].id
  <1>1. \A k \in 1..Len(Tail(s)) : /\ Tail(s)[k] = s[k + 1] /\ k + 1 \in 1..Len(s)
                                   /\ 1 \in 1..Len(s) /\ 1 < k + 1
    BY TailOne
  <1>2. \A j, k \in 1..Len(Tail(s)) : j < k => j + 1 < k + 1
    OBVIOUS
  <1> QED  BY <1>1, <1>2 DEF Sorted

LEMMA TailBefore ==
  ASSUME NEW S, NEW s \in Seq(S), s # <<>>, NEW r
  PROVE  /\ Before(s, r) => Before(Tail(s), r)
         /\ Before(r, s) => Before(r, Tail(s))
  <1>1. \A k \in 1..Len(Tail(s)) : Tail(s)[k] = s[k + 1] /\ k + 1 \in 1..Len(s)
    BY TailOne
  <1> QED  BY <1>1 DEF Before

LEMMA NothingBefore == \A r : Before(r, <<>>) /\ Before(<<>>, r) /\ Sorted(<<>>)
  BY DEF Before, Sorted

(* What the events carry, when one is added and when the first is handled. *)
LEMMA CarriedSeq ==
  ASSUME NEW evs \in Seq(Events)
  PROVE  /\ Carried(evs) \in Seq(Messages) /\ Len(Carried(evs)) = Len(evs)
         /\ \A i \in 1..Len(evs) : Carried(evs)[i] = evs[i].packet
  <1>0. Len(evs) \in Nat /\ \A i \in 1..Len(evs) : evs[i] \in Events
    OBVIOUS
  <1>1. Len(evs) \in Nat /\ \A i \in 1..Len(evs) : evs[i].packet \in Messages
    BY <1>0 DEF Events
  <1>2. Carried(evs) \in [1..Len(evs) -> Messages] /\ DOMAIN Carried(evs) = 1..Len(evs)
    BY <1>1 DEF Carried
  <1>3. \A i \in 1..Len(evs) : Carried(evs)[i] = evs[i].packet
    BY DEF Carried
  <1>4. Carried(evs) \in Seq(Messages)
    BY <1>1, <1>2, SeqDef
  <1> QED  BY <1>1, <1>2, <1>3, <1>4

LEMMA CarriedAppend ==
  ASSUME NEW evs \in Seq(Events), NEW e \in Events
  PROVE  Carried(Append(evs, e)) = Append(Carried(evs), e.packet)
  <1>1. /\ Append(evs, e) \in Seq(Events) /\ Len(Append(evs, e)) = Len(evs) + 1
        /\ Len(evs) \in Nat /\ \A i \in 1..Len(evs) : Append(evs, e)[i] = evs[i]
        /\ Append(evs, e)[Len(evs) + 1] = e
    BY AppendOne
  <1>2. e.packet \in Messages
    BY DEF Events
  <1>3. /\ Carried(evs) \in Seq(Messages) /\ Len(Carried(evs)) = Len(evs)
        /\ \A i \in 1..Len(evs) : Carried(evs)[i] = evs[i].packet
    BY CarriedSeq
  <1>4. /\ Carried(Append(evs, e)) \in Seq(Messages)
        /\ Len(Carried(Append(evs, e))) = Len(evs) + 1
        /\ \A i \in 1..Len(evs) + 1 : Carried(Append(evs, e))[i] = Append(evs, e)[i].packet
    BY <1>1, CarriedSeq
  <1>5. /\ Append(Carried(evs), e.packet) \in Seq(Messages)
        /\ Len(Append(Carried(evs), e.packet)) = Len(evs) + 1
        /\ \A i \in 1..Len(evs) : Append(Carried(evs), e.packet)[i] = Carried(evs)[i]
        /\ Append(Carried(evs), e.packet)[Len(evs) + 1] = e.packet
    BY <1>2, <1>3, AppendOne
  <1>6. \A i \in 1..Len(evs) + 1 :
           Carried(Append(evs, e))[i] = Append(Carried(evs), e.packet)[i]
    BY <1>1, <1>3, <1>4, <1>5
  <1> QED  BY <1>4, <1>5, <1>6, SeqEqual

LEMMA CarriedTail ==
  ASSUME NEW evs \in Seq(Events), evs # <<>>
  PROVE  /\ Carried(Tail(evs)) = Tail(Carried(evs)) /\ Carried(evs) # <<>>
         /\ Carried(evs)[1] = evs[1].packet
  <1>1. /\ Tail(evs) \in Seq(Events) /\ Len(Tail(evs)) = Len(evs) - 1
        /\ Len(evs) \in Nat \ {0} /\ \A i \in 1..(Len(evs) - 1) : Tail(evs)[i] = evs[i + 1]
    BY TailOne
  <1>2. /\ Carried(evs) \in Seq(Messages) /\ Len(Carried(evs)) = Len(evs)
        /\ \A i \in 1..Len(evs) : Carried(evs)[i] = evs[i].packet
    BY CarriedSeq
  <1>3. /\ Carried(Tail(evs)) \in Seq(Messages) /\ Len(Carried(Tail(evs))) = Len(evs) - 1
        /\ \A i \in 1..Len(evs) - 1 : Carried(Tail(evs))[i] = Tail(evs)[i].packet
    BY <1>1, CarriedSeq
  <1>4. Carried(evs) # <<>> /\ Carried(evs)[1] = evs[1].packet
    BY <1>1, <1>2
  <1>5. /\ Tail(Carried(evs)) \in Seq(Messages) /\ Len(Tail(Carried(evs))) = Len(evs) - 1
        /\ \A i \in 1..(Len(evs) - 1) : Tail(Carried(evs))[i] = Carried(evs)[i + 1]
    BY <1>2, <1>4, TailOne
  <1>6. \A i \in 1..Len(evs) - 1 : Carried(Tail(evs))[i] = Tail(Carried(evs))[i]
    BY <1>1, <1>2, <1>3, <1>5
  <1> QED  BY <1>3, <1>4, <1>5, <1>6, SeqEqual

-----------------------------------------------------------------------------
(* Every step keeps the pipeline: the network.                                 *)

LEMMA CarriedNumbered ==
  ASSUME Types, Tagged
  PROVE  /\ Carried(events) \in Seq(Messages) /\ Len(Carried(events)) = Len(events)
         /\ \A i \in 1..Len(Carried(events)) :
               Carried(events)[i].from # NoUid => Carried(events)[i].id \in 1..received
  <1>1. events \in Seq(Events)
    BY DEF Types
  <1>2. /\ Carried(events) \in Seq(Messages) /\ Len(Carried(events)) = Len(events)
        /\ \A i \in 1..Len(events) : Carried(events)[i] = events[i].packet
    BY <1>1, CarriedSeq
  <1>3. \A i \in 1..Len(events) :
           events[i].packet.from # NoUid => events[i].packet.id \in 1..received
    BY DEF Tagged, NoPacket
  <1> QED  BY <1>2, <1>3

LEMMA DispatchGrows ==
  ASSUME Types, NEW p \in Peers, dispatch' = WithDispatch(p)
  PROVE  Range(dispatch) \subseteq Range(dispatch') /\ p \in Range(dispatch')
  <1>1. CASE p \in Range(dispatch)
    BY <1>1 DEF WithDispatch
  <1>2. CASE p \notin Range(dispatch)
    <2>1. dispatch' = Append(dispatch, p) /\ dispatch \in Seq(Peers)
      BY <1>2 DEF WithDispatch, Types
    <2>2. /\ DOMAIN dispatch = 1..Len(dispatch) /\ DOMAIN dispatch' = 1..Len(dispatch) + 1
          /\ Len(dispatch) \in Nat
          /\ \A i \in 1..Len(dispatch) : dispatch'[i] = dispatch[i]
          /\ dispatch'[Len(dispatch) + 1] = p
      BY <2>1
    <2> QED  BY <2>2 DEF Range
  <1> QED  BY <1>1, <1>2

LEMMA NetConnectKeepsPipeline ==
  ASSUME IInv, Pipeline, NEW p \in Peers, NetConnect(p)
  PROVE  Pipeline'
  <1> USE DEF NetConnect, clientVars, eventVars, historyVars
  <1>1. PipeTypes' /\ Tagged' /\ Source' /\ Lines' /\ Shown' /\ Gone'
    BY DEF Pipeline, PipeTypes, Tagged, Source, Lines, OnTheWay, Shown, Welcomed, Gone
  <1>2. Departing'
    BY DispatchGrows DEF IInv, Types, Pipeline, Departing
  <1> QED  BY <1>1, <1>2 DEF Pipeline

LEMMA NetDisconnectKeepsPipeline ==
  ASSUME IInv, Pipeline, NEW p \in Peers, NetDisconnect(p)
  PROVE  Pipeline'
  <1> USE DEF NetDisconnect, clientVars, eventVars, historyVars
  <1>1. PipeTypes' /\ Tagged' /\ Source' /\ Lines' /\ Shown' /\ Gone'
    BY DEF Pipeline, PipeTypes, Tagged, Source, Lines, OnTheWay, Shown, Welcomed, Gone
  <1>2. Departing'
    BY DispatchGrows DEF IInv, Types, Pipeline, Departing
  <1> QED  BY <1>1, <1>2 DEF Pipeline

LEMMA NetReceiveKeepsPipeline ==
  ASSUME IInv, Pipeline, NEW p \in Peers, NetReceive(p)
  PROVE  Pipeline'
  <1> DEFINE m == [from |-> peerData[p], id |-> received + 1]
  <1>0. /\ wpc = "service" /\ peerState[p] = "connected" /\ received < MaxPackets
        /\ received' = received + 1 /\ dispatch' = WithDispatch(p)
        /\ incoming' = [incoming EXCEPT ![p] = Append(@, m)]
        /\ UNCHANGED <<peerState, peerData, peerMap, next_uid, wpc, events, copied, alive,
                       connected, queue, packetQueue, spc, is_host, wire, dropped, missed>>
    BY DEF NetReceive, clientVars, eventVars, historyVars
  <1>1. received \in Nat /\ m \in Messages /\ m.from = peerData[p] /\ m.id = received + 1
    BY <1>0, BoundsAssumption DEF IInv, Types, Messages
  <1> HIDE DEF m
  <1>2. /\ incoming[p] \in Seq(Messages) /\ incoming'[p] = Append(incoming[p], m)
        /\ \A q \in Peers \ {p} : incoming'[q] = incoming[q]
    BY <1>0 DEF IInv, Types
  <1>3. /\ Len(incoming'[p]) = Len(incoming[p]) + 1 /\ Len(incoming[p]) \in Nat
        /\ \A k \in 1..Len(incoming[p]) : incoming'[p][k] = incoming[p][k]
        /\ incoming'[p][Len(incoming[p]) + 1] = m
    BY <1>1, <1>2, AppendOne
  <1>4. PipeTypes'
    <2>1. 1..received \subseteq 1..received'
      BY <1>0, <1>1
    <2> QED  BY <1>0, <2>1 DEF Pipeline, PipeTypes
  <1>5. Tagged'
    <2>1. ASSUME NEW q \in Peers, NEW k \in 1..Len(incoming'[q])
          PROVE  incoming'[q][k].from = peerData'[q] /\ incoming'[q][k].id \in 1..received'
      <3>1. CASE q = p /\ k = Len(incoming[p]) + 1
        BY <1>0, <1>1, <1>3, <3>1
      <3>2. CASE q = p /\ k # Len(incoming[p]) + 1
        <4>1. k \in 1..Len(incoming[p])
          BY <1>3, <3>2
        <4>2. incoming[p][k].from = peerData[p] /\ incoming[p][k].id \in 1..received
          BY <4>1 DEF Pipeline, Tagged
        <4> QED  BY <1>0, <1>1, <1>3, <3>2, <4>1, <4>2
      <3>3. CASE q # p
        BY <1>0, <1>1, <1>2, <3>3 DEF Pipeline, Tagged
      <3> QED  BY <3>1, <3>2, <3>3
    <2>2. \A i \in 1..Len(events) : events[i].type = "RECEIVE"
             => events[i].packet.id \in 1..received'
      BY <1>0, <1>1 DEF Pipeline, Tagged
    <2> QED  BY <1>0, <2>1, <2>2 DEF Pipeline, Tagged
  <1>6. Source'
    <2>1. Sorted(incoming'[p])
      <3>1. \A j \in 1..Len(incoming[p]) : incoming[p][j].id < m.id
        BY <1>1 DEF Pipeline, Tagged
      <3>2. Sorted(incoming[p])
        BY DEF Pipeline, Source
      <3> QED  BY <1>1, <1>2, <3>1, <3>2, SortedAppend
    <2>2. Before(Carried(events), incoming'[p])
      <3>1. \A i \in 1..Len(Carried(events)) :
               Carried(events)[i].from # NoUid => Carried(events)[i].id < m.id
        BY <1>1, CarriedNumbered DEF IInv, Pipeline
      <3>2. Before(Carried(events), incoming[p])
        BY DEF Pipeline, Source
      <3> QED  BY <1>1, <1>2, <3>1, <3>2, BeforeAppend
    <2> QED  BY <1>0, <1>2, <2>1, <2>2 DEF Pipeline, Source
  <1>7. Lines'
    <2>1. ASSUME NEW u \in Uids, NEW s \in Seq(Packets), OnTheWay(s, u)
          PROVE  /\ \A q \in Peers : Before(s, incoming'[q])
                 /\ \A k \in 1..Len(s) : s[k].id <= received'
      <3>1. \A k \in 1..Len(s) : s[k].id \in Nat /\ s[k].id <= received
        <4>1. \A k \in 1..Len(s) : s[k] \in Packets
          OBVIOUS
        <4> QED  BY <2>1, <4>1 DEF Packets, OnTheWay
      <3>2. Before(s, incoming'[p])
        <4>1. Before(s, incoming[p])
          BY <2>1 DEF OnTheWay
        <4>2. \A k \in 1..Len(s) : s[k].id < m.id
          BY <1>1, <3>1
        <4> QED  BY <1>1, <1>2, <4>1, <4>2, BeforeAppend
      <3>3. \A q \in Peers \ {p} : Before(s, incoming'[q])
        BY <1>2, <2>1 DEF OnTheWay
      <3> QED  BY <1>0, <1>1, <3>1, <3>2, <3>3
    <2>2. ASSUME NEW u \in Uids
          PROVE  wire[u] \in Seq(Packets) /\ packetQueue[u] \in Seq(Packets)
                 /\ queue[u] \in Seq(Packets)
      BY DEF Pipeline, PipeTypes
    <2> QED  BY <1>0, <2>1, <2>2 DEF Pipeline, Lines, OnTheWay
  <1>8. Shown'
    <2>1. ASSUME NEW u \in Uids, NEW q \in Peers, NEW k \in 1..Len(incoming'[q])
          PROVE  incoming'[q][k].id \notin missed[u]
      <3>1. CASE q = p /\ k = Len(incoming[p]) + 1
        <4>1. missed[u] \subseteq 1..received
          BY DEF Pipeline, PipeTypes
        <4> QED  BY <1>1, <1>3, <3>1, <4>1
      <3>2. CASE q = p /\ k # Len(incoming[p]) + 1
        <4>1. k \in 1..Len(incoming[p])
          BY <1>3, <3>2
        <4> QED  BY <1>3, <3>2, <4>1 DEF Pipeline, Shown
      <3>3. CASE q # p
        BY <1>2, <3>3 DEF Pipeline, Shown
      <3> QED  BY <3>1, <3>2, <3>3
    <2> QED  BY <1>0, <2>1 DEF Pipeline, Shown, Welcomed
  <1>9. Gone' /\ Departing'
    BY <1>0, DispatchGrows DEF IInv, Pipeline, Gone, Departing
  <1> QED  BY <1>4, <1>5, <1>6, <1>7, <1>8, <1>9 DEF Pipeline
-----------------------------------------------------------------------------
(* The worker.                                                                 *)

(* Who is left in the dispatch queue when its first is taken. *)
LEMMA DispatchShrinks ==
  ASSUME Types, Dispatches, dispatch # <<>>
  PROVE  \A q \in Range(dispatch) \ {Head(dispatch)} : q \in Range(Tail(dispatch))
  <1>1. /\ Tail(dispatch) \in Seq(Peers) /\ dispatch[1] = Head(dispatch)
        /\ Len(Tail(dispatch)) = Len(dispatch) - 1 /\ Len(dispatch) \in Nat \ {0}
        /\ \A i \in 1..Len(Tail(dispatch)) : Tail(dispatch)[i] = dispatch[i + 1]
    BY PopDispatch
  <1>2. DOMAIN dispatch = 1..Len(dispatch) /\ DOMAIN Tail(dispatch) = 1..Len(Tail(dispatch))
    BY <1>1 DEF Types
  <1> SUFFICES ASSUME NEW q \in Range(dispatch), q # dispatch[1]
               PROVE  q \in Range(Tail(dispatch))
    BY <1>1
  <1>3. PICK i \in 1..Len(dispatch) : dispatch[i] = q
    BY <1>2 DEF Range
  <1>4. i - 1 \in 1..Len(Tail(dispatch)) /\ Tail(dispatch)[i - 1] = q
    BY <1>1, <1>3
  <1> QED  BY <1>2, <1>4 DEF Range

LEMMA DispatchConnectKeepsPipeline ==
  ASSUME IInv, Pipeline, DispatchConnect
  PROVE  Pipeline'
  <1> DEFINE p == Head(dispatch)
             u == next_uid
             e == Event("CONNECT", u, NoPacket)
             lost == {n \in 1..received : \A q \in Peers : \A k \in 1..Len(incoming[q]) :
                                              incoming[q][k].id # n}
  <1>1. /\ wpc = "dispatch" /\ dispatch # <<>> /\ dispatch' = Tail(dispatch)
        /\ peerState[p] = "pending"
        /\ peerState' = [peerState EXCEPT ![p] = "connected"]
        /\ next_uid' = u + 1 /\ peerData' = [peerData EXCEPT ![p] = u]
        /\ alive' = alive \union {u} /\ events' = Append(events, e)
        /\ missed' = [missed EXCEPT ![u] = lost]
        /\ UNCHANGED <<incoming, received, wpc, copied, connected, queue, packetQueue,
                       spc, is_host, wire, dropped>>
    BY DEF DispatchConnect, InitializeClient
  <1>2. p \in Peers
    BY <1>1, PopDispatch DEF IInv
  <1>3. u \in Uids /\ u \notin alive /\ u \in Nat
    <2>1. p \in Pending /\ Cardinality(Pending \ {p}) = Cardinality(Pending) - 1
          /\ Cardinality(Pending) \in Nat /\ Cardinality(Pending \ {p}) \in Nat
      BY <1>1, <1>2, PendingFinite, FS_RemoveElement, FS_CardinalityType DEF IInv, Pending
    <2> QED  BY <2>1, BoundsAssumption DEF IInv, UidsLeft, Types, Uids, Life, Allocated
  <1>4. e \in Events /\ e.type = "CONNECT" /\ e.client = u /\ e.packet = NoPacket
        /\ NoPacket.from = NoUid
    <2>1. NoPacket \in Messages
      BY BoundsAssumption DEF NoPacket, Messages
    <2> QED  BY <1>3, <2>1, EventTypes DEF IInv, Event, NoPacket
  <1>5. lost \subseteq 1..received
        /\ \A q \in Peers : \A k \in 1..Len(incoming[q]) : incoming[q][k].id \notin lost
    OBVIOUS
  <1> HIDE DEF p, u, e, lost
  <1>6. /\ Len(events') = Len(events) + 1 /\ Len(events) \in Nat
        /\ \A i \in 1..Len(events) : events'[i] = events[i]
        /\ events'[Len(events) + 1] = e
        /\ \A i \in 1..Len(events') : i \in 1..Len(events) \/ i = Len(events) + 1
    BY <1>1, <1>4, AppendOne DEF IInv, Types
  <1>7. /\ Carried(events) \in Seq(Messages) /\ NoPacket \in Messages
        /\ Carried(events') = Append(Carried(events), NoPacket)
    BY <1>1, <1>4, CarriedSeq, CarriedAppend DEF IInv, Types, Events
  <1>8. /\ missed'[u] = lost /\ \A v \in Uids \ {u} : missed'[v] = missed[v]
        /\ \A q \in Peers \ {p} : peerData'[q] = peerData[q]
        /\ peerData'[p] = u /\ incoming[p] = <<>>
    BY <1>1, <1>2, <1>3 DEF IInv, Types, Life, PeersHold, Pipeline, PipeTypes
  <1>9. PipeTypes'
    BY <1>1, <1>3, <1>5 DEF Pipeline, PipeTypes
  <1>10. Tagged'
    <2>1. \A q \in Peers : \A k \in 1..Len(incoming[q]) :
             incoming[q][k].from = peerData'[q] /\ incoming[q][k].id \in 1..received
      BY <1>8 DEF Pipeline, Tagged
    <2>2. \A i \in 1..Len(events') :
             IF events'[i].type = "RECEIVE"
             THEN events'[i].packet.from = events'[i].client
                  /\ events'[i].packet.id \in 1..received
             ELSE events'[i].packet = NoPacket
      BY <1>4, <1>6 DEF Pipeline, Tagged
    <2> QED  BY <1>1, <2>1, <2>2 DEF Tagged
  <1>11. Sorted(Carried(events')) /\ \A q \in Peers : Before(Carried(events'), incoming[q])
    <2>1. Sorted(Carried(events))
          /\ \A q \in Peers : Before(Carried(events), incoming[q])
      BY DEF Pipeline, Source
    <2>2. Sorted(Carried(events'))
      BY <1>4, <1>7, <2>1, SortedAppend
    <2>3. ASSUME NEW q \in Peers PROVE Before(Carried(events'), incoming[q])
      BY <1>4, <1>7, <2>1, BeforeAppend
    <2> QED  BY <2>2, <2>3
  <1>12. Source'
    BY <1>1, <1>11 DEF Pipeline, Source
  <1>13. Lines'
    <2>1. ASSUME NEW v \in Uids, NEW s \in Seq(Packets), OnTheWay(s, v)
          PROVE  OnTheWay(s, v)'
      <3>1. Before(s, Carried(events'))
        <4>1. Before(s, Carried(events))
          BY <2>1 DEF OnTheWay
        <4>2. \A k \in 1..Len(s) :
                 s[k].from = NoPacket.from /\ s[k].from # NoUid => s[k].id < NoPacket.id
          BY <1>4
        <4> QED  BY <1>7, <4>1, <4>2, BeforeAppend
      <3>2. s # <<>> => v < next_uid' /\ missed'[v] = missed[v]
        <4>1. s # <<>> => v < u /\ v \in Nat
          BY <2>1 DEF OnTheWay, Uids, u
        <4> QED  BY <1>1, <1>3, <1>8, <4>1
      <3>3. \A k \in 1..Len(s) : s[k].id \notin missed'[v]
        <4>1. CASE s = <<>>
          BY <4>1
        <4>2. CASE s # <<>>
          BY <2>1, <3>2, <4>2 DEF OnTheWay
        <4> QED  BY <4>1, <4>2
      <3> QED  BY <1>1, <2>1, <3>1, <3>2, <3>3 DEF OnTheWay
    <2>2. ASSUME NEW v \in Uids
          PROVE  wire[v] \in Seq(Packets) /\ packetQueue[v] \in Seq(Packets)
                 /\ queue[v] \in Seq(Packets)
      BY DEF Pipeline, PipeTypes
    <2>3. ASSUME NEW v \in Uids
          PROVE  /\ OnTheWay(wire[v], v)' /\ OnTheWay(packetQueue[v], v)'
                 /\ OnTheWay(queue[v], v)'
      <3>1. OnTheWay(wire[v], v) /\ OnTheWay(packetQueue[v], v) /\ OnTheWay(queue[v], v)
        BY DEF Pipeline, Lines
      <3>2. OnTheWay(wire[v], v)'
        BY <1>1, <2>1, <2>2, <3>1 DEF OnTheWay
      <3>3. OnTheWay(packetQueue[v], v)'
        BY <1>1, <2>1, <2>2, <3>1 DEF OnTheWay
      <3>4. OnTheWay(queue[v], v)'
        BY <1>1, <2>1, <2>2, <3>1 DEF OnTheWay
      <3> QED  BY <3>2, <3>3, <3>4
    <2> QED  BY <1>1, <2>3 DEF Pipeline, Lines
  <1>14. Shown'
    <2>1. ASSUME NEW v \in Uids, NEW q \in Peers, NEW k \in 1..Len(incoming[q])
          PROVE  incoming[q][k].id \notin missed'[v]
      BY <1>5, <1>8 DEF Pipeline, Shown
    <2>2. ASSUME NEW v \in Uids, NEW i \in 1..Len(events'), events'[i].type = "RECEIVE",
                 Welcomed(v, i)'
          PROVE  events'[i].packet.id \notin missed'[v]
      <3>1. i \in 1..Len(events) /\ events'[i] = events[i]
        BY <1>4, <1>6, <2>2
      <3>2. Welcomed(v, i)
        <4>1. \A k \in 1..Len(events') : k < i => k \in 1..Len(events)
          BY <1>6, <3>1
        <4> QED  BY <1>1, <1>6, <2>2, <4>1 DEF Welcomed
      <3>3. v # u
        BY <1>3, <3>2 DEF IInv, Life, Allocated, Welcomed
      <3> QED  BY <1>8, <2>2, <3>1, <3>2, <3>3 DEF Pipeline, Shown
    <2>3. ASSUME NEW v \in Uids, v >= next_uid' PROVE missed'[v] = {}
      <3>1. v # u /\ v >= next_uid
        BY <1>1, <1>3, <2>3 DEF Uids, u
      <3> QED  BY <1>8, <3>1 DEF Pipeline, Shown
    <2> QED  BY <1>1, <2>1, <2>2, <2>3 DEF Shown
  <1>15. Gone'
    <2>1. ASSUME NEW d \in dropped PROVE d[1] < next_uid' /\ d[1] # u /\ d[1] \in Uids
      BY <1>1, <1>3 DEF Pipeline, PipeTypes, Gone, Uids, u
    <2> QED  BY <1>1, <1>8, <2>1 DEF Pipeline, Gone
  <1>16. Departing'
    <2>1. ASSUME NEW q \in Peers, peerState'[q] = "zombie" PROVE q \in Range(dispatch')
      <3>1. q # p /\ peerState[q] = "zombie"
        BY <1>1, <1>2, <2>1 DEF IInv, Types
      <3> QED  BY <1>1, <3>1, DispatchShrinks DEF IInv, Pipeline, Departing, p
    <2> QED  BY <1>1, <2>1 DEF Departing
  <1> QED  BY <1>9, <1>10, <1>12, <1>13, <1>14, <1>15, <1>16 DEF Pipeline

LEMMA DispatchReceiveKeepsPipeline ==
  ASSUME IInv, Pipeline, DispatchReceive
  PROVE  Pipeline'
  <1> DEFINE p == Head(dispatch)
             u == peerData[p]
             m == Head(incoming[p])
             e == Event("RECEIVE", u, m)
  <1>1. /\ wpc = "dispatch" /\ dispatch # <<>> /\ peerState[p] = "connected"
        /\ incoming' = [incoming EXCEPT ![p] = Tail(@)]
        /\ dispatch' = IF Len(incoming[p]) > 1 THEN Append(Tail(dispatch), p)
                                               ELSE Tail(dispatch)
        /\ UNCHANGED <<peerState, received, peerData, peerMap, next_uid, wpc, copied, alive,
                       connected, queue, packetQueue, spc, is_host, wire, dropped, missed>>
    BY DEF DispatchReceive, clientVars, historyVars
  <1>2. p \in Peers /\ p = dispatch[1] /\ 1 \in 1..Len(dispatch)
    BY <1>1, PopDispatch DEF IInv
  <1>3. u \in Uids /\ u # NoUid /\ incoming[p] # <<>> /\ incoming[p] \in Seq(Messages)
    BY <1>1, <1>2 DEF IInv, Types, Life, PeersHold, Dispatches
  <1>4. m \in Messages /\ m = incoming[p][1] /\ 1 \in 1..Len(incoming[p])
    BY <1>3, TailOne
  <1>5. e \in Events /\ e.type = "RECEIVE" /\ e.client = u /\ e.packet = m
        /\ events' = Append(events, e)
    BY <1>3, <1>4, EventTypes DEF IInv, DispatchReceive, Event
  <1>6. m.from = u /\ m.id \in 1..received /\ \A v \in Uids : m.id \notin missed[v]
    BY <1>2, <1>4 DEF Pipeline, Tagged, Shown
  <1> HIDE DEF p, u, m, e
  <1>7. /\ Len(events') = Len(events) + 1 /\ Len(events) \in Nat
        /\ \A i \in 1..Len(events) : events'[i] = events[i]
        /\ events'[Len(events) + 1] = e
        /\ \A i \in 1..Len(events') : i \in 1..Len(events) \/ i = Len(events) + 1
    BY <1>5, AppendOne DEF IInv, Types
  <1>8. /\ Carried(events) \in Seq(Messages)
        /\ Carried(events') = Append(Carried(events), m)
    BY <1>5, CarriedSeq, CarriedAppend DEF IInv, Types
  <1>9. /\ incoming'[p] = Tail(incoming[p])
        /\ \A q \in Peers \ {p} : incoming'[q] = incoming[q] /\ peerData[q] # u
    BY <1>1, <1>2, <1>3 DEF IInv, Types, Life, PeersHold, u
  <1>10. \A q \in Peers : \A k \in 1..Len(incoming'[q]) :
            \E j \in 1..Len(incoming[q]) : incoming'[q][k] = incoming[q][j]
    <2>1. \A k \in 1..Len(Tail(incoming[p])) :
             k + 1 \in 1..Len(incoming[p]) /\ Tail(incoming[p])[k] = incoming[p][k + 1]
      BY <1>3, TailOne
    <2> QED  BY <1>9, <2>1
  <1>11. PipeTypes'
    BY <1>1 DEF Pipeline, PipeTypes
  <1>12. Tagged'
    <2>1. \A q \in Peers : \A k \in 1..Len(incoming'[q]) :
             incoming'[q][k].from = peerData[q] /\ incoming'[q][k].id \in 1..received
      BY <1>10 DEF Pipeline, Tagged
    <2>2. \A i \in 1..Len(events') :
             IF events'[i].type = "RECEIVE"
             THEN events'[i].packet.from = events'[i].client
                  /\ events'[i].packet.id \in 1..received
             ELSE events'[i].packet = NoPacket
      BY <1>5, <1>6, <1>7 DEF Pipeline, Tagged
    <2> QED  BY <1>1, <2>1, <2>2 DEF Tagged
  <1>13. Source'
    <2>1. /\ Sorted(Carried(events))
          /\ \A q \in Peers : Sorted(incoming[q]) /\ Before(Carried(events), incoming[q])
      BY DEF Pipeline, Source
    <2>2. Sorted(Carried(events'))
      <3>1. \A j \in 1..Len(Carried(events)) :
               Carried(events)[j].from = m.from /\ Carried(events)[j].from # NoUid
                  => Carried(events)[j].id < m.id
        BY <1>2, <1>4, <2>1 DEF Before
      <3> QED  BY <1>4, <1>8, <2>1, <3>1, SortedAppend
    <2>3. ASSUME NEW q \in Peers
          PROVE  Sorted(incoming'[q]) /\ Before(Carried(events'), incoming'[q])
      <3>1. CASE q = p
        <4>1. Sorted(incoming[p]) /\ Before(Carried(events), incoming[p])
          BY <1>2, <2>1
        <4>2. /\ Sorted(Tail(incoming[p]))
              /\ \A k \in 1..Len(Tail(incoming[p])) :
                    m.from = Tail(incoming[p])[k].from /\ m.from # NoUid
                       => m.id < Tail(incoming[p])[k].id
          BY <1>3, <1>4, <4>1, TailSorted
        <4>3. Before(Carried(events), Tail(incoming[p]))
          BY <1>3, <4>1, TailBefore
        <4>4. Before(Append(Carried(events), m), Tail(incoming[p]))
          BY <1>4, <1>8, <4>2, <4>3, BeforeAppend
        <4> QED  BY <1>8, <1>9, <3>1, <4>2, <4>4
      <3>2. CASE q # p
        <4>1. \A k \in 1..Len(incoming[q]) : m.from # incoming[q][k].from
          BY <1>6, <1>9, <3>2 DEF Pipeline, Tagged
        <4>2. Before(Carried(events), incoming[q])
          BY <2>1
        <4>3. Before(Append(Carried(events), m), incoming[q])
          BY <1>4, <1>8, <4>1, <4>2, BeforeAppend
        <4> QED  BY <1>8, <1>9, <2>1, <3>2, <4>3
      <3> QED  BY <3>1, <3>2
    <2> QED  BY <2>2, <2>3 DEF Source
  <1>14. Lines'
    <2>1. ASSUME NEW v \in Uids, NEW s \in Seq(Packets), OnTheWay(s, v)
          PROVE  OnTheWay(s, v)'
      <3>1. Before(s, Carried(events)) /\ \A q \in Peers : Before(s, incoming[q])
        BY <2>1 DEF OnTheWay
      <3>2. Before(s, Carried(events'))
        <4>1. \A k \in 1..Len(s) : s[k].from = m.from /\ s[k].from # NoUid => s[k].id < m.id
          BY <1>2, <1>4, <3>1 DEF Before
        <4> QED  BY <1>4, <1>8, <3>1, <4>1, BeforeAppend
      <3>3. ASSUME NEW q \in Peers PROVE Before(s, incoming'[q])
        <4>1. Before(s, incoming[q])
          BY <3>1
        <4>2. \A k \in 1..Len(incoming'[q]) :
                 \E j \in 1..Len(incoming[q]) : incoming'[q][k] = incoming[q][j]
          BY <1>10
        <4> QED  BY <4>1, <4>2 DEF Before
      <3> QED  BY <1>1, <2>1, <3>2, <3>3 DEF OnTheWay
    <2>2. ASSUME NEW v \in Uids
          PROVE  wire[v] \in Seq(Packets) /\ packetQueue[v] \in Seq(Packets)
                 /\ queue[v] \in Seq(Packets)
      BY DEF Pipeline, PipeTypes
    <2>3. ASSUME NEW v \in Uids
          PROVE  /\ OnTheWay(wire[v], v)' /\ OnTheWay(packetQueue[v], v)'
                 /\ OnTheWay(queue[v], v)'
      <3>1. OnTheWay(wire[v], v) /\ OnTheWay(packetQueue[v], v) /\ OnTheWay(queue[v], v)
        BY DEF Pipeline, Lines
      <3>2. OnTheWay(wire[v], v)'
        BY <1>1, <2>1, <2>2, <3>1 DEF OnTheWay
      <3>3. OnTheWay(packetQueue[v], v)'
        BY <1>1, <2>1, <2>2, <3>1 DEF OnTheWay
      <3>4. OnTheWay(queue[v], v)'
        BY <1>1, <2>1, <2>2, <3>1 DEF OnTheWay
      <3> QED  BY <3>2, <3>3, <3>4
    <2> QED  BY <1>1, <2>3 DEF Pipeline, Lines
  <1>15. Shown'
    <2>1. ASSUME NEW v \in Uids, NEW q \in Peers, NEW k \in 1..Len(incoming'[q])
          PROVE  incoming'[q][k].id \notin missed[v]
      BY <1>10 DEF Pipeline, Shown
    <2>2. ASSUME NEW v \in Uids, NEW i \in 1..Len(events'), events'[i].type = "RECEIVE",
                 Welcomed(v, i)'
          PROVE  events'[i].packet.id \notin missed[v]
      <3>1. CASE i = Len(events) + 1
        BY <1>5, <1>6, <1>7, <3>1
      <3>2. CASE i \in 1..Len(events)
        <4>1. \A k \in 1..Len(events') : k < i => k \in 1..Len(events)
          BY <1>7, <3>2
        <4>2. Welcomed(v, i)
          BY <1>1, <1>7, <2>2, <4>1 DEF Welcomed
        <4> QED  BY <1>7, <2>2, <3>2, <4>2 DEF Pipeline, Shown
      <3> QED  BY <1>7, <3>1, <3>2
    <2> QED  BY <1>1, <2>1, <2>2 DEF Pipeline, Shown
  <1>16. Gone'
    BY <1>1 DEF Pipeline, Gone
  <1>17. Departing'
    <2>1. \A q \in Range(Tail(dispatch)) : q \in Range(dispatch')
      <3>1. Tail(dispatch) \in Seq(Peers)
        BY <1>1, PopDispatch DEF IInv
      <3>2. ASSUME NEW t \in Seq(Peers), NEW q \in Range(t) PROVE q \in Range(Append(t, p))
        <4>1. /\ DOMAIN t = 1..Len(t) /\ DOMAIN Append(t, p) = 1..(Len(t) + 1)
              /\ Len(t) \in Nat /\ \A i \in 1..Len(t) : Append(t, p)[i] = t[i]
          OBVIOUS
        <4> QED  BY <3>2, <4>1 DEF Range
      <3> QED  BY <1>1, <3>1, <3>2
    <2>2. ASSUME NEW q \in Peers, peerState'[q] = "zombie" PROVE q \in Range(dispatch')
      <3>1. q # p /\ peerState[q] = "zombie"
        BY <1>1, <2>2
      <3> QED  BY <1>1, <2>1, <3>1, DispatchShrinks DEF IInv, Pipeline, Departing, p
    <2> QED  BY <1>1, <2>2 DEF Departing
  <1> QED  BY <1>11, <1>12, <1>13, <1>14, <1>15, <1>16, <1>17 DEF Pipeline

LEMMA DispatchDisconnectKeepsPipeline ==
  ASSUME IInv, Pipeline, DispatchDisconnect
  PROVE  Pipeline'
  <1> DEFINE p == Head(dispatch)
             u == peerData[p]
             e == Event("DISCONNECT", u, NoPacket)
  <1>1. /\ wpc = "dispatch" /\ dispatch # <<>> /\ dispatch' = Tail(dispatch)
        /\ peerState[p] = "zombie"
        /\ peerState' = [peerState EXCEPT ![p] = "disconnected"]
        /\ incoming' = [incoming EXCEPT ![p] = <<>>]
        /\ UNCHANGED <<received, next_uid, wpc, copied, alive, connected, queue,
                       packetQueue, spc, is_host, wire, dropped, missed>>
    BY DEF DispatchDisconnect, historyVars
  <1>2. p \in Peers
    BY <1>1, PopDispatch DEF IInv
  <1>3. u \in Uids /\ u # NoUid
    BY <1>1, <1>2 DEF IInv, Types, Life, PeersHold
  <1>4. /\ peerData' = [peerData EXCEPT ![p] = NoUid]
        /\ events' = Append(events, e)
    BY <1>3 DEF DispatchDisconnect, ForgetClient
  <1>5. e \in Events /\ e.type = "DISCONNECT" /\ e.packet = NoPacket
        /\ NoPacket.from = NoUid
    <2>1. NoPacket \in Messages
      BY BoundsAssumption DEF NoPacket, Messages
    <2> QED  BY <1>3, <2>1, EventTypes DEF IInv, Event, NoPacket
  <1> HIDE DEF p, u, e
  <1>6. /\ Len(events') = Len(events) + 1 /\ Len(events) \in Nat
        /\ \A i \in 1..Len(events) : events'[i] = events[i]
        /\ events'[Len(events) + 1] = e
        /\ \A i \in 1..Len(events') : i \in 1..Len(events) \/ i = Len(events) + 1
    BY <1>4, <1>5, AppendOne DEF IInv, Types
  <1>7. /\ Carried(events) \in Seq(Messages) /\ NoPacket \in Messages
        /\ Carried(events') = Append(Carried(events), NoPacket)
    BY <1>4, <1>5, CarriedSeq, CarriedAppend DEF IInv, Types, Events
  <1>8. /\ incoming'[p] = <<>>
        /\ \A q \in Peers \ {p} : incoming'[q] = incoming[q] /\ peerData'[q] = peerData[q]
        /\ \A q \in Peers : peerData'[q] \in {peerData[q], NoUid}
    BY <1>1, <1>2, <1>4 DEF IInv, Types
  <1>9. PipeTypes'
    BY <1>1 DEF Pipeline, PipeTypes
  <1>10. Tagged'
    <2>1. \A q \in Peers : \A k \in 1..Len(incoming'[q]) :
             incoming'[q][k].from = peerData'[q] /\ incoming'[q][k].id \in 1..received
      BY <1>8 DEF Pipeline, Tagged
    <2>2. \A i \in 1..Len(events') :
             IF events'[i].type = "RECEIVE"
             THEN events'[i].packet.from = events'[i].client
                  /\ events'[i].packet.id \in 1..received
             ELSE events'[i].packet = NoPacket
      BY <1>5, <1>6 DEF Pipeline, Tagged
    <2> QED  BY <1>1, <2>1, <2>2 DEF Tagged
  <1>11. Source'
    <2>1. /\ Sorted(Carried(events))
          /\ \A q \in Peers : Sorted(incoming[q]) /\ Before(Carried(events), incoming[q])
      BY DEF Pipeline, Source
    <2>2. Sorted(Carried(events'))
      BY <1>5, <1>7, <2>1, SortedAppend
    <2>3. ASSUME NEW q \in Peers
          PROVE  Sorted(incoming'[q]) /\ Before(Carried(events'), incoming'[q])
      <3>1. CASE q = p
        BY <1>8, <3>1, NothingBefore
      <3>2. CASE q # p
        <4>1. Before(Carried(events), incoming[q])
          BY <2>1
        <4>2. Before(Append(Carried(events), NoPacket), incoming[q])
          BY <1>5, <1>7, <4>1, BeforeAppend
        <4> QED  BY <1>7, <1>8, <2>1, <3>2, <4>2
      <3> QED  BY <3>1, <3>2
    <2> QED  BY <2>2, <2>3 DEF Source
  <1>12. Lines'
    <2>1. ASSUME NEW v \in Uids, NEW s \in Seq(Packets), OnTheWay(s, v)
          PROVE  OnTheWay(s, v)'
      <3>1. Before(s, Carried(events)) /\ \A q \in Peers : Before(s, incoming[q])
        BY <2>1 DEF OnTheWay
      <3>2. Before(s, Carried(events'))
        <4>1. \A k \in 1..Len(s) :
                 s[k].from = NoPacket.from /\ s[k].from # NoUid => s[k].id < NoPacket.id
          BY <1>5
        <4> QED  BY <1>7, <3>1, <4>1, BeforeAppend
      <3>3. \A q \in Peers : Before(s, incoming'[q])
        BY <1>8, <3>1, NothingBefore
      <3> QED  BY <1>1, <2>1, <3>2, <3>3 DEF OnTheWay
    <2>2. ASSUME NEW v \in Uids
          PROVE  wire[v] \in Seq(Packets) /\ packetQueue[v] \in Seq(Packets)
                 /\ queue[v] \in Seq(Packets)
      BY DEF Pipeline, PipeTypes
    <2>3. ASSUME NEW v \in Uids
          PROVE  /\ OnTheWay(wire[v], v)' /\ OnTheWay(packetQueue[v], v)'
                 /\ OnTheWay(queue[v], v)'
      <3>1. OnTheWay(wire[v], v) /\ OnTheWay(packetQueue[v], v) /\ OnTheWay(queue[v], v)
        BY DEF Pipeline, Lines
      <3>2. OnTheWay(wire[v], v)'
        BY <1>1, <2>1, <2>2, <3>1 DEF OnTheWay
      <3>3. OnTheWay(packetQueue[v], v)'
        BY <1>1, <2>1, <2>2, <3>1 DEF OnTheWay
      <3>4. OnTheWay(queue[v], v)'
        BY <1>1, <2>1, <2>2, <3>1 DEF OnTheWay
      <3> QED  BY <3>2, <3>3, <3>4
    <2> QED  BY <1>1, <2>3 DEF Pipeline, Lines
  <1>13. Shown'
    <2>1. ASSUME NEW v \in Uids, NEW q \in Peers, NEW k \in 1..Len(incoming'[q])
          PROVE  incoming'[q][k].id \notin missed[v]
      BY <1>8 DEF Pipeline, Shown
    <2>2. ASSUME NEW v \in Uids, NEW i \in 1..Len(events'), events'[i].type = "RECEIVE",
                 Welcomed(v, i)'
          PROVE  events'[i].packet.id \notin missed[v]
      <3>1. i \in 1..Len(events) /\ events'[i] = events[i]
        BY <1>5, <1>6, <2>2
      <3>2. \A k \in 1..Len(events') : k < i => k \in 1..Len(events)
        BY <1>6, <3>1
      <3>3. Welcomed(v, i)
        BY <1>1, <1>6, <2>2, <3>2 DEF Welcomed
      <3> QED  BY <2>2, <3>1, <3>3 DEF Pipeline, Shown
    <2> QED  BY <1>1, <2>1, <2>2 DEF Pipeline, Shown
  <1>14. Gone'
    <2>1. \A d \in dropped : d[1] # NoUid
      BY DEF Pipeline, PipeTypes, Uids, NoUid
    <2> QED  BY <1>1, <1>8, <2>1 DEF Pipeline, Gone
  <1>15. Departing'
    <2>1. ASSUME NEW q \in Peers, peerState'[q] = "zombie" PROVE q \in Range(dispatch')
      <3>1. q # p /\ peerState[q] = "zombie"
        BY <1>1, <1>2, <2>1 DEF IInv, Types
      <3> QED  BY <1>1, <3>1, DispatchShrinks DEF IInv, Pipeline, Departing, p
    <2> QED  BY <1>1, <2>1 DEF Departing
  <1> QED  BY <1>9, <1>10, <1>11, <1>12, <1>13, <1>14, <1>15 DEF Pipeline

LEMMA SendQueuedPacketsKeepsPipeline ==
  ASSUME IInv, Pipeline, SendQueuedPackets
  PROVE  Pipeline'
  <1>1. /\ wpc = "send" /\ wpc' = "service" /\ packetQueue' = [u \in Uids |-> <<>>]
        /\ wire' = [u \in Uids |->
                       IF Sendable(u) THEN wire[u] \o packetQueue[u] ELSE wire[u]]
        /\ dropped' = dropped \union {d \in Uids \X Packets :
                                        /\ ~Sendable(d[1])
                                        /\ d[2] \in Range(packetQueue[d[1]])}
        /\ UNCHANGED <<peerState, incoming, dispatch, received, peerData, peerMap, next_uid,
                       events, copied, alive, connected, queue, spc, is_host, missed>>
    BY DEF SendQueuedPackets, Emptied, hostVars, clientVars, eventVars
  <1>2. ASSUME NEW u \in Uids
        PROVE  /\ wire[u] \in Seq(Packets) /\ packetQueue[u] \in Seq(Packets)
               /\ wire'[u] \in Seq(Packets) /\ packetQueue'[u] = <<>>
               /\ wire'[u] \in {wire[u], wire[u] \o packetQueue[u]}
    BY <1>1 DEF Pipeline, PipeTypes
  <1>3. PipeTypes'
    <2>1. wire' \in [Uids -> Seq(Packets)] /\ packetQueue' \in [Uids -> Seq(Packets)]
      BY <1>1, <1>2
    <2>2. dropped' \subseteq Uids \X Packets
      BY <1>1 DEF Pipeline, PipeTypes
    <2> QED  BY <1>1, <2>1, <2>2 DEF Pipeline, PipeTypes
  <1>4. Tagged' /\ Source' /\ Shown'
    BY <1>1 DEF Pipeline, Tagged, Source, Shown, Welcomed
  <1>5. Lines'
    <2>1. ASSUME NEW u \in Uids
          PROVE  OnTheWay(wire[u] \o packetQueue[u], u)
                 /\ Before(wire[u] \o packetQueue[u], queue[u])
      <3> DEFINE s == wire[u]
                 t == packetQueue[u]
      <3>1. /\ OnTheWay(s, u) /\ OnTheWay(t, u) /\ Before(s, t)
            /\ Before(s, queue[u]) /\ Before(t, queue[u])
        BY DEF Pipeline, Lines
      <3>2. s \in Seq(Packets) /\ t \in Seq(Packets)
        BY <1>2
      <3> HIDE DEF s, t
      <3>3. Sorted(s \o t)
        BY <3>1, <3>2, SortedConcat DEF OnTheWay
      <3>4. /\ Before(s \o t, queue[u]) /\ Before(s \o t, Carried(events))
            /\ \A q \in Peers : Before(s \o t, incoming[q])
        BY <3>1, <3>2, BeforeConcat DEF OnTheWay
      <3>5. \A k \in 1..Len(s \o t) : /\ (s \o t)[k].from # u
                                      /\ (s \o t)[k].id \notin missed[u]
                                      /\ (s \o t)[k].id <= received
        <4>1. \A k \in 1..Len(s \o t) :
                 \/ k \in 1..Len(s) /\ (s \o t)[k] = s[k]
                 \/ k - Len(s) \in 1..Len(t) /\ (s \o t)[k] = t[k - Len(s)]
          BY <3>2, Concat
        <4> QED  BY <3>1, <4>1 DEF OnTheWay
      <3>6. s \o t # <<>> => u < next_uid
        <4>1. s = <<>> /\ t = <<>> => s \o t = <<>>
          BY <3>2
        <4> QED  BY <3>1, <4>1 DEF OnTheWay
      <3>7. OnTheWay(s \o t, u)
        BY <3>3, <3>4, <3>5, <3>6 DEF OnTheWay
      <3> QED  BY <3>4, <3>7 DEF s, t
    <2>2. ASSUME NEW u \in Uids, NEW s, OnTheWay(s, u) PROVE OnTheWay(s, u)'
      BY <1>1, <2>2 DEF OnTheWay
    <2>3. ASSUME NEW u \in Uids
          PROVE  /\ OnTheWay(wire'[u], u) /\ OnTheWay(<<>>, u) /\ OnTheWay(queue[u], u)
                 /\ Before(wire'[u], queue[u])
      <3>1. OnTheWay(<<>>, u)
        BY NothingBefore DEF OnTheWay
      <3> QED  BY <1>2, <2>1, <3>1 DEF Pipeline, Lines
    <2>4. ASSUME NEW u \in Uids
          PROVE  /\ OnTheWay(wire[u], u)' /\ OnTheWay(packetQueue[u], u)'
                 /\ OnTheWay(queue[u], u)'
      BY <1>1, <1>2, <2>2, <2>3 DEF OnTheWay
    <2> QED  BY <1>1, <1>2, <2>3, <2>4, NothingBefore DEF Lines
  <1>6. Gone'
    <2>1. ASSUME NEW d \in Uids \X Packets, ~Sendable(d[1]), d[2] \in Range(packetQueue[d[1]])
          PROVE  d[1] < next_uid /\ \A p \in Peers : peerData[p] # d[1]
      <3>1. d[1] < next_uid
        <4>1. packetQueue[d[1]] # <<>>
          BY <2>1 DEF Range
        <4> QED  BY <4>1 DEF Pipeline, Lines, OnTheWay
      <3>2. ASSUME NEW p \in Peers, peerData[p] = d[1] PROVE FALSE
        <4>0. peerData[p] # NoUid
          BY <2>1, <3>2 DEF Uids, NoUid
        <4>1. peerMap[d[1]] = p /\ peerState[p] # "connected"
          BY <2>1, <3>2, <4>0, PeersAssumption DEF IInv, Life, PeersHold, Sendable
        <4>2. peerState[p] = "zombie"
          <5>1. peerState[p] \in {"disconnected", "pending", "connected", "zombie"}
            BY DEF IInv, Types
          <5>2. peerState[p] \notin {"disconnected", "pending"}
            BY <4>0 DEF IInv, Life, PeersHold
          <5> QED  BY <4>1, <5>1, <5>2
        <4>3. dispatch = <<>> /\ p \in Range(dispatch)
          BY <1>1, <4>2 DEF Pipeline, Departing
        <4> QED  BY <4>3 DEF Range
      <3> QED  BY <3>1, <3>2
    <2> QED  BY <1>1, <2>1 DEF Pipeline, Gone
  <1>7. Departing'
    BY <1>1 DEF Pipeline, Departing
  <1> QED  BY <1>3, <1>4, <1>5, <1>6, <1>7 DEF Pipeline

-----------------------------------------------------------------------------
(* The server thread.                                                          *)

(* The first packet of one queue goes behind the other. *)
LEMMA FlushNextKeepsPipeline ==
  ASSUME IInv, Pipeline, NEW v \in Uids, FlushNext(v)
  PROVE  Pipeline'
  <1> DEFINE s == packetQueue[v]
             t == queue[v]
             m == Head(queue[v])
  <1>1. /\ packetQueue' = [packetQueue EXCEPT ![v] = Append(s, m)]
        /\ queue' = [queue EXCEPT ![v] = Tail(t)] /\ t # <<>>
        /\ UNCHANGED <<peerState, incoming, dispatch, received, peerData, peerMap, next_uid,
                       wpc, events, copied, alive, connected, spc, is_host, wire, dropped,
                       missed>>
    BY DEF FlushNext, hostVars, clientVars, eventVars, historyVars
  <1>2. /\ wire[v] \in Seq(Packets) /\ s \in Seq(Packets) /\ t \in Seq(Packets)
        /\ queue \in [Uids -> Seq(Packets)] /\ packetQueue \in [Uids -> Seq(Packets)]
    BY DEF Pipeline, PipeTypes
  <1>3. /\ packetQueue'[v] = Append(s, m) /\ queue'[v] = Tail(t)
        /\ \A u \in Uids \ {v} : packetQueue'[u] = packetQueue[u] /\ queue'[u] = queue[u]
    BY <1>1, <1>2
  <1> HIDE DEF s, t, m
  <1>4. /\ m = t[1] /\ m \in Packets /\ 1 \in 1..Len(t) /\ Tail(t) \in Seq(Packets)
        /\ Append(s, m) \in Seq(Packets)
    BY <1>1, <1>2 DEF m, t
  <1>5. PipeTypes'
    <2>1. packetQueue' \in [Uids -> Seq(Packets)] /\ queue' \in [Uids -> Seq(Packets)]
      BY <1>1, <1>2, <1>4
    <2> QED  BY <1>1, <2>1 DEF Pipeline, PipeTypes
  <1>6. Tagged' /\ Source' /\ Shown' /\ Gone' /\ Departing'
    BY <1>1 DEF Pipeline, Tagged, Source, Shown, Welcomed, Gone, Departing
  <1>7. Lines'
    <2>1. /\ OnTheWay(wire[v], v) /\ OnTheWay(s, v) /\ OnTheWay(t, v)
          /\ Before(wire[v], s) /\ Before(wire[v], t) /\ Before(s, t)
      BY DEF Pipeline, Lines, s, t
    <2>2. ASSUME NEW u \in Uids, NEW r, OnTheWay(r, u) PROVE OnTheWay(r, u)'
      BY <1>1, <2>2 DEF OnTheWay
    <2>3. OnTheWay(Append(s, m), v)
      <3>1. Sorted(Append(s, m))
        <4>1. Sorted(s) /\ \A k \in 1..Len(s) :
                 s[k].from = m.from /\ s[k].from # NoUid => s[k].id < m.id
          BY <1>4, <2>1 DEF OnTheWay, Before
        <4> QED  BY <1>2, <1>4, <4>1, SortedAppend
      <3>2. /\ Before(Append(s, m), Carried(events))
            /\ \A q \in Peers : Before(Append(s, m), incoming[q])
        <4>1. ASSUME NEW r, Before(s, r), Before(t, r) PROVE Before(Append(s, m), r)
          <5>1. \A k \in 1..Len(r) : m.from = r[k].from /\ m.from # NoUid => m.id < r[k].id
            BY <1>4, <4>1 DEF Before
          <5> QED  BY <1>2, <1>4, <4>1, <5>1, BeforeAppend
        <4> QED  BY <2>1, <4>1 DEF OnTheWay
      <3>3. \A k \in 1..Len(Append(s, m)) : /\ Append(s, m)[k].from # v
                                            /\ Append(s, m)[k].id \notin missed[v]
                                            /\ Append(s, m)[k].id <= received
        <4>1. \A k \in 1..Len(Append(s, m)) :
                 \/ k \in 1..Len(s) /\ Append(s, m)[k] = s[k]
                 \/ Append(s, m)[k] = t[1]
          <5>1. /\ Len(Append(s, m)) = Len(s) + 1 /\ Len(s) \in Nat
                /\ \A i \in 1..Len(s) : Append(s, m)[i] = s[i]
                /\ Append(s, m)[Len(s) + 1] = m
            BY <1>2, <1>4, AppendOne
          <5>2. \A k \in 1..Len(s) + 1 : k \in 1..Len(s) \/ k = Len(s) + 1
            BY <5>1
          <5> QED  BY <1>4, <5>1, <5>2
        <4>2. /\ \A k \in 1..Len(s) : /\ s[k].from # v /\ s[k].id \notin missed[v]
                                      /\ s[k].id <= received
              /\ t[1].from # v /\ t[1].id \notin missed[v] /\ t[1].id <= received
          BY <1>4, <2>1 DEF OnTheWay
        <4> QED  BY <4>1, <4>2
      <3>4. v < next_uid
        BY <1>1, <2>1 DEF OnTheWay
      <3> QED  BY <3>1, <3>2, <3>3, <3>4 DEF OnTheWay
    <2>4. OnTheWay(Tail(t), v)
      <3>1. Sorted(Tail(t)) /\ \A r : Before(t, r) => Before(Tail(t), r)
        BY <1>1, <1>2, <2>1, TailSorted, TailBefore DEF OnTheWay
      <3>2. \A k \in 1..Len(Tail(t)) : Tail(t)[k] = t[k + 1] /\ k + 1 \in 1..Len(t)
        BY <1>1, <1>2, TailOne
      <3> QED  BY <1>1, <2>1, <3>1, <3>2 DEF OnTheWay
    <2>5. Before(wire[v], Append(s, m)) /\ Before(wire[v], Tail(t))
      <3>1. \A k \in 1..Len(wire[v]) :
               wire[v][k].from = m.from /\ wire[v][k].from # NoUid => wire[v][k].id < m.id
        BY <1>4, <2>1 DEF Before
      <3> QED  BY <1>1, <1>2, <1>4, <2>1, <3>1, BeforeAppend, TailBefore
    <2>6. Before(Append(s, m), Tail(t))
      <3>1. \A k \in 1..Len(Tail(t)) :
               m.from = Tail(t)[k].from /\ m.from # NoUid => m.id < Tail(t)[k].id
        BY <1>1, <1>2, <1>4, <2>1, TailSorted DEF OnTheWay
      <3>2. Before(s, Tail(t))
        BY <1>1, <1>2, <2>1, TailBefore
      <3> QED  BY <1>2, <1>4, <3>1, <3>2, BeforeAppend
    <2>7. ASSUME NEW u \in Uids
          PROVE  /\ OnTheWay(wire[u], u) /\ OnTheWay(packetQueue'[u], u)
                 /\ OnTheWay(queue'[u], u) /\ Before(wire[u], packetQueue'[u])
                 /\ Before(wire[u], queue'[u]) /\ Before(packetQueue'[u], queue'[u])
      <3>1. CASE u = v
        BY <1>3, <2>1, <2>3, <2>4, <2>5, <2>6, <3>1
      <3>2. CASE u # v
        BY <1>3, <3>2 DEF Pipeline, Lines
      <3> QED  BY <3>1, <3>2
    <2>8. ASSUME NEW u \in Uids
          PROVE  /\ OnTheWay(wire[u], u)' /\ OnTheWay(packetQueue[u], u)'
                 /\ OnTheWay(queue[u], u)'
      BY <1>1, <2>2, <2>7 DEF OnTheWay
    <2> QED  BY <1>1, <2>7, <2>8 DEF Lines
  <1> QED  BY <1>5, <1>6, <1>7 DEF Pipeline

(* What the handling of the first event leaves as it was. *)
LEMMA HandledKeeps ==
  ASSUME IInv, Pipeline, NEW t, NextEvent(t), EventHandled,
         UNCHANGED <<peerState, incoming, dispatch, received, peerData, next_uid, wpc,
                     wire, dropped, missed, packetQueue>>
  PROVE  /\ Tagged' /\ Source' /\ Gone' /\ Departing'
         /\ \A s : Before(s, Carried(events)) => Before(s, Carried(events'))
         /\ events # <<>> /\ events' = Tail(events)
  <1>1. /\ events # <<>> /\ events' = Tail(events) /\ events \in Seq(Events)
    BY DEF NextEvent, EventHandled, IInv, Types
  <1>2. /\ Carried(events) \in Seq(Messages) /\ Carried(events) # <<>>
        /\ Carried(events') = Tail(Carried(events))
    BY <1>1, CarriedSeq, CarriedTail
  <1>3. \A s : Before(s, Carried(events)) => Before(s, Carried(events'))
    BY <1>2, TailBefore
  <1>4. Tagged'
    <2>1. \A i \in 1..Len(events') : events'[i] = events[i + 1] /\ i + 1 \in 1..Len(events)
      BY <1>1, TailOne
    <2> QED  BY <2>1 DEF Pipeline, Tagged
  <1>5. Source'
    <2>1. Sorted(Carried(events'))
      BY <1>2, TailSorted DEF Pipeline, Source
    <2>2. \A q \in Peers : Before(Carried(events'), incoming[q])
      BY <1>2, TailBefore DEF Pipeline, Source
    <2> QED  BY <2>1, <2>2 DEF Pipeline, Source
  <1>6. Gone' /\ Departing'
    BY DEF Pipeline, Gone, Departing
  <1> QED  BY <1>1, <1>3, <1>4, <1>5, <1>6

(* The lines of packets when the first event is handled and none is queued. *)
LEMMA HandledLines ==
  ASSUME IInv, Pipeline, NEW t, NextEvent(t), EventHandled,
         UNCHANGED <<peerState, incoming, dispatch, received, peerData, next_uid, wpc,
                     wire, dropped, missed, packetQueue>>,
         NEW u \in Uids, NEW s, OnTheWay(s, u)
  PROVE  OnTheWay(s, u)'
  <1>1. Before(s, Carried(events'))
    BY HandledKeeps DEF OnTheWay
  <1> QED  BY <1>1 DEF OnTheWay

(* A client that has been welcomed stays so while it is connected. *)
LEMMA HandledShown ==
  ASSUME IInv, Pipeline, NEW t, NextEvent(t), EventHandled,
         UNCHANGED <<incoming, next_uid, missed>>,
         \A v \in connected' : \/ v \in connected
                               \/ t = "CONNECT" /\ v = Head(events).client
  PROVE  Shown'
  <1>1. /\ Len(events') = Len(events) - 1 /\ Len(events) \in Nat \ {0}
        /\ \A i \in 1..Len(events') : events'[i] = events[i + 1] /\ i + 1 \in 1..Len(events)
        /\ events[1] = Head(events) /\ events[1].type = t
    BY PopEvent DEF IInv
  <1>2. ASSUME NEW v \in Uids, NEW i \in 1..Len(events'), events'[i].type = "RECEIVE",
               Welcomed(v, i)'
        PROVE  events'[i].packet.id \notin missed'[v]
    <2>1. Welcomed(v, i + 1)
      <3>1. CASE v \in connected
        BY <3>1 DEF Welcomed
      <3>2. CASE t = "CONNECT" /\ v = Head(events).client
        <4>1. 1 \in 1..Len(events) /\ 1 < i + 1
          BY <1>1
        <4> QED  BY <1>1, <3>2, <4>1 DEF Welcomed
      <3>3. ASSUME NEW k \in 1..Len(events'), k < i, events'[k].type = "CONNECT",
                   events'[k].client = v
            PROVE  Welcomed(v, i + 1)
        <4>1. k + 1 \in 1..Len(events) /\ k + 1 < i + 1 /\ events'[k] = events[k + 1]
          BY <1>1, <3>3
        <4> QED  BY <3>3, <4>1 DEF Welcomed
      <3> QED  BY <1>2, <3>1, <3>2, <3>3 DEF Welcomed
    <2> QED  BY <1>1, <1>2, <2>1 DEF Pipeline, Shown
  <1> QED  BY <1>2 DEF Pipeline, Shown

LEMMA HandleConnectKeepsPipeline ==
  ASSUME IInv, Pipeline, HandleConnect
  PROVE  Pipeline'
  <1>1. /\ NextEvent("CONNECT") /\ EventHandled
        /\ connected' = connected \union {Head(events).client} /\ is_host' = TRUE
        /\ UNCHANGED <<peerState, incoming, dispatch, received, peerData, next_uid, wpc,
                       spc, queue, wire, dropped, missed, packetQueue>>
    BY DEF HandleConnect, hostVars, clientVars, historyVars
  <1>2. PipeTypes'
    BY <1>1 DEF Pipeline, PipeTypes
  <1>3. Tagged' /\ Source' /\ Gone' /\ Departing'
    BY <1>1, HandledKeeps
  <1>4. Lines'
    BY <1>1, HandledLines DEF Pipeline, Lines
  <1>5. Shown'
    BY <1>1, HandledShown
  <1> QED  BY <1>2, <1>3, <1>4, <1>5 DEF Pipeline

LEMMA HandleDisconnectKeepsPipeline ==
  ASSUME IInv, Pipeline, HandleDisconnect
  PROVE  Pipeline'
  <1>1. /\ NextEvent("DISCONNECT") /\ EventHandled
        /\ connected' = connected \ {Head(events).client}
        /\ UNCHANGED <<peerState, incoming, dispatch, received, peerData, next_uid, wpc,
                       spc, is_host, queue, wire, dropped, missed, packetQueue>>
    BY DEF HandleDisconnect, hostVars, clientVars, historyVars
  <1>2. PipeTypes'
    BY <1>1 DEF Pipeline, PipeTypes
  <1>3. Tagged' /\ Source' /\ Gone' /\ Departing'
    BY <1>1, HandledKeeps
  <1>4. Lines'
    BY <1>1, HandledLines DEF Pipeline, Lines
  <1>5. Shown'
    BY <1>1, HandledShown
  <1> QED  BY <1>2, <1>3, <1>4, <1>5 DEF Pipeline

LEMMA HandleReceiveKeepsPipeline ==
  ASSUME IInv, Pipeline, HandleReceive
  PROVE  Pipeline'
  <1> DEFINE m == Head(events).packet
             c == Head(events).client
  <1>1. /\ NextEvent("RECEIVE") /\ EventHandled
        /\ queue' = [u \in Uids |-> IF u \in connected \ {c} /\ m.id \notin Malformed
                                    THEN Append(queue[u], m) ELSE queue[u]]
        /\ UNCHANGED <<peerState, incoming, dispatch, received, peerData, next_uid, wpc,
                       spc, is_host, connected, wire, dropped, missed, packetQueue>>
    BY DEF HandleReceive, Recipients, hostVars, clientVars, historyVars
  <1>2. /\ 1 \in 1..Len(events) /\ events[1].type = "RECEIVE" /\ events # <<>>
        /\ m = events[1].packet /\ c = events[1].client /\ c \in Uids
    BY <1>1, PopEvent DEF IInv, NextEvent
  <1>3. m \in Packets /\ m.from = c /\ m.id \in 1..received
        /\ \A u \in connected : m.id \notin missed[u]
    <2>1. events[1] \in Events /\ received \in Nat /\ received <= MaxPackets
      BY <1>2, BoundsAssumption DEF IInv, Types
    <2>2. m \in Messages /\ m.from = c /\ m.id \in 1..received
      BY <1>2, <2>1 DEF Pipeline, Tagged, Events
    <2>3. m \in Packets
      BY <1>2, <2>1, <2>2, BoundsAssumption DEF Messages, Packets
    <2>4. \A u \in connected : u \in Uids
      BY DEF IInv, Life, Allocated
    <2> QED  BY <1>2, <2>2, <2>3, <2>4 DEF Pipeline, Shown, Welcomed
  <1> HIDE DEF m, c
  <1>4. /\ Carried(events) \in Seq(Messages) /\ Carried(events) # <<>>
        /\ Carried(events') = Tail(Carried(events)) /\ Carried(events)[1] = m
    <2>1. events' = Tail(events) /\ events \in Seq(Events)
      BY <1>1 DEF EventHandled, IInv, Types
    <2> QED  BY <1>2, <2>1, CarriedSeq, CarriedTail
  <1>5. /\ \A k \in 1..Len(Carried(events')) :
              m.from = Carried(events')[k].from /\ m.from # NoUid
                 => m.id < Carried(events')[k].id
        /\ \A q \in Peers : \A k \in 1..Len(incoming[q]) :
              m.from = incoming[q][k].from /\ m.from # NoUid => m.id < incoming[q][k].id
    <2>1. Sorted(Carried(events)) /\ \A q \in Peers : Before(Carried(events), incoming[q])
      BY DEF Pipeline, Source
    <2>2. 1 \in 1..Len(Carried(events))
      BY <1>4
    <2> QED  BY <1>4, <2>1, <2>2, TailSorted DEF Before
  <1>6. ASSUME NEW u \in Uids
        PROVE  /\ queue[u] \in Seq(Packets) /\ queue'[u] \in Seq(Packets)
               /\ \/ queue'[u] = queue[u]
                  \/ queue'[u] = Append(queue[u], m) /\ u \in connected /\ u # c
    <2>1. queue[u] \in Seq(Packets) /\ Append(queue[u], m) \in Seq(Packets)
      BY <1>3 DEF Pipeline, PipeTypes
    <2> QED  BY <1>1, <2>1
  <1>7. PipeTypes'
    <2>1. queue' \in [Uids -> Seq(Packets)]
      BY <1>1, <1>6
    <2> QED  BY <1>1, <2>1 DEF Pipeline, PipeTypes
  <1>8. Tagged' /\ Source' /\ Gone' /\ Departing'
    BY <1>1, HandledKeeps
  <1>9. Shown'
    BY <1>1, HandledShown
  <1>10. ASSUME NEW s, Before(s, Carried(events)), NEW u \in Uids, Before(s, queue[u])
         PROVE  Before(s, Append(queue[u], m))
    <2>1. \A k \in 1..Len(s) : s[k].from = m.from /\ s[k].from # NoUid => s[k].id < m.id
      BY <1>4, <1>10 DEF Before
    <2> QED  BY <1>3, <1>6, <1>10, <2>1, BeforeAppend
  <1>11. ASSUME NEW u \in Uids, u \in connected, u # c,
                NEW s \in Seq(Packets), OnTheWay(s, u), NEW t, t = Append(s, m)
         PROVE  OnTheWay(t, u)'
    <2>1. OnTheWay(s, u)'
      BY <1>1, <1>11, HandledLines
    <2>2. Sorted(t)
      <3>1. \A j \in 1..Len(s) : s[j].from = m.from /\ s[j].from # NoUid => s[j].id < m.id
        BY <1>4, <1>11 DEF OnTheWay, Before
      <3>2. Sorted(s)
        BY <1>11 DEF OnTheWay
      <3> QED  BY <1>3, <1>11, <3>1, <3>2, SortedAppend
    <2>3. Before(t, Carried(events')) /\ \A q \in Peers : Before(t, incoming'[q])
      <3>1. Before(s, Carried(events')) /\ \A q \in Peers : Before(s, incoming[q])
        BY <1>1, <2>1 DEF OnTheWay
      <3> QED  BY <1>1, <1>3, <1>5, <1>11, <3>1, BeforeAppend
    <2>4. \A k \in 1..Len(t) : /\ t[k].from # u /\ t[k].id \notin missed'[u]
                               /\ t[k].id <= received'
      <3>1. /\ \A k \in 1..Len(t) : k \in 1..Len(s) \/ k = Len(s) + 1
            /\ \A k \in 1..Len(s) : t[k] = s[k]
            /\ t[Len(s) + 1] = m
        BY <1>3, <1>11, AppendOne
      <3>2. m.from # u /\ m.id \notin missed[u] /\ m.id <= received
        BY <1>3, <1>11
      <3> QED  BY <1>1, <1>11, <3>1, <3>2 DEF OnTheWay
    <2>5. u < next_uid'
      BY <1>1, <1>11 DEF IInv, Life, Allocated
    <2> QED  BY <2>2, <2>3, <2>4, <2>5 DEF OnTheWay
  <1>12. Lines'
    <2>1. ASSUME NEW u \in Uids
          PROVE  /\ OnTheWay(wire[u], u) /\ OnTheWay(packetQueue[u], u)
                 /\ OnTheWay(queue[u], u) /\ Before(wire[u], packetQueue[u])
                 /\ Before(wire[u], queue[u]) /\ Before(packetQueue[u], queue[u])
      BY DEF Pipeline, Lines
    <2>l. ASSUME NEW u \in Uids, NEW s, OnTheWay(s, u) PROVE OnTheWay(s, u)'
      BY <1>1, <2>l, HandledLines
    <2>2. ASSUME NEW u \in Uids PROVE OnTheWay(wire[u], u)'
      BY <1>1, <2>1, <2>l DEF OnTheWay
    <2>3. ASSUME NEW u \in Uids PROVE OnTheWay(packetQueue[u], u)'
      BY <1>1, <2>1, <2>l DEF OnTheWay
    <2>4. ASSUME NEW u \in Uids PROVE OnTheWay(queue[u], u)'
      <3>1. CASE queue'[u] = queue[u]
        BY <2>1, <2>l, <3>1 DEF OnTheWay
      <3>2. CASE queue'[u] = Append(queue[u], m) /\ u \in connected /\ u # c
        BY <1>6, <1>11, <2>1, <3>2 DEF OnTheWay
      <3> QED  BY <1>6, <3>1, <3>2
    <2>5. ASSUME NEW u \in Uids
          PROVE  Before(wire[u], queue'[u]) /\ Before(packetQueue[u], queue'[u])
      <3>1. Before(wire[u], Carried(events)) /\ Before(packetQueue[u], Carried(events))
        BY <2>1 DEF OnTheWay
      <3> QED  BY <1>6, <1>10, <2>1, <3>1
    <2> QED  BY <1>1, <2>1, <2>2, <2>3, <2>4, <2>5 DEF Lines
  <1> QED  BY <1>7, <1>8, <1>9, <1>12 DEF Pipeline

(* The steps that only move a program counter. *)
LEMMA QuietStepKeepsPipeline ==
  ASSUME IInv, Pipeline,
         \/ EndService \/ EndDispatch \/ EndFlush \/ CopyEvents \/ ConsumeDone
         \/ UNCHANGED vars
  PROVE  Pipeline'
  <1>1. /\ UNCHANGED <<peerState, incoming, dispatch, received, peerData, next_uid, events,
                       connected, is_host, queue, packetQueue, wire, dropped, missed>>
        /\ wpc' \in {"send", "service", "dispatch"} /\ (wpc' = "send" => dispatch = <<>>)
        /\ spc' \in {"flush", "consume", "handle"}
    <2>0. /\ wpc \in {"send", "service", "dispatch"} /\ (wpc = "send" => dispatch = <<>>)
          /\ spc \in {"flush", "consume", "handle"}
      BY DEF Pipeline, PipeTypes, Departing
    <2> USE <2>0 DEF vars, hostVars, clientVars, eventVars, historyVars
    <2>1. CASE EndService
      BY <2>1 DEF EndService
    <2>2. CASE EndDispatch
      BY <2>2 DEF EndDispatch
    <2>3. CASE CopyEvents
      BY <2>3 DEF CopyEvents
    <2>4. CASE ConsumeDone
      BY <2>4 DEF ConsumeDone
    <2>5. CASE UNCHANGED vars
      BY <2>5
    <2>6. CASE EndFlush
      BY <2>6 DEF EndFlush
    <2> QED  BY <2>1, <2>2, <2>3, <2>4, <2>5, <2>6
  <1>2. PipeTypes' /\ Departing'
    BY <1>1 DEF Pipeline, PipeTypes, Departing
  <1>3. Tagged' /\ Source' /\ Lines' /\ Shown' /\ Gone'
    BY <1>1 DEF Pipeline, Tagged, Source, Lines, OnTheWay, Shown, Welcomed, Gone
  <1> QED  BY <1>2, <1>3 DEF Pipeline

LEMMA InitPipeline == Init => Pipeline
  <1> SUFFICES ASSUME Init PROVE Pipeline
    OBVIOUS
  <1> USE BoundsAssumption DEF Init, Emptied
  <1>1. PipeTypes
    <2>1. [u \in Uids |-> <<>>] \in [Uids -> Seq(Packets)]
      OBVIOUS
    <2>2. missed \in [Uids -> SUBSET (1..received)]
      OBVIOUS
    <2> QED  BY <2>1, <2>2 DEF PipeTypes
  <1>2. Carried(events) = <<>>
    BY DEF Carried
  <1>3. Source
    BY <1>2, NothingBefore DEF Source
  <1>4. Lines
    BY <1>2, NothingBefore DEF Lines, OnTheWay
  <1>5. Tagged /\ Shown /\ Gone /\ Departing
    BY DEF Tagged, Shown, Gone, Departing
  <1> QED  BY <1>1, <1>3, <1>4, <1>5 DEF Pipeline

(* The pipeline, over every step of the relay: packets of one sender are in     *)
(* order wherever they are between the sender's peer and a recipient's wire.   *)
THEOREM PipelineInvariant == Spec => []Pipeline
  <1>1. IInv /\ Pipeline /\ [Next]_vars => Pipeline'
    <2> SUFFICES ASSUME IInv, Pipeline, [Next]_vars PROVE Pipeline'
      OBVIOUS
    <2>1. CASE Network
      BY <2>1, NetConnectKeepsPipeline, NetReceiveKeepsPipeline, NetDisconnectKeepsPipeline
      DEF Network
    <2>2. CASE DispatchConnect
      BY <2>2, DispatchConnectKeepsPipeline
    <2>3. CASE DispatchReceive
      BY <2>3, DispatchReceiveKeepsPipeline
    <2>4. CASE DispatchDisconnect
      BY <2>4, DispatchDisconnectKeepsPipeline
    <2>5. CASE SendQueuedPackets
      BY <2>5, SendQueuedPacketsKeepsPipeline
    <2>6. ASSUME NEW u \in Uids, FlushNext(u) PROVE Pipeline'
      BY <2>6, FlushNextKeepsPipeline
    <2>7. CASE HandleConnect
      BY <2>7, HandleConnectKeepsPipeline
    <2>8. CASE HandleDisconnect
      BY <2>8, HandleDisconnectKeepsPipeline
    <2>9. CASE HandleReceive
      BY <2>9, HandleReceiveKeepsPipeline
    <2>10. CASE \/ EndService \/ EndDispatch \/ EndFlush \/ CopyEvents \/ ConsumeDone
                \/ UNCHANGED vars
      BY <2>10, QuietStepKeepsPipeline
    <2> QED  BY <2>1, <2>2, <2>3, <2>4, <2>5, <2>6, <2>7, <2>8, <2>9, <2>10
             DEF Next, Worker, ServerThread
  <1> QED  BY <1>1, InitPipeline, Invariant, PTL DEF Spec

(* The relay sends no client its own packets, nor any that were dispatched     *)
(* before it connected.                                                        *)
THEOREM OthersPacketsSinceJoining == Spec => []OnlyOthersSinceJoining
  <1>1. Pipeline => OnlyOthersSinceJoining
    BY DEF Pipeline, Lines, OnTheWay, OnlyOthersSinceJoining
  <1> QED  BY <1>1, PipelineInvariant, PTL

(* What one client sent reaches every other in the order it arrived, at most   *)
(* once, through both queues and both threads.                                 *)
THEOREM OrderOfSenderKept == Spec => []SenderOrderKept
  <1>1. ASSUME Pipeline, NEW u \in Uids, NEW j \in 1..Len(wire[u]),
               NEW k \in 1..Len(wire[u]), j < k, wire[u][j].from = wire[u][k].from
        PROVE  wire[u][j].id < wire[u][k].id
    <2>1. wire[u] \in Seq(Packets) /\ Sorted(wire[u])
      BY <1>1 DEF Pipeline, PipeTypes, Lines, OnTheWay
    <2>2. wire[u][j] \in Packets
      BY <2>1
    <2>3. wire[u][j].from # NoUid
      BY <2>2 DEF Packets, Uids, NoUid
    <2> QED  BY <1>1, <2>1, <2>3 DEF Sorted
  <1>2. Pipeline => SenderOrderKept
    BY <1>1 DEF SenderOrderKept
  <1> QED  BY <1>2, PipelineInvariant, PTL

(* The worker throws a packet away only when its recipient has left for good:  *)
(* no peer has that client's object, and no peer will have it again.           *)
THEOREM OnlyTheDepartedLose == Spec => []DroppedOnlyForDeparted
  <1>1. Pipeline => DroppedOnlyForDeparted
    BY DEF Pipeline, Gone, DroppedOnlyForDeparted
  <1> QED  BY <1>1, PipelineInvariant, PTL

LEMMA Retyped ==
  ASSUME NEW S, NEW T, NEW s \in Seq(S), \A k \in 1..Len(s) : s[k] \in T
  PROVE  s \in Seq(T)
  <1>1. Len(s) \in Nat /\ s \in [1..Len(s) -> S]
    OBVIOUS
  <1>2. s \in [1..Len(s) -> T]
    BY <1>1
  <1> QED  BY <1>1, <1>2, SeqDef

(* Every variable of the relay keeps its type. *)
THEOREM TypeCorrect == Spec => []TypeOK
  <1>1. ASSUME IInv, Pipeline PROVE TypeOK
    <2>1. incoming \in [Peers -> Seq([from : Uids \union {NoUid}, id : 1..MaxPackets])]
      <3>1. ASSUME NEW p \in Peers
            PROVE  incoming[p] \in Seq([from : Uids \union {NoUid}, id : 1..MaxPackets])
        <4>1. incoming[p] \in Seq(Messages)
          BY <1>1 DEF IInv, Types
        <4>2. ASSUME NEW k \in 1..Len(incoming[p])
              PROVE  incoming[p][k] \in [from : Uids \union {NoUid}, id : 1..MaxPackets]
          <5>1. incoming[p][k] \in Messages /\ incoming[p][k].id \in 1..received
            BY <1>1, <4>1 DEF Pipeline, Tagged
          <5>2. received \in 0..MaxPackets
            BY <1>1 DEF IInv, Types
          <5> QED  BY <5>1, <5>2, BoundsAssumption DEF Messages
        <4> QED  BY <4>1, <4>2, Retyped
      <3> QED  BY <1>1, <3>1 DEF IInv, Types
    <2>2. events \in Seq([type : {"CONNECT", "RECEIVE", "DISCONNECT"},
                          client : Uids, packet : Packets \union {NoPacket}])
      <3>1. ASSUME NEW i \in 1..Len(events)
            PROVE  events[i] \in [type : {"CONNECT", "RECEIVE", "DISCONNECT"},
                                  client : Uids, packet : Packets \union {NoPacket}]
        <4>1. events[i] \in Events /\ received \in 0..MaxPackets
          BY <1>1 DEF IInv, Types
        <4>2. events[i].packet \in Packets \union {NoPacket}
          <5>1. CASE events[i].type = "RECEIVE"
            <6>1. /\ events[i].packet \in Messages /\ events[i].client \in Uids
                  /\ events[i].packet.from = events[i].client
                  /\ events[i].packet.id \in 1..received
              BY <1>1, <4>1, <5>1 DEF Pipeline, Tagged, Events
            <6> QED  BY <4>1, <6>1, BoundsAssumption DEF Messages, Packets
          <5>2. CASE events[i].type # "RECEIVE"
            BY <1>1, <5>2 DEF Pipeline, Tagged
          <5> QED  BY <5>1, <5>2
        <4> QED  BY <4>1, <4>2 DEF Events
      <3>2. Len(events) \in Nat /\ events \in Seq(Events)
        BY <1>1 DEF IInv, Types
      <3> QED  BY <3>1, <3>2, Retyped
    <2>3. alive \subseteq Uids /\ connected \subseteq Uids
      BY <1>1 DEF IInv, Life, Allocated
    <2>4. missed \in [Uids -> SUBSET (1..MaxPackets)]
      BY <1>1, BoundsAssumption DEF IInv, Types, Pipeline, PipeTypes
    <2> QED  BY <1>1, <2>1, <2>2, <2>3, <2>4 DEF IInv, Types, Pipeline, PipeTypes, TypeOK
  <1> QED  BY <1>1, Invariant, PipelineInvariant, PTL
=============================================================================
