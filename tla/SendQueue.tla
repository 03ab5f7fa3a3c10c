----------------------------- MODULE SendQueue ------------------------------
(* Client::Send and Client::Invoke (HadesMP/Core/Network/client.h), down to    *)
(* the packets enetpp's worker thread gives to ENet.                           *)
(*                                                                             *)
(* Three threads share two queues.  The game thread pushes onto a PPL          *)
(* concurrent_vector: push_back reserves a slot by incrementing the size and   *)
(* constructs the string in it afterwards.  The client thread makes one pass   *)
(* per loop: it walks the vector up to the end() it read first, hands every    *)
(* non-empty string to enetpp, then calls clear(), which zeroes the size and   *)
(* destroys the old elements.  clear() is not safe against a concurrent        *)
(* push_back; the three possible overlaps are what this module explores.  The  *)
(* worker thread moves enetpp's packet queue to the ENet peer.                 *)
EXTENDS Integers, Sequences

CONSTANT MaxSends                       \* bound: calls of Client::Send
ASSUME MaxSendsNat == MaxSends \in Nat

Messages == 1..MaxSends                 \* the n-th message passed to Send is n
Empty    == 0                           \* an empty or a destroyed std::string
Slots    == 1..MaxSends

VARIABLES
    sent,       \* number of calls of Send begun
    gamePc,     \* "idle", or "constructing" inside push_back
    slot,       \* the slot push_back reserved
    mem,        \* the string in each slot of the vector's memory
    size,       \* the vector's size
    pc,         \* client thread: "idle", "scan", "clear", "destroy", "done"
    next, last, \* the range-for: the next slot to read, and end()
    doomed,     \* clear(): the size it found, whose slots it destroys
    out,        \* messages handed to enetpp::client::send_packet, in order
    taken,      \* how many of them the worker has passed to enet_peer_send
    worker,     \* "running", "lost" (it queued a DISCONNECT event), or
                \* "failed" (no host or no peer: it returned without an event)
    overlapped  \* history: messages whose push_back overlapped a pass

gameVars   == <<sent, gamePc, slot>>
vectorVars == <<mem, size>>
passVars   == <<pc, next, last, doomed>>
enetVars   == <<out, taken, worker>>
vars == <<gameVars, vectorVars, passVars, enetVars, overlapped>>

InPass == pc \in {"scan", "clear", "destroy"}

Init == /\ sent = 0 /\ gamePc = "idle" /\ slot = 0
        /\ mem = [s \in Slots |-> Empty] /\ size = 0
        /\ pc = "idle" /\ next = 1 /\ last = 0 /\ doomed = 0
        /\ out = <<>> /\ taken = 0 /\ worker \in {"running", "failed"}
        /\ overlapped = {}

-----------------------------------------------------------------------------
(* Mistakes this code could have: each is a wrong version of the action whose  *)
(* name it starts with, kept to show that the properties notice it.  Nothing   *)
(* below uses them.                                                            *)

ScanSlotBackwards ==
    /\ pc = "scan" /\ next <= last
    /\ out' = LET s == last + 1 - next
              IN IF mem[s] # Empty THEN Append(out, mem[s]) ELSE out
    /\ next' = next + 1
    /\ UNCHANGED <<gameVars, vectorVars, pc, last, doomed, taken, worker, overlapped>>

ScanSlotToFront ==
    /\ pc = "scan" /\ next <= last
    /\ out' = IF mem[next] # Empty THEN <<mem[next]>> \o out ELSE out
    /\ next' = next + 1
    /\ UNCHANGED <<gameVars, vectorVars, pc, last, doomed, taken, worker, overlapped>>

EndScanEarly == /\ pc = "scan" /\ next >= last
                /\ pc' = "clear"
                /\ UNCHANGED <<gameVars, vectorVars, next, last, doomed, enetVars,
                               overlapped>>

ClearSizeForgotten == /\ pc = "clear"
                      /\ doomed' = 0
                      /\ pc' = "destroy"
                      /\ UNCHANGED <<gameVars, vectorVars, next, last, enetVars,
                                     overlapped>>

SendQueuedAllButLast == /\ worker = "running" /\ taken < Len(out) - 1
                        /\ taken' = Len(out) - 1
                        /\ UNCHANGED <<gameVars, vectorVars, passVars, out, worker,
                                       overlapped>>

-----------------------------------------------------------------------------
(* The game thread.                                                            *)

(* push_back, first half: the size grows before the element exists. *)
Reserve == /\ pc # "done"
           /\ gamePc = "idle" /\ sent < MaxSends
           /\ sent' = sent + 1
           /\ size' = size + 1
           /\ slot' = size + 1
           /\ gamePc' = "constructing"
           /\ overlapped' = IF InPass THEN overlapped \union {sent + 1}
                                      ELSE overlapped
           /\ UNCHANGED <<mem, passVars, enetVars>>

(* push_back, second half: the message is copied into the reserved slot, even  *)
(* when a clear() in between has put that slot beyond the size.                *)
Construct == /\ pc # "done"
             /\ gamePc = "constructing"
             /\ mem' = [mem EXCEPT ![slot] = sent]
             /\ gamePc' = "idle"
             /\ UNCHANGED <<sent, slot, size, passVars, enetVars, overlapped>>

-----------------------------------------------------------------------------
(* The client thread: one pass of Client::Invoke.                              *)

BeginPass == /\ pc = "idle"
             /\ pc' = "scan"
             /\ next' = 1 /\ last' = size
             /\ overlapped' = IF gamePc = "constructing"
                              THEN overlapped \union {sent} ELSE overlapped
             /\ UNCHANGED <<gameVars, vectorVars, doomed, enetVars>>

(* One turn of the range-for: `if (!packet.empty()) client.send_packet(...)`. *)
ScanSlot == /\ pc = "scan" /\ next <= last
            /\ out' = IF mem[next] # Empty THEN Append(out, mem[next]) ELSE out
            /\ next' = next + 1
            /\ UNCHANGED <<gameVars, vectorVars, pc, last, doomed, taken, worker,
                           overlapped>>

EndScan == /\ pc = "scan" /\ next > last
           /\ pc' = "clear"
           /\ UNCHANGED <<gameVars, vectorVars, next, last, doomed, enetVars,
                          overlapped>>

(* clear(), first half: the size is read and zeroed. *)
ClearSize == /\ pc = "clear"
             /\ doomed' = size
             /\ size' = 0
             /\ pc' = "destroy"
             /\ UNCHANGED <<gameVars, mem, next, last, enetVars, overlapped>>

(* clear(), second half: the elements it counted are destroyed. *)
DestroySlots == /\ pc = "destroy"
                /\ mem' = [s \in Slots |-> IF s <= doomed THEN Empty ELSE mem[s]]
                /\ pc' = "idle"
                /\ UNCHANGED <<gameVars, size, next, last, doomed, enetVars,
                               overlapped>>

(* Consume() finds the DISCONNECT event: enetpp's disconnect() joins the       *)
(* worker and destroys the packets still queued, the loop ends and             *)
(* std::terminate() stops the process.                                         *)
ConsumeDisconnect == /\ pc = "idle" /\ worker = "lost"
                     /\ pc' = "done"
                     /\ out' = SubSeq(out, 1, taken)
                     /\ UNCHANGED <<gameVars, vectorVars, next, last, doomed,
                                    taken, worker, overlapped>>

-----------------------------------------------------------------------------
(* enetpp's worker thread.                                                     *)

(* send_queued_packets_in_thread empties the packet queue under its mutex. *)
SendQueued == /\ worker = "running" /\ taken < Len(out)
              /\ taken' = Len(out)
              /\ UNCHANGED <<gameVars, vectorVars, passVars, out, worker,
                             overlapped>>

(* ENet reports the peer as disconnected: peer = nullptr, the loop ends. *)
PeerLost == /\ worker = "running"
            /\ worker' = "lost"
            /\ UNCHANGED <<gameVars, vectorVars, passVars, out, taken, overlapped>>

-----------------------------------------------------------------------------
GameThread   == Reserve \/ Construct
ClientThread == \/ BeginPass \/ ScanSlot \/ EndScan
                \/ ClearSize \/ DestroySlots \/ ConsumeDisconnect
Worker       == SendQueued \/ PeerLost

Terminated == pc = "done" /\ UNCHANGED vars

Next == GameThread \/ ClientThread \/ Worker \/ Terminated

Spec == Init /\ [][Next]_vars

(* The client thread and the worker loop for ever, and a push_back once begun  *)
(* returns.  Nothing obliges the game to send, or the peer to be lost.         *)
Fairness == WF_vars(ClientThread) /\ WF_vars(Construct) /\ WF_vars(SendQueued)

FairSpec == Spec /\ Fairness

-----------------------------------------------------------------------------
(* Properties.                                                                 *)

InSlots(m)  == \E s \in 1..size : mem[s] = m
HandedOver(m) == \E k \in 1..Len(out) : out[k] = m
Pending(m)  == gamePc = "constructing" /\ m = sent

TypeOK == /\ sent \in 0..MaxSends
          /\ gamePc \in {"idle", "constructing"}
          /\ slot \in 0..MaxSends
          /\ mem \in [Slots -> Messages \union {Empty}]
          /\ size \in 0..MaxSends
          /\ pc \in {"idle", "scan", "clear", "destroy", "done"}
          /\ next \in 1..(MaxSends + 1)
          /\ last \in 0..MaxSends
          /\ doomed \in 0..MaxSends
          /\ out \in Seq(Messages)
          /\ taken \in 0..Len(out)
          /\ worker \in {"running", "lost", "failed"}
          /\ overlapped \subseteq Messages

(* However the push and the pass interleave, no message is handed to enetpp    *)
(* twice: a slot that was read is destroyed before it can be read again.       *)
NoDuplicate == \A j, k \in 1..Len(out) : out[j] = out[k] => j = k

(* The exact extent of the loss in Client::Invoke's unsynchronised clear():    *)
(* until the connection goes down, every message ever passed to Send is        *)
(* handed to enetpp, or still visible in the vector, or about to be, unless    *)
(* its push_back overlapped a pass.                                            *)
LostOnlyIfOverlapped ==
    pc # "done" => \A m \in 1..sent : \/ m \in overlapped
                                      \/ HandedOver(m)
                                      \/ InSlots(m)
                                      \/ Pending(m)

(* Messages whose push_back overlapped no pass leave in the order of Send.     *)
(* (The others may not: a string constructed in a slot that clear() has given  *)
(* back is found there by a later pass, behind newer messages.)                *)
OrderedUnlessOverlapped ==
    \A j, k \in 1..Len(out) :
        (j < k /\ out[j] \notin overlapped /\ out[k] \notin overlapped)
            => out[j] < out[k]

(* A message whose push_back overlapped no pass reaches ENet, unless the       *)
(* connection is lost first.                                                   *)
EventuallySent ==
    \A m \in Messages :
        (m <= sent) ~> \/ m \in overlapped
                       \/ \E k \in 1..taken : out[k] = m
                       \/ worker # "running"

(* Client::Invoke with enetpp implements an at-most-once channel.              *)
Channel == INSTANCE AtMostOnce WITH accepted  <- sent,
                                    delivered <- SubSeq(out, 1, taken)

ImplementsChannel == Channel!Spec
=============================================================================
