-------------------------- MODULE SendQueueProofs ---------------------------
(* What SendQueue's runs check for four messages, proved for every MaxSends.   *)
(* The argument is one inductive invariant: where the message in a slot may    *)
(* still be read from, and how it compares with what has been handed over.     *)
EXTENDS SendQueue, TLAPS

(* The numbers that have been constructed, or are lost before that. *)
Built == IF gamePc = "constructing" THEN sent - 1 ELSE sent

(* The slots this pass has read already, all of which it will destroy. *)
Read(s) == \/ pc = "scan" /\ s < next
           \/ pc = "clear" /\ s <= last
           \/ pc = "destroy" /\ s <= doomed

Settled(m) == m # Empty /\ m \notin overlapped

Bounds == /\ size <= sent
          /\ gamePc = "constructing" => slot \in Slots /\ sent >= 1
          /\ pc = "scan" => next <= last + 1
          /\ pc \in {"scan", "clear"} => last <= size

(* Every message sits in one slot or was handed over once, never both, except  *)
(* in the slots about to be destroyed.                                         *)
Unique == /\ \A s \in Slots : mem[s] <= Built
          /\ \A k \in 1..Len(out) : out[k] <= Built
          /\ \A s, t \in Slots : mem[s] = mem[t] /\ mem[s] # Empty => s = t
          /\ \A s \in Slots : \A k \in 1..Len(out) : out[k] = mem[s] => Read(s)
          /\ NoDuplicate

(* A message that overlapped no pass is visible to the next pass until read.   *)
Visible == \A s \in Slots : Settled(mem[s]) =>
              /\ gamePc = "constructing" /\ ~Read(s) => s # slot
              /\ pc = "idle" => s <= size
              /\ pc \in {"scan", "clear"} => s <= last
              /\ pc = "destroy" => s <= doomed

PendingFirst == gamePc = "constructing" /\ sent \notin overlapped /\ pc # "done"
                   => pc = "idle" /\ slot = size

Kept == pc # "done" => \A m \in 1..sent : \/ m \in overlapped
                                          \/ HandedOver(m)
                                          \/ Pending(m)
                                          \/ \E s \in Slots : mem[s] = m /\ ~Read(s)

Ordered == /\ \A s, t \in Slots : /\ s < t
                                  /\ Settled(mem[s]) /\ Settled(mem[t])
                                  => mem[s] < mem[t]
           /\ \A s \in Slots : \A k \in 1..Len(out) :
                  Settled(mem[s]) /\ Settled(out[k]) /\ ~Read(s) => out[k] < mem[s]
           /\ OrderedUnlessOverlapped

IInv == TypeOK /\ Bounds /\ Unique /\ Visible /\ PendingFirst /\ Kept /\ Ordered

LEMMA LastOrEarlier ==
  ASSUME NEW n \in Nat, NEW k \in 1..(n + 1)
  PROVE  k \in 1..n \/ k = n + 1
  OBVIOUS

-----------------------------------------------------------------------------
(* One lemma per action: each conjunct of the invariant survives it.           *)

LEMMA ReserveStep == IInv /\ Reserve => IInv'
<1> SUFFICES ASSUME IInv, Reserve PROVE IInv'
  OBVIOUS
<1> USE MaxSendsNat DEF IInv, TypeOK, Bounds, Messages, Slots, Empty,
                        gameVars, vectorVars, passVars, enetVars
<1>1. TypeOK'
  BY DEF Reserve, InPass
<1>2. Bounds'
  BY DEF Reserve, InPass
<1>3. Unique'
  BY DEF Reserve, InPass, Unique, NoDuplicate, Built, Read
<1>4. Visible'
  BY DEF Reserve, InPass, Visible, Settled, Read
<1>5. PendingFirst'
  BY DEF Reserve, InPass, PendingFirst
<1>6. Kept'
  BY DEF Reserve, InPass, Kept, HandedOver, Pending, Read
<1>7. Ordered'
  BY DEF Reserve, InPass, Ordered, OrderedUnlessOverlapped, Settled, Read
<1> QED BY <1>1, <1>2, <1>3, <1>4, <1>5, <1>6, <1>7

LEMMA ConstructStep == IInv /\ Construct => IInv'
<1> SUFFICES ASSUME IInv, Construct PROVE IInv'
  OBVIOUS
<1> USE MaxSendsNat DEF IInv, TypeOK, Bounds, Messages, Slots, Empty,
                        gameVars, vectorVars, passVars, enetVars
<1>1. TypeOK'
  BY DEF Construct
<1>2. Bounds'
  BY DEF Construct
<1>3. Unique'
  BY DEF Construct, Unique, NoDuplicate, Built, Read
<1>a. /\ mem' = [mem EXCEPT ![slot] = sent] /\ slot \in Slots
      /\ mem \in [Slots -> Messages \union {Empty}] /\ gamePc' = "idle"
      /\ UNCHANGED <<sent, slot, size, pc, next, last, doomed, out, overlapped>>
  BY DEF Construct
<1>4. Visible'
  <2> SUFFICES ASSUME NEW s \in Slots, Settled(mem[s])'
               PROVE  /\ pc = "idle" => s <= size
                      /\ pc \in {"scan", "clear"} => s <= last
                      /\ pc = "destroy" => s <= doomed
    BY <1>a DEF Visible
  <2>1. CASE s = slot
    BY <1>a, <2>1 DEF Settled, PendingFirst, Construct
  <2>2. CASE s # slot
    BY <1>a, <2>2 DEF Settled, Visible
  <2> QED BY <2>1, <2>2
<1>5. PendingFirst'
  BY DEF Construct, PendingFirst
<1>6. Kept'
  <2> SUFFICES ASSUME pc # "done", NEW m \in 1..sent, m \notin overlapped,
                      ~HandedOver(m)
               PROVE  \E s \in Slots : mem'[s] = m /\ ~Read(s)
    BY <1>a DEF Kept, HandedOver, Read
  <2>1. CASE m = sent
    BY <1>a, <2>1 DEF PendingFirst, Construct, Read
  <2>2. CASE m # sent
    <3>1. PICK s \in Slots : mem[s] = m /\ ~Read(s)
      BY <2>2 DEF Kept, Pending
    <3>2. m # Empty
      BY DEF Empty
    <3>3. s # slot
      BY <3>1, <3>2 DEF Visible, Settled, Construct
    <3> QED BY <1>a, <3>1, <3>3
  <2> QED BY <2>1, <2>2
<1>7. Ordered'
  <2>1. ASSUME NEW s \in Slots, NEW t \in Slots, s < t,
               Settled(mem[s])', Settled(mem[t])'
        PROVE  mem'[s] < mem'[t]
    <3>1. CASE s # slot /\ t # slot
      BY <1>a, <2>1, <3>1 DEF Ordered, Settled
    <3>2. CASE t = slot
      <4>1. mem'[t] = sent /\ mem'[s] = mem[s] /\ mem[s] <= sent - 1
        BY <1>a, <2>1, <3>2 DEF Unique, Built, Construct, Slots
      <4> QED BY <4>1 DEF TypeOK, Messages, Empty
    <3>3. CASE s = slot
      <4>1. (pc = "idle" /\ slot = size) \/ pc = "done"
        BY <1>a, <2>1, <3>3 DEF Settled, PendingFirst, Construct
      <4>2. t <= size
        BY <1>a, <2>1, <3>3, <4>1 DEF Settled, Visible, Slots, Construct
      <4> QED BY <2>1, <3>3, <4>1, <4>2 DEF Construct, TypeOK, Slots
    <3> QED BY <3>1, <3>2, <3>3
  <2>2. ASSUME NEW s \in Slots, NEW k \in 1..Len(out),
               Settled(mem[s])', Settled(out[k]), ~Read(s)
        PROVE  out[k] < mem'[s]
    BY <1>a, <2>2 DEF Ordered, Settled, Unique, Built, Construct, TypeOK, Messages, Empty
  <2>3. OrderedUnlessOverlapped'
    BY <1>a DEF Ordered, OrderedUnlessOverlapped
  <2> QED BY <1>a, <2>1, <2>2, <2>3 DEF Ordered, Settled, Read
<1> QED BY <1>1, <1>2, <1>3, <1>4, <1>5, <1>6, <1>7

LEMMA BeginPassStep == IInv /\ BeginPass => IInv'
<1> SUFFICES ASSUME IInv, BeginPass PROVE IInv'
  OBVIOUS
<1> USE MaxSendsNat DEF IInv, TypeOK, Bounds, Messages, Slots, Empty,
                        gameVars, vectorVars, passVars, enetVars
<1>1. TypeOK'
  BY DEF BeginPass
<1>2. Bounds'
  BY DEF BeginPass
<1>3. Unique'
  BY DEF BeginPass, Unique, NoDuplicate, Built, Read
<1>4. Visible'
  BY DEF BeginPass, Visible, Settled, Read
<1>5. PendingFirst'
  BY DEF BeginPass, PendingFirst
<1>6. Kept'
  BY DEF BeginPass, Kept, HandedOver, Pending, Read
<1>7. Ordered'
  BY DEF BeginPass, Ordered, OrderedUnlessOverlapped, Settled, Read
<1> QED BY <1>1, <1>2, <1>3, <1>4, <1>5, <1>6, <1>7

LEMMA ScanSlotStep == IInv /\ ScanSlot => IInv'
<1> SUFFICES ASSUME IInv, ScanSlot PROVE IInv'
  OBVIOUS
<1> USE MaxSendsNat DEF IInv, TypeOK, Bounds, Messages, Slots, Empty,
                        gameVars, vectorVars, passVars, enetVars
<1>0. out' \in Seq(Messages) /\ Len(out') >= Len(out)
  <2>1. next \in Slots
    BY DEF ScanSlot, TypeOK, Bounds, Slots
  <2>2. CASE mem[next] = Empty
    BY <2>2 DEF ScanSlot, TypeOK
  <2>3. CASE mem[next] # Empty
    <3>1. mem[next] \in Messages /\ out' = Append(out, mem[next])
      BY <2>1, <2>3 DEF ScanSlot, TypeOK
    <3> QED BY <3>1 DEF TypeOK
  <2> QED BY <2>2, <2>3
<1>1. TypeOK'
  BY <1>0 DEF ScanSlot
<1>2. Bounds'
  BY DEF ScanSlot
<1>3. Unique'
  BY SMTT(60) DEF ScanSlot, Unique, NoDuplicate, Built, Read
<1>4. Visible'
  BY DEF ScanSlot, Visible, Settled, Read
<1>5. PendingFirst'
  BY DEF ScanSlot, PendingFirst
<1>6. Kept'
  BY SMTT(60) DEF ScanSlot, Kept, HandedOver, Pending, Read
<1>7. Ordered'
  <2>1. /\ mem' = mem /\ overlapped' = overlapped /\ pc' = pc /\ pc = "scan"
        /\ next' = next + 1 /\ next \in Slots /\ out \in Seq(Messages)
    BY DEF ScanSlot
  <2>2. CASE mem[next] = Empty
    <3>1. out' = out
      BY <2>2 DEF ScanSlot
    <3> QED BY <2>1, <3>1 DEF Ordered, OrderedUnlessOverlapped, Settled, Read
  <2>3. CASE mem[next] # Empty
    <3>1. /\ Len(out') = Len(out) + 1 /\ out'[Len(out) + 1] = mem[next]
          /\ Len(out) \in Nat
          /\ \A k \in 1..Len(out) : out'[k] = out[k]
      BY <2>1, <2>3 DEF ScanSlot
    <3>2. (\A s, t \in Slots : s < t /\ Settled(mem[s]) /\ Settled(mem[t])
                                 => mem[s] < mem[t])'
      BY <2>1 DEF Ordered, Settled
    <3>3. (\A s \in Slots : \A k \in 1..Len(out) :
              Settled(mem[s]) /\ Settled(out[k]) /\ ~Read(s) => out[k] < mem[s])'
      <4> SUFFICES ASSUME NEW s \in Slots, NEW k \in 1..Len(out'),
                          Settled(mem'[s]), Settled(out'[k]), ~(s < next + 1)
                   PROVE  out'[k] < mem'[s]
        BY <2>1 DEF Settled, Read
      <4>1. CASE k \in 1..Len(out)
        <5>1. ~Read(s) /\ mem'[s] = mem[s] /\ out'[k] = out[k]
          BY <2>1, <3>1, <4>1 DEF Read
        <5> QED BY <4>1, <5>1 DEF Ordered
      <4>2. CASE k = Len(out) + 1
        <5>1. next < s /\ mem'[s] = mem[s] /\ out'[k] = mem[next]
          BY <2>1, <3>1, <4>2
        <5> QED BY <2>1, <5>1 DEF Ordered
      <4>3. k \in 1..Len(out) \/ k = Len(out) + 1
        BY <3>1, LastOrEarlier
      <4> QED BY <4>1, <4>2, <4>3
    <3>4. OrderedUnlessOverlapped'
      <4> SUFFICES ASSUME NEW j \in 1..Len(out'), NEW k \in 1..Len(out'), j < k,
                          out'[j] \notin overlapped, out'[k] \notin overlapped
                   PROVE  out'[j] < out'[k]
        BY <2>1 DEF OrderedUnlessOverlapped
      <4>0. j \in 1..Len(out) /\ out'[j] = out[j] /\ out[j] \in Messages
        BY <2>1, <3>1
      <4>1. CASE k \in 1..Len(out)
        <5>1. out'[k] = out[k]
          BY <3>1, <4>1
        <5> QED BY <4>0, <4>1, <5>1 DEF Ordered, OrderedUnlessOverlapped
      <4>2. CASE k = Len(out) + 1
        <5>1. ~Read(next) /\ Settled(mem[next]) /\ out'[k] = mem[next]
          BY <2>1, <2>3, <3>1, <4>2 DEF Read, Settled
        <5>2. Settled(out[j])
          BY <4>0 DEF Settled
        <5> QED BY <2>1, <4>0, <5>1, <5>2 DEF Ordered
      <4>3. k \in 1..Len(out) \/ k = Len(out) + 1
        BY <3>1, LastOrEarlier
      <4> QED BY <4>1, <4>2, <4>3
    <3> QED BY <3>2, <3>3, <3>4 DEF Ordered
  <2> QED BY <2>2, <2>3
<1> QED BY <1>1, <1>2, <1>3, <1>4, <1>5, <1>6, <1>7

LEMMA EndScanStep == IInv /\ EndScan => IInv'
<1> SUFFICES ASSUME IInv, EndScan PROVE IInv'
  OBVIOUS
<1> USE MaxSendsNat DEF IInv, TypeOK, Bounds, Messages, Slots, Empty,
                        gameVars, vectorVars, passVars, enetVars
<1>1. TypeOK'
  BY DEF EndScan
<1>2. Bounds'
  BY DEF EndScan
<1>3. Unique'
  BY DEF EndScan, Unique, NoDuplicate, Built, Read
<1>4. Visible'
  BY DEF EndScan, Visible, Settled, Read
<1>5. PendingFirst'
  BY DEF EndScan, PendingFirst
<1>6. Kept'
  BY DEF EndScan, Kept, HandedOver, Pending, Read
<1>7. Ordered'
  BY DEF EndScan, Ordered, OrderedUnlessOverlapped, Settled, Read
<1> QED BY <1>1, <1>2, <1>3, <1>4, <1>5, <1>6, <1>7

LEMMA ClearSizeStep == IInv /\ ClearSize => IInv'
<1> SUFFICES ASSUME IInv, ClearSize PROVE IInv'
  OBVIOUS
<1> USE MaxSendsNat DEF IInv, TypeOK, Bounds, Messages, Slots, Empty,
                        gameVars, vectorVars, passVars, enetVars
<1>1. TypeOK'
  BY DEF ClearSize
<1>2. Bounds'
  BY DEF ClearSize
<1>3. Unique'
  BY DEF ClearSize, Unique, NoDuplicate, Built, Read
<1>4. Visible'
  BY DEF ClearSize, Visible, Settled, Read
<1>5. PendingFirst'
  BY DEF ClearSize, PendingFirst
<1>6. Kept'
  <2>1. ASSUME NEW m \in 1..sent, m \notin overlapped, ~Pending(m)
        PROVE  HandedOver(m)
    <3> SUFFICES ASSUME ~HandedOver(m) PROVE FALSE
      OBVIOUS
    <3>1. PICK s \in Slots : mem[s] = m /\ ~Read(s)
      BY <2>1 DEF Kept, ClearSize
    <3>2. s <= last
      BY <2>1, <3>1 DEF Visible, Settled, Empty, ClearSize
    <3> QED BY <3>1, <3>2 DEF Read, ClearSize
  <2> QED BY <2>1 DEF Kept, HandedOver, Pending, ClearSize, gameVars, enetVars
<1>7. Ordered'
  BY DEF ClearSize, Ordered, OrderedUnlessOverlapped, Settled, Read
<1> QED BY <1>1, <1>2, <1>3, <1>4, <1>5, <1>6, <1>7

LEMMA DestroySlotsStep == IInv /\ DestroySlots => IInv'
<1> SUFFICES ASSUME IInv, DestroySlots PROVE IInv'
  OBVIOUS
<1> USE MaxSendsNat DEF IInv, TypeOK, Bounds, Messages, Slots, Empty,
                        gameVars, vectorVars, passVars, enetVars
<1>1. TypeOK'
  BY DEF DestroySlots
<1>2. Bounds'
  BY DEF DestroySlots
<1>3. Unique'
  BY DEF DestroySlots, Unique, NoDuplicate, Built, Read
<1>4. Visible'
  BY DEF DestroySlots, Visible, Settled, Read
<1>5. PendingFirst'
  BY DEF DestroySlots, PendingFirst
<1>6. Kept'
  BY DEF DestroySlots, Kept, HandedOver, Pending, Read
<1>7. Ordered'
  BY DEF DestroySlots, Ordered, OrderedUnlessOverlapped, Settled, Read
<1> QED BY <1>1, <1>2, <1>3, <1>4, <1>5, <1>6, <1>7

LEMMA ConsumeDisconnectStep == IInv /\ ConsumeDisconnect => IInv'
<1> SUFFICES ASSUME IInv, ConsumeDisconnect PROVE IInv'
  OBVIOUS
<1> USE MaxSendsNat DEF IInv, TypeOK, Bounds, Messages, Slots, Empty,
                        gameVars, vectorVars, passVars, enetVars
<1>1. TypeOK'
  BY DEF ConsumeDisconnect
<1>2. Bounds'
  BY DEF ConsumeDisconnect
<1>3. Unique'
  BY DEF ConsumeDisconnect, Unique, NoDuplicate, Built, Read
<1>4. Visible'
  BY DEF ConsumeDisconnect, Visible, Settled, Read
<1>5. PendingFirst'
  BY DEF ConsumeDisconnect, PendingFirst
<1>6. Kept'
  BY DEF ConsumeDisconnect, Kept, HandedOver, Pending, Read
<1>7. Ordered'
  <2>1. /\ Len(out') = taken
        /\ \A k \in 1..taken : out'[k] = out[k] /\ k \in 1..Len(out)
    BY DEF ConsumeDisconnect, TypeOK
  <2>2. UNCHANGED <<mem, overlapped>> /\ \A s \in Slots : ~Read(s)
    BY DEF ConsumeDisconnect, vectorVars, Read
  <2>3. OrderedUnlessOverlapped'
    BY <2>1, <2>2 DEF Ordered, OrderedUnlessOverlapped
  <2> QED BY <2>1, <2>2, <2>3 DEF Ordered, Settled
<1> QED BY <1>1, <1>2, <1>3, <1>4, <1>5, <1>6, <1>7

LEMMA SendQueuedStep == IInv /\ SendQueued => IInv'
<1> SUFFICES ASSUME IInv, SendQueued PROVE IInv'
  OBVIOUS
<1> USE MaxSendsNat DEF IInv, TypeOK, Bounds, Messages, Slots, Empty,
                        gameVars, vectorVars, passVars, enetVars
<1>1. TypeOK'
  BY DEF SendQueued
<1>2. Bounds'
  BY DEF SendQueued
<1>3. Unique'
  BY DEF SendQueued, Unique, NoDuplicate, Built, Read
<1>4. Visible'
  BY DEF SendQueued, Visible, Settled, Read
<1>5. PendingFirst'
  BY DEF SendQueued, PendingFirst
<1>6. Kept'
  BY DEF SendQueued, Kept, HandedOver, Pending, Read
<1>7. Ordered'
  BY DEF SendQueued, Ordered, OrderedUnlessOverlapped, Settled, Read
<1> QED BY <1>1, <1>2, <1>3, <1>4, <1>5, <1>6, <1>7

LEMMA PeerLostStep == IInv /\ PeerLost => IInv'
<1> SUFFICES ASSUME IInv, PeerLost PROVE IInv'
  OBVIOUS
<1> USE MaxSendsNat DEF IInv, TypeOK, Bounds, Messages, Slots, Empty,
                        gameVars, vectorVars, passVars, enetVars
<1>1. TypeOK'
  BY DEF PeerLost
<1>2. Bounds'
  BY DEF PeerLost
<1>3. Unique'
  BY DEF PeerLost, Unique, NoDuplicate, Built, Read
<1>4. Visible'
  BY DEF PeerLost, Visible, Settled, Read
<1>5. PendingFirst'
  BY DEF PeerLost, PendingFirst
<1>6. Kept'
  BY DEF PeerLost, Kept, HandedOver, Pending, Read
<1>7. Ordered'
  BY DEF PeerLost, Ordered, OrderedUnlessOverlapped, Settled, Read
<1> QED BY <1>1, <1>2, <1>3, <1>4, <1>5, <1>6, <1>7

-----------------------------------------------------------------------------
LEMMA InitIInv == Init => IInv
<1> SUFFICES ASSUME Init PROVE IInv
  OBVIOUS
<1> USE MaxSendsNat DEF Init, Slots, Messages, Empty
<1>1. TypeOK /\ Bounds
  BY DEF TypeOK, Bounds
<1>2. Unique /\ Visible /\ PendingFirst
  BY DEF Unique, Built, NoDuplicate, Visible, Settled, PendingFirst
<1>3. Kept /\ Ordered
  BY DEF Kept, Ordered, Settled, OrderedUnlessOverlapped
<1> QED BY <1>1, <1>2, <1>3 DEF IInv

LEMMA StutterStep == IInv /\ UNCHANGED vars => IInv'
<1> SUFFICES ASSUME IInv, UNCHANGED vars PROVE IInv'
  OBVIOUS
<1> USE DEF vars, gameVars, vectorVars, passVars, enetVars
<1>1. TypeOK' /\ Bounds' /\ Unique'
  BY DEF IInv, TypeOK, Bounds, Unique, Built, Read, NoDuplicate
<1>2. Visible' /\ PendingFirst'
  BY DEF IInv, Visible, Settled, Read, PendingFirst
<1>3. Kept' /\ Ordered'
  BY DEF IInv, Kept, HandedOver, Pending, Read, Ordered, Settled,
         OrderedUnlessOverlapped
<1> QED BY <1>1, <1>2, <1>3 DEF IInv

LEMMA NextIInv == IInv /\ [Next]_vars => IInv'
  BY ReserveStep, ConstructStep, BeginPassStep, ScanSlotStep, EndScanStep,
     ClearSizeStep, DestroySlotsStep, ConsumeDisconnectStep, SendQueuedStep,
     PeerLostStep, StutterStep
     DEF Next, GameThread, ClientThread, Worker, Terminated

(* The strengthened invariant holds in every reachable state. *)
THEOREM Invariant == Spec => []IInv
  BY InitIInv, NextIInv, PTL DEF Spec

(* Every variable of the send path keeps its type and its bounds. *)
THEOREM TypeCorrect == Spec => []TypeOK
<1>1. IInv => TypeOK
  BY DEF IInv
<1> QED BY <1>1, Invariant, PTL

(* Client::Invoke never hands the same message to enetpp twice. *)
THEOREM NoMessageTwice == Spec => []NoDuplicate
<1>1. IInv => NoDuplicate
  BY DEF IInv, Unique
<1> QED BY <1>1, Invariant, PTL

(* A message is lost by Client::Invoke only if its push_back overlapped a pass. *)
THEOREM LossNeedsOverlap == Spec => []LostOnlyIfOverlapped
<1>1. IInv => LostOnlyIfOverlapped
  <2> SUFFICES ASSUME IInv, pc # "done", NEW m \in 1..sent, m \notin overlapped,
                      ~HandedOver(m), ~Pending(m)
               PROVE  InSlots(m)
    BY DEF LostOnlyIfOverlapped
  <2>1. PICK s \in Slots : mem[s] = m /\ ~Read(s)
    BY DEF IInv, Kept
  <2>2. Settled(mem[s])
    BY <2>1 DEF Settled, Empty
  <2>3. s \in 1..size
    BY <2>1, <2>2, MaxSendsNat
       DEF IInv, Visible, Read, TypeOK, Bounds, Slots
  <2> QED BY <2>1, <2>3 DEF InSlots
<1> QED BY <1>1, Invariant, PTL

(* Messages whose push_back overlapped no pass leave in the order of Send. *)
THEOREM OrderKept == Spec => []OrderedUnlessOverlapped
<1>1. IInv => OrderedUnlessOverlapped
  BY DEF IInv, Ordered
<1> QED BY <1>1, Invariant, PTL

-----------------------------------------------------------------------------
(* The refinement.  What the worker has taken is a prefix of what was handed   *)
(* over, and no step takes any of it back.                                     *)

Delivered == SubSeq(out, 1, taken)

LEMMA PrefixFacts ==
  ASSUME NEW S, NEW s \in Seq(S), NEW n \in 0..Len(s)
  PROVE  /\ SubSeq(s, 1, n) \in Seq(S)
         /\ Len(SubSeq(s, 1, n)) = n
         /\ \A k \in 1..n : SubSeq(s, 1, n)[k] = s[k]
         /\ n \in Nat /\ n <= Len(s)
  OBVIOUS

LEMMA DeliverStep ==
  ASSUME IInv, IInv', sent' = sent, taken <= taken',
         \A k \in 1..taken : out'[k] = out[k]
  PROVE  Channel!Deliver
<1>1. /\ Delivered' \in Seq(Messages)
      /\ Len(Delivered') = taken'
      /\ \A k \in 1..taken' : Delivered'[k] = out'[k]
      /\ taken' \in Nat /\ taken' <= Len(out')
  <2>1. out' \in Seq(Messages) /\ taken' \in 0..Len(out')
    BY DEF IInv, TypeOK, Messages
  <2> QED BY <2>1, PrefixFacts DEF Delivered
<1>2. Channel!Extends(Delivered', Delivered)
  <2>1. out \in Seq(Messages) /\ taken \in 0..Len(out)
    BY DEF IInv, TypeOK
  <2>2. /\ Len(Delivered) = taken /\ taken \in Nat
        /\ \A k \in 1..taken : Delivered[k] = out[k]
    BY <2>1, PrefixFacts DEF Delivered
  <2> QED BY <1>1, <2>2 DEF Channel!Extends
<1>3. \A k \in 1..Len(Delivered') : Delivered'[k] <= sent
  <2>1. \A k \in 1..Len(out') : out'[k] <= Built'
    BY DEF IInv, Unique
  <2>2. Built' <= sent' /\ Built' \in Int /\ sent' \in Int
    <3>1. sent' \in 0..MaxSends
      BY DEF IInv, TypeOK
    <3> QED BY <3>1, MaxSendsNat DEF Built
  <2>3. out' \in Seq(Messages)
    BY DEF IInv, TypeOK, Messages
  <2>4. \A k \in 1..taken' : out'[k] <= sent'
    BY <1>1, <2>1, <2>2, <2>3, MaxSendsNat, SMTT(60) DEF Messages
  <2> QED BY <1>1, <2>4
<1>4. Channel!NoRepeat(Delivered')
  BY <1>1 DEF IInv, Unique, NoDuplicate, Channel!NoRepeat
<1> QED BY <1>1, <1>2, <1>3, <1>4
        DEF Channel!Deliver, Delivered, Channel!Messages, Messages

LEMMA ChannelInit == Init => Channel!Init
  BY DEF Init, Channel!Init

LEMMA ChannelStep == IInv /\ IInv' /\ [Next]_vars => [Channel!Next]_(Channel!vars)
<1> SUFFICES ASSUME IInv, IInv', [Next]_vars PROVE [Channel!Next]_(Channel!vars)
  OBVIOUS
<1> USE DEF gameVars, vectorVars, passVars, enetVars
<1>1. CASE Reserve
  BY <1>1, MaxSendsNat DEF Reserve, Channel!Next, Channel!Accept, IInv, TypeOK
<1>2. CASE Construct \/ BeginPass \/ EndScan \/ ClearSize \/ DestroySlots \/ PeerLost
  BY <1>2 DEF Construct, BeginPass, EndScan, ClearSize, DestroySlots, PeerLost,
              Channel!vars
<1>3. CASE ScanSlot
  <2>1. sent' = sent /\ taken' = taken /\ \A k \in 1..taken : out'[k] = out[k]
    BY <1>3, MaxSendsNat DEF ScanSlot, IInv, TypeOK, Bounds, Slots
  <2> QED BY <2>1, DeliverStep DEF IInv, TypeOK, Channel!Next
<1>4. CASE ConsumeDisconnect
  <2>1. sent' = sent /\ taken' = taken /\ \A k \in 1..taken : out'[k] = out[k]
    BY <1>4 DEF ConsumeDisconnect, IInv, TypeOK
  <2> QED BY <2>1, DeliverStep DEF IInv, TypeOK, Channel!Next
<1>5. CASE SendQueued
  <2>1. /\ sent' = sent /\ out' = out /\ taken <= taken'
    BY <1>5 DEF SendQueued, IInv, TypeOK
  <2> QED BY <2>1, DeliverStep DEF Channel!Next
<1>6. CASE UNCHANGED vars
  BY <1>6 DEF vars, Channel!vars
<1> QED BY <1>1, <1>2, <1>3, <1>4, <1>5, <1>6
        DEF Next, GameThread, ClientThread, Worker, Terminated

(* Client::Invoke with enetpp's packet queue implements the at-most-once       *)
(* channel, for every number of messages.                                      *)
THEOREM Refinement == Spec => ImplementsChannel
<1>1. Init => Channel!Init
  BY ChannelInit
<1>2. IInv /\ IInv' /\ [Next]_vars => [Channel!Next]_(Channel!vars)
  BY ChannelStep
<1> QED BY <1>1, <1>2, Invariant, PTL DEF Spec, ImplementsChannel, Channel!Spec
=============================================================================
