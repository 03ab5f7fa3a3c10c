--------------------------- MODULE GameSyncProofs ---------------------------
(* What is proved of the replication of enemies and attacks, for any number of *)
(* processes, enemies and attacks.                                             *)
EXTENDS GameSync, TLAPS

-----------------------------------------------------------------------------
(* The inductive invariant.                                                    *)

Packets == EnemyPackets \union AttackPackets
Sends   == [by : Procs, packet : Packets]
Calls   == [pc : {"create", "end"}, is_host : BOOLEAN, enemy : Enemies]

(* A map is a bag with no enemy twice: the bag of a set. *)
Maps == {SetToBag(S) : S \in SUBSET Enemies}

WasSent(x)  == \E k \in 1..Len(sent) : sent[k].packet = x
InBox(p, x) == \E k \in 1..Len(inbox[p]) : inbox[p][k] = x
Did(p, a)   == \E k \in 1..Len(performed[p]) : performed[p][k] = a
Once(s)     == \A j, k \in 1..Len(s) : s[j] = s[k] => j = k

Types ==
    /\ is_host \in BOOLEAN /\ joined \subseteq Procs /\ replica \subseteq Procs
    /\ enemies \in [Procs -> Maps]
    /\ spawned \in [Procs -> 0..MaxSpawns] /\ fired \in [Procs -> 0..MaxFires]
    /\ performed \in [Procs -> Seq(Attacks)]
    /\ hook \in [Procs -> [Threads -> Calls \union {NoCall}]]
    /\ inbox \in [Procs -> Seq(Packets)]
    /\ sent \in Seq(Sends)

(* The game's call is about the last enemy it made, and only the host's can    *)
(* have read is_host as true; the client thread's, which never is the host's,  *)
(* is about an enemy that was announced and is out of the inbox.               *)
HooksRight == \A p \in Procs :
    /\ hook[p]["game"] # NoCall
          => hook[p]["game"].enemy = <<p, spawned[p]>> /\ spawned[p] # 0
    /\ \A t \in Threads : hook[p][t].is_host => p = Server /\ t = "game"
    /\ \A e \in Enemies : hook[p]["client"].enemy = e
          => /\ p # Server /\ e[1] = Server
             /\ WasSent(Enemy(e)) /\ ~InBox(p, Enemy(e))

(* What has been sent was made by its sender, enemies by the host, and an      *)
(* enemy still in its call has not been sent.                                  *)
SentRight == \A x \in Packets : WasSent(x) =>
    IF x.type = "OnAttack"
    THEN x.what[2] <= fired[x.what[1]]
    ELSE /\ x.what[1] = Server /\ x.what[2] <= spawned[Server]
         /\ hook[Server]["game"] # NoCall => x.what # hook[Server]["game"].enemy

(* A packet is in an inbox once, and not in that of its sender. *)
InboxRight == \A p \in Procs :
    /\ Once(inbox[p])
    /\ \A x \in Packets : InBox(p, x) => WasSent(x) /\ x.what[1] # p

(* An attack that was repeated had been sent, and is out of the inbox. *)
PerformedRight == \A p \in Procs :
    /\ Once(performed[p])
    /\ \A a \in Attacks : Did(p, a) => WasSent(Attack(a)) /\ ~InBox(p, Attack(a))

(* An enemy in a map is still in the call that made it, or was announced; one  *)
(* of another process's is out of the inbox and not about to be created.       *)
MapsRight == \A p \in Procs : \A e \in BagToSet(enemies[p]) :
    \/ /\ hook[p]["game"].pc = "end" /\ hook[p]["game"].enemy = e
    \/ /\ e[1] = Server /\ WasSent(Enemy(e)) /\ ~InBox(p, Enemy(e))
       /\ hook[p]["client"].pc = "create" => hook[p]["client"].enemy # e

IInv == Types /\ NoEcho /\ HooksRight /\ SentRight /\ InboxRight /\ PerformedRight
        /\ MapsRight

-----------------------------------------------------------------------------
(* Sequences without repetitions, and bags of sets.                            *)

(* One more, which was not there. *)
LEMMA Appended ==
  ASSUME NEW S, NEW s \in Seq(S), NEW x \in S, NEW t, t = Append(s, x), Once(s),
         \A k \in 1..Len(s) : s[k] # x
  PROVE  /\ t \in Seq(S) /\ Once(t)
         /\ Len(t) = Len(s) + 1 /\ Len(s) \in Nat
         /\ t[Len(s) + 1] = x /\ \A k \in 1..Len(s) : t[k] = s[k]
         /\ \A k \in 1..Len(t) : t[k] = x \/ \E j \in 1..Len(s) : t[k] = s[j]
  <1>1. /\ t \in Seq(S) /\ Len(t) = Len(s) + 1 /\ Len(s) \in Nat
        /\ t[Len(s) + 1] = x /\ \A k \in 1..Len(s) : t[k] = s[k]
    OBVIOUS
  <1>2. \A k \in 1..Len(t) : k \in 1..Len(s) \/ k = Len(s) + 1
    BY <1>1
  <1>3. Once(t)
    BY <1>1, <1>2 DEF Once
  <1>4. \A k \in 1..Len(t) : t[k] = x \/ \E j \in 1..Len(s) : t[k] = s[j]
    BY <1>1, <1>2
  <1> QED  BY <1>1, <1>3, <1>4

(* One less, which is not there again. *)
LEMMA Shortened ==
  ASSUME NEW S, NEW s \in Seq(S), NEW k \in DOMAIN s, NEW t, t = Without(s, k), Once(s)
  PROVE  /\ t \in Seq(S) /\ s[k] \in S /\ Once(t)
         /\ k \in 1..Len(s)
         /\ \A i \in 1..Len(t) : t[i] # s[k] /\ \E j \in 1..Len(s) : s[j] = t[i]
  <1>1. /\ Len(s) \in Nat /\ k \in 1..Len(s) /\ \A i \in 1..Len(s) : s[i] \in S
    OBVIOUS
  <1>2. PICK n \in Nat : n = Len(s) - 1
    BY <1>1
  <1> DEFINE At(i) == IF i < k THEN i ELSE i + 1
  <1>3. t = [i \in 1..n |-> IF i < k THEN s[i] ELSE s[i + 1]]
    BY <1>2 DEF Without
  <1>4. \A i \in 1..n : At(i) \in 1..Len(s) /\ At(i) # k
    BY <1>1, <1>2
  <1>5. \A i, j \in 1..n : At(i) = At(j) => i = j
    BY <1>1
  <1>6. \A i \in 1..n : t[i] = s[At(i)]
    BY <1>3
  <1> HIDE DEF At
  <1>7. t \in Seq(S) /\ Len(t) = n
    <2>1. \A i \in 1..n : t[i] \in S
      BY <1>1, <1>4, <1>6
    <2>2. t \in [1..n -> S]
      BY <1>3, <2>1
    <2> QED  BY <1>2, <2>2
  <1>8. Once(t)
    BY <1>4, <1>5, <1>6, <1>7 DEF Once
  <1>9. \A i \in 1..Len(t) : t[i] # s[k] /\ \E j \in 1..Len(s) : s[j] = t[i]
    BY <1>1, <1>4, <1>6, <1>7 DEF Once
  <1> QED  BY <1>1, <1>7, <1>8, <1>9

(* An enemy that was not in a map is added, and one that was is removed. *)
LEMMA OneMore ==
  ASSUME NEW B \in Maps, NEW e \in Enemies, e \notin BagToSet(B)
  PROVE  /\ B (+) SetToBag({e}) \in Maps
         /\ BagToSet(B (+) SetToBag({e})) = BagToSet(B) \union {e}
  <1>1. PICK S \in SUBSET Enemies : B = SetToBag(S)
    BY DEF Maps
  <1>2. B (+) SetToBag({e}) = SetToBag(S \union {e})
    BY <1>1 DEF (+), SetToBag, BagToSet
  <1> QED  BY <1>1, <1>2 DEF Maps, SetToBag, BagToSet

LEMMA OneLess ==
  ASSUME NEW B \in Maps, NEW e \in Enemies
  PROVE  /\ B (-) SetToBag({e}) \in Maps
         /\ BagToSet(B (-) SetToBag({e})) = BagToSet(B) \ {e}
  <1>1. PICK S \in SUBSET Enemies : B = SetToBag(S)
    BY DEF Maps
  <1>2. B (-) SetToBag({e}) = SetToBag(S \ {e})
    BY <1>1 DEF (-), SetToBag, BagToSet
  <1> QED  BY <1>1, <1>2 DEF Maps, SetToBag, BagToSet

LEMMA NoEnemies == EmptyBag \in Maps /\ BagToSet(EmptyBag) = {}
  BY DEF EmptyBag, Maps, SetToBag, BagToSet

(* Enemies and attacks, and the packets that carry them. *)
LEMMA PacketTypes ==
  /\ \A e \in Enemies : /\ Enemy(e) \in Packets /\ Enemy(e).what = e
                        /\ Enemy(e).type = "OnAddEnemy"
                        /\ e # Nothing /\ e[1] \in Procs /\ e[2] \in 1..MaxSpawns
  /\ \A a \in Attacks : /\ Attack(a) \in Packets /\ Attack(a).what = a
                        /\ Attack(a).type = "OnAttack"
                        /\ a[1] \in Procs /\ a[2] \in 1..MaxFires
  /\ \A x \in Packets : /\ x.type = "OnAddEnemy" => x.what \in Enemies /\ x = Enemy(x.what)
                        /\ x.type = "OnAttack" => x.what \in Attacks /\ x = Attack(x.what)
                        /\ x.type \in {"OnAddEnemy", "OnAttack"}
  BY DEF Packets, EnemyPackets, AttackPackets, Enemy, Attack, Enemies, Attacks, Nothing

-----------------------------------------------------------------------------
(* Sending.                                                                    *)

(* What is new and the sender's own is sent, and reaches others only. *)
LEMMA SendKeeps ==
  ASSUME Types, NoEcho, InboxRight, NEW p \in Procs, NEW x \in Packets,
         x.what[1] = p, ~WasSent(x), Send(p, x, inbox)
  PROVE  /\ sent' \in Seq(Sends) /\ inbox' \in [Procs -> Seq(Packets)]
         /\ NoEcho' /\ InboxRight'
         /\ \A y : WasSent(y)' <=> WasSent(y) \/ y = x
         /\ \A q \in Procs : \A y : InBox(q, y)' => InBox(q, y) \/ (y = x /\ q # p)
  <1> DEFINE s == [by |-> p, packet |-> x]
  <1>1. /\ sent \in Seq(Sends) /\ s \in Sends /\ sent' = Append(sent, s)
        /\ s.by = p /\ s.packet = x
    BY DEF Types, Sends, Send
  <1> HIDE DEF s
  <1>2. \A k \in 1..Len(sent) : sent[k].packet # x /\ sent[k] # s
    BY <1>1 DEF WasSent
  <1>3. Once(sent) /\ DOMAIN sent = 1..Len(sent)
    BY <1>1 DEF NoEcho, Once
  <1>4. /\ sent' \in Seq(Sends) /\ Len(sent') = Len(sent) + 1 /\ Len(sent) \in Nat
        /\ sent'[Len(sent) + 1] = s /\ \A k \in 1..Len(sent) : sent'[k] = sent[k]
    BY <1>1, <1>2, <1>3, Appended
  <1>5. DOMAIN sent' = 1..Len(sent')
    BY <1>4
  <1>6. \A k \in 1..Len(sent') : k \in 1..Len(sent) \/ k = Len(sent) + 1
    BY <1>4
  <1>7. NoEcho'
    <2>1. \A k \in 1..Len(sent') : sent'[k].by = sent'[k].packet.what[1]
      BY <1>1, <1>3, <1>4, <1>6 DEF NoEcho
    <2>2. \A j, k \in 1..Len(sent') : sent'[j].packet = sent'[k].packet => j = k
      BY <1>1, <1>2, <1>3, <1>4, <1>6 DEF NoEcho
    <2> QED  BY <1>5, <2>1, <2>2 DEF NoEcho
  <1>8. \A y : WasSent(y)' <=> WasSent(y) \/ y = x
    <2>1. Len(sent) + 1 \in 1..Len(sent') /\ \A k \in 1..Len(sent) : k \in 1..Len(sent')
      BY <1>4
    <2> QED  BY <1>1, <1>4, <1>6, <2>1 DEF WasSent
  <1>9. ASSUME NEW q \in Procs
        PROVE  /\ inbox'[q] \in Seq(Packets) /\ Once(inbox'[q])
               /\ \A y : InBox(q, y)' => InBox(q, y) \/ (y = x /\ q # p)
    <2>1. inbox[q] \in Seq(Packets) /\ Once(inbox[q])
      BY DEF Types, InboxRight
    <2>2. CASE inbox'[q] = inbox[q]
      BY <2>1, <2>2 DEF InBox
    <2>3. CASE q # p /\ inbox'[q] = Append(inbox[q], x)
      <3>1. \A k \in 1..Len(inbox[q]) : inbox[q][k] # x
        BY DEF InboxRight, InBox
      <3> DEFINE b == inbox[q]
      <3>2. b \in Seq(Packets) /\ x \in Packets /\ inbox'[q] = Append(b, x) /\ Once(b)
            /\ \A k \in 1..Len(b) : b[k] # x
        BY <2>1, <2>3, <3>1
      <3> HIDE DEF b
      <3>3. /\ inbox'[q] \in Seq(Packets) /\ Once(inbox'[q])
            /\ \A k \in 1..Len(inbox'[q]) :
                  inbox'[q][k] = x \/ \E j \in 1..Len(b) : inbox'[q][k] = b[j]
        BY <3>2, Appended DEF Once
      <3>4. \A y : InBox(q, y)' => InBox(q, y) \/ y = x
        BY <3>3 DEF InBox, b
      <3> QED  BY <2>3, <3>3, <3>4
    <2> QED  BY <2>2, <2>3 DEF Send
  <1>10. inbox' \in [Procs -> Seq(Packets)]
    BY <1>9 DEF Send
  <1>11. InboxRight'
    BY <1>8, <1>9 DEF InboxRight
  <1> QED  BY <1>4, <1>7, <1>8, <1>9, <1>10, <1>11

(* A packet of an inbox is popped. *)
LEMMA PopKeeps ==
  ASSUME Types, InboxRight, NEW p \in Procs, NEW k \in DOMAIN inbox[p],
         inbox' = Popped(p, k), sent' = sent, NEW x, x = inbox[p][k]
  PROVE  /\ inbox' \in [Procs -> Seq(Packets)] /\ InboxRight'
         /\ x \in Packets /\ InBox(p, x) /\ ~InBox(p, x)'
         /\ \A q \in Procs : \A y : InBox(q, y)' => InBox(q, y)
  <1>1. inbox[p] \in Seq(Packets) /\ Once(inbox[p])
    BY DEF Types, InboxRight
  <1> DEFINE t == Without(inbox[p], k)
  <1>2. /\ t \in Seq(Packets) /\ x \in Packets /\ Once(t) /\ k \in 1..Len(inbox[p])
        /\ \A i \in 1..Len(t) : t[i] # x /\ \E j \in 1..Len(inbox[p]) : inbox[p][j] = t[i]
    <2> DEFINE s == inbox[p]
    <2>1. s \in Seq(Packets) /\ Once(s) /\ k \in DOMAIN s /\ t = Without(s, k)
      BY <1>1
    <2>2. x = s[k]
      OBVIOUS
    <2> HIDE DEF s, t
    <2>3. /\ t \in Seq(Packets) /\ s[k] \in Packets /\ Once(t) /\ k \in 1..Len(s)
          /\ \A i \in 1..Len(t) : t[i] # s[k] /\ \E j \in 1..Len(s) : s[j] = t[i]
      BY <2>1, Shortened DEF Once
    <2> QED  BY <2>2, <2>3 DEF s
  <1> HIDE DEF t
  <1>3. /\ inbox'[p] = t
        /\ \A q \in Procs \ {p} : inbox'[q] = inbox[q]
        /\ inbox' \in [Procs -> Seq(Packets)]
    BY <1>2 DEF Popped, Types, t
  <1>4. \A q \in Procs : \A y : InBox(q, y)' => InBox(q, y)
    BY <1>2, <1>3 DEF InBox
  <1>5. InBox(p, x) /\ ~InBox(p, x)'
    BY <1>2, <1>3 DEF InBox
  <1>6. \A y : WasSent(y)' <=> WasSent(y)
    BY DEF WasSent
  <1>7. InboxRight'
    BY <1>2, <1>3, <1>4, <1>6 DEF InboxRight
  <1> QED  BY <1>2, <1>3, <1>4, <1>5, <1>7

-----------------------------------------------------------------------------
(* The steps.                                                                  *)

(* Steps that only join, elect a host or create a replica, and stuttering. *)
LEMMA QuietStepKeepsIInv ==
  ASSUME IInv, UNCHANGED <<enemies, spawned, fired, performed, hook, inbox, sent>>,
         is_host' \in BOOLEAN, joined' \subseteq Procs, replica' \subseteq Procs
  PROVE  IInv'
  <1>1. Types' /\ NoEcho'
    BY DEF IInv, Types, NoEcho
  <1>2. HooksRight' /\ SentRight'
    BY DEF IInv, HooksRight, SentRight, WasSent, InBox
  <1>3. InboxRight' /\ PerformedRight' /\ MapsRight'
    BY DEF IInv, InboxRight, PerformedRight, MapsRight, WasSent, InBox, Did
  <1> QED  BY <1>1, <1>2, <1>3 DEF IInv

(* What a call is about. *)
LEMMA CallTypes ==
  /\ \A c \in Calls : c # NoCall /\ c.pc \in {"create", "end"} /\ c.enemy \in Enemies
                      /\ c.enemy # Nothing
  /\ NoCall.pc = "none" /\ ~NoCall.is_host /\ NoCall.enemy \notin Enemies
  /\ \A pc \in {"create", "end"}, h \in BOOLEAN, e \in Enemies :
        /\ Call(pc, h, e) \in Calls /\ Call(pc, h, e).pc = pc
        /\ Call(pc, h, e).is_host = h /\ Call(pc, h, e).enemy = e
  <1>1. \A e \in Enemies : e # <<>> /\ Nothing = <<>>
  BY DEF Enemies, Nothing
<1>2. \A c \in Calls : c.pc \in {"create", "end"} /\ c.enemy \in Enemies
  BY DEF Calls
<1>3. NoCall.pc = "none" /\ ~NoCall.is_host /\ NoCall.enemy = Nothing
  BY DEF NoCall, Call
<1>4. ASSUME NEW pc \in {"create", "end"}, NEW h \in BOOLEAN, NEW e \in Enemies
      PROVE  /\ Call(pc, h, e) \in Calls /\ Call(pc, h, e).pc = pc
             /\ Call(pc, h, e).is_host = h /\ Call(pc, h, e).enemy = e
  BY DEF Calls, Call
<1> QED BY <1>1, <1>2, <1>3, <1>4

LEMMA SpawnEnemyKeepsIInv ==
  ASSUME IInv, NEW p \in Procs, SpawnEnemy(p)
  PROVE  IInv'
  <1> DEFINE c == Call("create", IsHost(p), <<p, spawned[p] + 1>>)
  <1>1. /\ hook[p]["game"] = NoCall
        /\ spawned' = [spawned EXCEPT ![p] = @ + 1]
        /\ hook' = [hook EXCEPT ![p]["game"] = c]
        /\ UNCHANGED <<is_host, joined, replica, enemies, fired, performed, inbox, sent>>
    BY DEF SpawnEnemy, netVars
  <1>2. spawned[p] + 1 \in 1..MaxSpawns /\ spawned[p] \in Nat
    BY BoundsAssumption DEF SpawnEnemy, IInv, Types
  <1>3. /\ c \in Calls /\ c.pc = "create" /\ c.enemy = <<p, spawned[p] + 1>> /\ c # NoCall
        /\ c.is_host => p = Server
    <2>1. <<p, spawned[p] + 1>> \in Enemies /\ IsHost(p) \in BOOLEAN
      BY <1>2 DEF Enemies, IsHost
    <2> QED  BY <2>1, CallTypes DEF IsHost
  <1> HIDE DEF c
  <1>4. /\ hook'[p]["game"] = c /\ hook'[p]["client"] = hook[p]["client"]
        /\ \A q \in Procs \ {p} : hook'[q] = hook[q] /\ spawned'[q] = spawned[q]
        /\ spawned'[p] = spawned[p] + 1
    BY <1>1 DEF IInv, Types, Threads
  <1>5. Types'
    BY <1>1, <1>2, <1>3 DEF IInv, Types, Threads
  <1>6. NoEcho' /\ InboxRight' /\ PerformedRight'
    BY <1>1 DEF IInv, NoEcho, InboxRight, PerformedRight, WasSent, InBox, Did
  <1>7. HooksRight'
    <2>1. \A x : WasSent(x)' <=> WasSent(x)
      BY <1>1 DEF WasSent
    <2>2. \A q \in Procs : \A x : InBox(q, x)' <=> InBox(q, x)
      BY <1>1 DEF InBox
    <2>3. \A q \in Procs : \A t \in Threads :
             hook'[q][t].is_host => q = Server /\ t = "game"
      BY <1>3, <1>4 DEF IInv, HooksRight, Threads
    <2>4. \A q \in Procs : hook'[q]["game"] # NoCall
             => hook'[q]["game"].enemy = <<q, spawned'[q]>> /\ spawned'[q] # 0
      BY <1>2, <1>3, <1>4 DEF IInv, HooksRight
    <2>5. \A q \in Procs : hook'[q]["client"] = hook[q]["client"]
      BY <1>4
    <2> QED  BY <2>1, <2>2, <2>3, <2>4, <2>5 DEF IInv, HooksRight
  <1>8. SentRight'
    <2> SUFFICES ASSUME NEW x \in Packets, WasSent(x)', x.type # "OnAttack"
                 PROVE  /\ x.what[1] = Server /\ x.what[2] <= spawned'[Server]
                        /\ hook'[Server]["game"] # NoCall
                              => x.what # hook'[Server]["game"].enemy
      BY <1>1 DEF IInv, SentRight, WasSent
    <2>1. /\ x.what[1] = Server /\ x.what[2] <= spawned[Server]
          /\ hook[Server]["game"] # NoCall => x.what # hook[Server]["game"].enemy
      BY <1>1 DEF IInv, SentRight, WasSent
    <2>2. x.what[2] \in Nat /\ spawned[Server] \in Nat
      BY PacketTypes, BoundsAssumption, ServerAssumption DEF IInv, Types
    <2>3. CASE p = Server
      <3>1. x.what[2] # spawned[p] + 1
        BY <2>1, <2>2, <2>3
      <3> QED  BY <1>3, <1>4, <2>1, <2>2, <2>3, <3>1
    <2>4. CASE p # Server
      BY <1>4, <2>1, <2>4, ServerAssumption
    <2> QED  BY <2>3, <2>4
  <1>9. MapsRight'
    <2>1. \A x : WasSent(x)' <=> WasSent(x)
      BY <1>1 DEF WasSent
    <2>2. \A q \in Procs : \A x : InBox(q, x)' <=> InBox(q, x)
      BY <1>1 DEF InBox
    <2>3. hook[p]["game"].pc # "end"
      BY <1>1 DEF NoCall
    <2> QED  BY <1>1, <1>4, <2>1, <2>2, <2>3 DEF IInv, MapsRight
  <1> QED  BY <1>5, <1>6, <1>7, <1>8, <1>9 DEF IInv

LEMMA OnAddEnemyKeepsIInv ==
  ASSUME IInv, NEW p \in Procs, NEW k \in DOMAIN inbox[p], OnAddEnemy(p, k)
  PROVE  IInv'
  <1> DEFINE x == inbox[p][k]
             c == IF p \in replica THEN Call("create", IsHost(p), x.what) ELSE NoCall
  <1>1. /\ hook[p]["client"] = NoCall /\ x.type = "OnAddEnemy"
        /\ inbox' = Popped(p, k) /\ hook' = [hook EXCEPT ![p]["client"] = c]
        /\ UNCHANGED <<is_host, joined, replica, enemies, spawned, fired, performed, sent>>
    BY DEF OnAddEnemy, AddEnemy, gameVars
  <1>2. PICK y : y = x
    OBVIOUS
  <1>3. /\ inbox' \in [Procs -> Seq(Packets)] /\ InboxRight'
        /\ y \in Packets /\ InBox(p, y) /\ ~InBox(p, y)'
        /\ \A q \in Procs : \A z : InBox(q, z)' => InBox(q, z)
    BY <1>1, <1>2, PopKeeps DEF IInv
  <1>4. y.what \in Enemies /\ y = Enemy(y.what) /\ y.type = "OnAddEnemy"
    BY <1>1, <1>2, <1>3, PacketTypes
  <1>5. WasSent(y) /\ y.what[1] = Server /\ p # Server
    BY <1>3, <1>4 DEF IInv, InboxRight, SentRight
  <1>6. /\ c \in Calls \union {NoCall} /\ ~c.is_host
        /\ c # NoCall => c.enemy = y.what /\ c.pc = "create"
        /\ c = NoCall => c.enemy \notin Enemies /\ c.pc = "none"
    BY <1>2, <1>4, <1>5, CallTypes DEF IsHost
  <1> HIDE DEF x, c
  <1>7. /\ hook'[p]["client"] = c /\ hook'[p]["game"] = hook[p]["game"]
        /\ \A q \in Procs \ {p} : hook'[q] = hook[q]
    BY <1>1 DEF IInv, Types, Threads
  <1>8. Types'
    BY <1>1, <1>3, <1>6 DEF IInv, Types, Threads
  <1>9. \A z : WasSent(z)' <=> WasSent(z)
    BY <1>1 DEF WasSent
  <1>10. NoEcho'
    BY <1>1 DEF IInv, NoEcho
  <1>11. HooksRight'
    <2>1. ASSUME NEW q \in Procs, NEW e \in Enemies, hook'[q]["client"].enemy = e
          PROVE  q # Server /\ e[1] = Server /\ WasSent(Enemy(e))' /\ ~InBox(q, Enemy(e))'
      <3>1. CASE q = p
        BY <1>3, <1>4, <1>5, <1>6, <1>7, <1>9, <2>1, <3>1
      <3>2. CASE q # p
        BY <1>3, <1>7, <1>9, <2>1, <3>2 DEF IInv, HooksRight
      <3> QED  BY <3>1, <3>2
    <2>2. \A q \in Procs : \A t \in Threads :
             hook'[q][t].is_host => q = Server /\ t = "game"
      BY <1>6, <1>7 DEF IInv, HooksRight, Threads
    <2>3. \A q \in Procs : hook'[q]["game"] = hook[q]["game"]
      BY <1>7
    <2> QED  BY <1>1, <2>1, <2>2, <2>3 DEF IInv, HooksRight
  <1>12. SentRight'
    BY <1>1, <1>7, <1>9, ServerAssumption DEF IInv, SentRight
  <1>13. PerformedRight'
    BY <1>1, <1>3, <1>9 DEF IInv, PerformedRight, Did
  <1>14. MapsRight'
    <2> SUFFICES ASSUME NEW q \in Procs, NEW e \in BagToSet(enemies[q])
                 PROVE  \/ /\ hook'[q]["game"].pc = "end" /\ hook'[q]["game"].enemy = e
                        \/ /\ e[1] = Server /\ WasSent(Enemy(e))' /\ ~InBox(q, Enemy(e))'
                           /\ hook'[q]["client"].pc = "create"
                                 => hook'[q]["client"].enemy # e
      BY <1>1 DEF MapsRight
    <2>1. CASE hook[q]["game"].pc = "end" /\ hook[q]["game"].enemy = e
      BY <1>7, <2>1
    <2>2. CASE /\ e[1] = Server /\ WasSent(Enemy(e)) /\ ~InBox(q, Enemy(e))
               /\ hook[q]["client"].pc = "create" => hook[q]["client"].enemy # e
      <3>1. q = p /\ hook'[q]["client"].pc = "create" => hook'[q]["client"].enemy # e
        BY <1>3, <1>4, <1>6, <1>7, <2>2 DEF NoCall
      <3> QED  BY <1>3, <1>7, <1>9, <2>2, <3>1
    <2> QED  BY <2>1, <2>2 DEF IInv, MapsRight
  <1> QED  BY <1>3, <1>8, <1>10, <1>11, <1>12, <1>13, <1>14 DEF IInv

LEMMA CreateEnemyUnitKeepsIInv ==
  ASSUME IInv, NEW p \in Procs, NEW t \in Threads, CreateEnemyUnit(p, t)
  PROVE  IInv'
  <1>1. PICK c : c = hook[p][t]
    OBVIOUS
  <1>2. PICK e : e = c.enemy
    OBVIOUS
  <1>3. /\ c.pc = "create" /\ hook' = [hook EXCEPT ![p][t].pc = "end"]
        /\ enemies' = [enemies EXCEPT ![p] = @ (+) SetToBag({e})]
        /\ UNCHANGED <<is_host, joined, replica, spawned, fired, performed, inbox, sent>>
    BY <1>1, <1>2 DEF CreateEnemyUnit, netVars
  <1>4. c \in Calls /\ e \in Enemies
    BY <1>1, <1>2, <1>3, CallTypes DEF IInv, Types
  <1>5. PICK d : d = [c EXCEPT !.pc = "end"]
    OBVIOUS
  <1>6. d \in Calls /\ d.pc = "end" /\ d.enemy = e /\ d.is_host = c.is_host
    BY <1>2, <1>4, <1>5 DEF Calls
  <1>7. /\ hook'[p][t] = d /\ \A s \in Threads \ {t} : hook'[p][s] = hook[p][s]
        /\ \A q \in Procs \ {p} : hook'[q] = hook[q]
        /\ hook' \in [Procs -> [Threads -> Calls \union {NoCall}]]
    BY <1>1, <1>3, <1>5, <1>6 DEF IInv, Types
  <1>8. /\ \A x : WasSent(x)' <=> WasSent(x)
        /\ \A q \in Procs : \A x : InBox(q, x)' <=> InBox(q, x)
    BY <1>3 DEF WasSent, InBox
  <1>9. \A q \in Procs : \A s \in Threads :
          /\ hook'[q][s].enemy = hook[q][s].enemy
          /\ hook'[q][s].is_host = hook[q][s].is_host
          /\ hook'[q][s] # NoCall => hook[q][s] # NoCall
    BY <1>1, <1>2, <1>4, <1>6, <1>7, CallTypes
  <1>10. e \notin BagToSet(enemies[p])
    <2> SUFFICES ASSUME e \in BagToSet(enemies[p]) PROVE FALSE
      OBVIOUS
    <2>1. \/ /\ hook[p]["game"].pc = "end" /\ hook[p]["game"].enemy = e
          \/ /\ e[1] = Server /\ WasSent(Enemy(e)) /\ ~InBox(p, Enemy(e))
             /\ hook[p]["client"].pc = "create" => hook[p]["client"].enemy # e
      BY DEF IInv, MapsRight
    <2>2. CASE t = "game"
      <3>1. e = <<p, spawned[p]>> /\ hook[p]["game"] # NoCall
        BY <1>1, <1>2, <1>4, <2>2, CallTypes DEF IInv, HooksRight
      <3>2. p = Server /\ WasSent(Enemy(e))
        BY <1>1, <1>3, <2>1, <2>2, <3>1
      <3> QED  BY <1>1, <1>2, <1>4, <2>2, <3>1, <3>2, PacketTypes DEF IInv, SentRight
    <2>3. CASE t = "client"
      <3>1. p # Server /\ e[1] = Server
        BY <1>1, <1>2, <1>4, <2>3 DEF IInv, HooksRight
      <3>2. hook[p]["game"].enemy = e => hook[p]["game"] # NoCall
        BY <1>4, CallTypes
      <3>3. hook[p]["game"].enemy = e => e[1] = p
        BY <3>2 DEF IInv, HooksRight
      <3> QED  BY <1>1, <1>2, <1>3, <2>1, <2>3, <3>1, <3>3
    <2> QED  BY <2>2, <2>3 DEF Threads
  <1>11. /\ enemies' \in [Procs -> Maps]
         /\ BagToSet(enemies'[p]) = BagToSet(enemies[p]) \union {e}
         /\ \A q \in Procs \ {p} : enemies'[q] = enemies[q]
    <2>1. enemies[p] \in Maps
      BY DEF IInv, Types
    <2>2. /\ enemies[p] (+) SetToBag({e}) \in Maps
          /\ BagToSet(enemies[p] (+) SetToBag({e})) = BagToSet(enemies[p]) \union {e}
      BY <1>4, <1>10, <2>1, OneMore
    <2>3. /\ enemies'[p] = enemies[p] (+) SetToBag({e})
          /\ \A q \in Procs \ {p} : enemies'[q] = enemies[q]
      BY <1>3 DEF IInv, Types
    <2>4. enemies' \in [Procs -> Maps]
      BY <1>3, <2>2 DEF IInv, Types
    <2> QED  BY <2>2, <2>3, <2>4
  <1>12. Types' /\ NoEcho'
    BY <1>3, <1>7, <1>11 DEF IInv, Types, NoEcho
  <1>13. HooksRight' /\ SentRight'
    <2>1. "game" \in Threads /\ "client" \in Threads
      BY DEF Threads
    <2>2. HooksRight'
      BY <1>3, <1>8, <1>9, <2>1 DEF IInv, HooksRight
    <2>3. SentRight'
      BY <1>3, <1>8, <1>9, <2>1, ServerAssumption DEF IInv, SentRight
    <2> QED  BY <2>2, <2>3
  <1>14. InboxRight' /\ PerformedRight'
    BY <1>3, <1>8 DEF IInv, InboxRight, PerformedRight, Did
  <1>15. MapsRight'
    <2> SUFFICES ASSUME NEW q \in Procs, NEW f \in BagToSet(enemies'[q])
                 PROVE  \/ /\ hook'[q]["game"].pc = "end" /\ hook'[q]["game"].enemy = f
                        \/ /\ f[1] = Server /\ WasSent(Enemy(f))' /\ ~InBox(q, Enemy(f))'
                           /\ hook'[q]["client"].pc = "create"
                                 => hook'[q]["client"].enemy # f
      BY DEF MapsRight
    <2>0. "game" \in Threads /\ "client" \in Threads /\ t \in {"game", "client"}
      BY DEF Threads
    <2>1. CASE f \in BagToSet(enemies[q])
      <3>1. \/ /\ hook[q]["game"].pc = "end" /\ hook[q]["game"].enemy = f
            \/ /\ f[1] = Server /\ WasSent(Enemy(f)) /\ ~InBox(q, Enemy(f))
               /\ hook[q]["client"].pc = "create" => hook[q]["client"].enemy # f
        BY <2>1 DEF IInv, MapsRight
      <3>2. /\ hook[q]["game"].pc = "end" => hook'[q]["game"].pc = "end"
            /\ hook'[q]["client"].pc = "create" => hook[q]["client"].pc = "create"
        BY <1>6, <1>7, <2>0
      <3>3. /\ hook'[q]["game"].enemy = hook[q]["game"].enemy
            /\ hook'[q]["client"].enemy = hook[q]["client"].enemy
        BY <1>1, <1>2, <1>6, <1>7, <2>0
      <3>4. /\ WasSent(Enemy(f)) => WasSent(Enemy(f))'
            /\ ~InBox(q, Enemy(f)) => ~InBox(q, Enemy(f))'
        BY <1>8
      <3> QED  BY <3>1, <3>2, <3>3, <3>4
    <2>2. CASE q = p /\ f = e /\ t = "game"
      BY <1>6, <1>7, <2>2
    <2>3. CASE q = p /\ f = e /\ t = "client"
      <3>1. e[1] = Server /\ WasSent(Enemy(e)) /\ ~InBox(p, Enemy(e))
        BY <1>1, <1>2, <1>4, <2>3 DEF IInv, HooksRight
      <3> QED  BY <1>6, <1>7, <1>8, <2>3, <3>1
    <2> QED  BY <1>11, <2>0, <2>1, <2>2, <2>3
  <1> QED  BY <1>12, <1>13, <1>14, <1>15 DEF IInv

(* The call ends: the enemy is announced, or deleted, or left as it is. *)
LEMMA EndCreateEnemyKeepsIInv ==
  ASSUME IInv, NEW p \in Procs, NEW t \in Threads, EndCreateEnemy(p, t)
  PROVE  IInv'
  <1>1. PICK c : c = hook[p][t]
    OBVIOUS
  <1>2. PICK e : e = c.enemy
    OBVIOUS
  <1>3. PICK x : x = Enemy(e)
    OBVIOUS
  <1>4. /\ c.pc = "end" /\ hook' = [hook EXCEPT ![p][t] = NoCall]
        /\ IF c.is_host THEN Send(p, x, inbox) ELSE inbox' = inbox /\ sent' = sent
        /\ enemies' = IF ~c.is_host /\ t = "game"
                      THEN [enemies EXCEPT ![p] = @ (-) SetToBag({e})] ELSE enemies
        /\ UNCHANGED <<is_host, joined, replica, spawned, fired, performed>>
    BY <1>1, <1>2, <1>3 DEF EndCreateEnemy, Announced, Deleted, netVars
  <1>5. /\ c \in Calls /\ e \in Enemies /\ x \in Packets /\ x.what = e
        /\ x.type = "OnAddEnemy"
    BY <1>1, <1>2, <1>3, <1>4, CallTypes, PacketTypes DEF IInv, Types
  <1>6. /\ hook'[p][t] = NoCall /\ \A s \in Threads \ {t} : hook'[p][s] = hook[p][s]
        /\ \A q \in Procs \ {p} : hook'[q] = hook[q]
        /\ hook' \in [Procs -> [Threads -> Calls \union {NoCall}]]
    BY <1>4 DEF IInv, Types
  <1>7. t \in {"game", "client"} /\ "game" \in Threads /\ "client" \in Threads
    BY DEF Threads
  <1>8. t = "game" => e = <<p, spawned[p]>>
    BY <1>1, <1>2, <1>5, CallTypes DEF IInv, HooksRight
  <1>9. c.is_host => /\ p = Server /\ t = "game" /\ e[1] = p /\ ~WasSent(x)
                     /\ e[2] <= spawned[p]
    <2> SUFFICES ASSUME c.is_host
                 PROVE  p = Server /\ t = "game" /\ e[1] = p /\ ~WasSent(x) /\ e[2] <= spawned[p]
      OBVIOUS
    <2>1. p = Server /\ t = "game"
      BY <1>1 DEF IInv, HooksRight
    <2>2. ~WasSent(x)
      BY <1>1, <1>2, <1>5, <2>1, CallTypes DEF IInv, SentRight
    <2>3. spawned[p] \in Nat
      BY BoundsAssumption DEF IInv, Types
    <2> QED  BY <1>8, <2>1, <2>2, <2>3
  <1>10. /\ sent' \in Seq(Sends) /\ inbox' \in [Procs -> Seq(Packets)]
         /\ NoEcho' /\ InboxRight'
         /\ \A y : WasSent(y)' <=> WasSent(y) \/ (c.is_host /\ y = x)
         /\ \A q \in Procs : \A y :
               InBox(q, y)' => InBox(q, y) \/ (c.is_host /\ y = x /\ q # p)
    <2>1. CASE c.is_host
      <3>1. Send(p, x, inbox)
        BY <1>4, <2>1
      <3> QED  BY <1>5, <1>9, <2>1, <3>1, SendKeeps DEF IInv
    <2>2. CASE ~c.is_host
      <3>1. inbox' = inbox /\ sent' = sent
        BY <1>4, <2>2
      <3>2. /\ \A y : WasSent(y)' <=> WasSent(y)
            /\ \A q \in Procs : \A y : InBox(q, y)' <=> InBox(q, y)
        BY <3>1 DEF WasSent, InBox
      <3>3. NoEcho' /\ InboxRight'
        BY <3>1, <3>2 DEF IInv, NoEcho, InboxRight
      <3> QED  BY <2>2, <3>1, <3>2, <3>3 DEF IInv, Types
    <2> QED  BY <2>1, <2>2
  <1>11. /\ enemies' \in [Procs -> Maps]
         /\ \A q \in Procs : BagToSet(enemies'[q]) \subseteq BagToSet(enemies[q])
         /\ ~c.is_host /\ t = "game" => e \notin BagToSet(enemies'[p])
    <2>1. enemies \in [Procs -> Maps] /\ enemies[p] \in Maps
      BY DEF IInv, Types
    <2>2. /\ enemies[p] (-) SetToBag({e}) \in Maps
          /\ BagToSet(enemies[p] (-) SetToBag({e})) = BagToSet(enemies[p]) \ {e}
      BY <1>5, <2>1, OneLess
    <2>3. CASE ~c.is_host /\ t = "game"
      <3>1. enemies' = [enemies EXCEPT ![p] = @ (-) SetToBag({e})]
        BY <1>4, <2>3
      <3>2. enemies'[p] = enemies[p] (-) SetToBag({e})
            /\ \A q \in Procs \ {p} : enemies'[q] = enemies[q]
        BY <2>1, <3>1
      <3>3. enemies' \in [Procs -> Maps]
        BY <2>1, <2>2, <3>1
      <3> QED  BY <2>2, <3>2, <3>3
    <2>4. CASE ~(~c.is_host /\ t = "game")
      BY <1>4, <2>1, <2>4
    <2> QED  BY <2>3, <2>4
  <1>12. Types'
    BY <1>4, <1>6, <1>10, <1>11 DEF IInv, Types
  <1>13. HooksRight'
    <2>1. \A q \in Procs, s \in Threads : hook'[q][s] = hook[q][s] \/ hook'[q][s] = NoCall
      BY <1>6
    <2>2. ASSUME NEW q \in Procs, NEW f \in Enemies, hook'[q]["client"].enemy = f
          PROVE  q # Server /\ f[1] = Server /\ WasSent(Enemy(f))' /\ ~InBox(q, Enemy(f))'
      <3>1. hook[q]["client"].enemy = f
        BY <1>7, <2>1, <2>2, CallTypes
      <3>2. q # Server /\ f[1] = Server /\ WasSent(Enemy(f)) /\ ~InBox(q, Enemy(f))
        BY <3>1 DEF IInv, HooksRight
      <3>3. ~(c.is_host /\ Enemy(f) = x)
        BY <1>9, <3>2
      <3> QED  BY <1>10, <3>2, <3>3
    <2>3. \A q \in Procs : \A s \in Threads :
             hook'[q][s].is_host => q = Server /\ s = "game"
      BY <2>1, CallTypes DEF IInv, HooksRight
    <2>4. \A q \in Procs : hook'[q]["game"] # NoCall
             => hook'[q]["game"].enemy = <<q, spawned'[q]>> /\ spawned'[q] # 0
      BY <1>4, <1>7, <2>1 DEF IInv, HooksRight
    <2> QED  BY <2>2, <2>3, <2>4 DEF HooksRight
  <1>14. SentRight'
    <2> SUFFICES ASSUME NEW y \in Packets, WasSent(y)'
                 PROVE  IF y.type = "OnAttack"
                        THEN y.what[2] <= fired'[y.what[1]]
                        ELSE /\ y.what[1] = Server /\ y.what[2] <= spawned'[Server]
                             /\ hook'[Server]["game"] # NoCall
                                   => y.what # hook'[Server]["game"].enemy
      BY DEF SentRight
    <2>1. hook'[Server]["game"] = hook[Server]["game"] \/ hook'[Server]["game"] = NoCall
      BY <1>6, <1>7, ServerAssumption
    <2>2. CASE WasSent(y)
      BY <1>4, <2>1, <2>2 DEF IInv, SentRight
    <2>3. CASE c.is_host /\ y = x
      BY <1>4, <1>5, <1>6, <1>9, <2>3
    <2> QED  BY <1>10, <2>2, <2>3
  <1>15. PerformedRight'
    <2> SUFFICES ASSUME NEW q \in Procs
                 PROVE  /\ Once(performed[q])
                        /\ \A a \in Attacks : Did(q, a)
                              => WasSent(Attack(a))' /\ ~InBox(q, Attack(a))'
      BY <1>4 DEF PerformedRight, Did
    <2>1. \A a \in Attacks : Attack(a) # x
      BY <1>5, PacketTypes
    <2> QED  BY <1>10, <2>1 DEF IInv, PerformedRight
  <1>16. MapsRight'
    <2> SUFFICES ASSUME NEW q \in Procs, NEW f \in BagToSet(enemies'[q])
                 PROVE  \/ /\ hook'[q]["game"].pc = "end" /\ hook'[q]["game"].enemy = f
                        \/ /\ f[1] = Server /\ WasSent(Enemy(f))' /\ ~InBox(q, Enemy(f))'
                           /\ hook'[q]["client"].pc = "create"
                                 => hook'[q]["client"].enemy # f
      BY DEF MapsRight
    <2>1. f \in BagToSet(enemies[q])
      BY <1>11
    <2>2. /\ hook'[q]["client"] = hook[q]["client"] \/ hook'[q]["client"] = NoCall
          /\ hook'[q]["game"] = hook[q]["game"] \/ (q = p /\ t = "game")
      BY <1>6, <1>7
    <2>3. hook'[q]["client"].pc = "create" => hook[q]["client"].pc = "create"
                                              /\ hook'[q]["client"] = hook[q]["client"]
      BY <2>2, CallTypes
    <2>4. CASE /\ f[1] = Server /\ WasSent(Enemy(f)) /\ ~InBox(q, Enemy(f))
               /\ hook[q]["client"].pc = "create" => hook[q]["client"].enemy # f
      <3>1. ~(c.is_host /\ Enemy(f) = x)
        BY <1>9, <2>4
      <3>2. WasSent(Enemy(f))' /\ ~InBox(q, Enemy(f))'
        BY <1>10, <2>4, <3>1
      <3> QED  BY <2>3, <2>4, <3>2
    <2>5. CASE /\ hook[q]["game"].pc = "end" /\ hook[q]["game"].enemy = f
               /\ ~(q = p /\ t = "game")
      BY <2>2, <2>5
    <2>6. CASE q = p /\ t = "game" /\ hook[q]["game"].enemy = f
      <3>1. f = e
        BY <1>1, <1>2, <2>6
      <3>2. c.is_host
        BY <1>11, <2>6, <3>1
      <3>3. WasSent(Enemy(f))' /\ ~InBox(p, Enemy(f))'
        <4>1. ~InBox(p, x)
          BY <1>5, <1>9, <3>2 DEF IInv, InboxRight
        <4> QED  BY <1>3, <1>10, <3>1, <3>2, <4>1
      <3>4. hook[p]["client"].enemy # f
        BY <1>5, <1>9, <3>1, <3>2 DEF IInv, HooksRight
      <3> QED  BY <1>9, <2>3, <2>6, <3>1, <3>2, <3>3, <3>4
    <2> QED  BY <2>1, <2>4, <2>5, <2>6 DEF IInv, MapsRight
  <1> QED  BY <1>10, <1>12, <1>13, <1>14, <1>15, <1>16 DEF IInv

(* The player's attack is sent. *)
LEMMA FireKeepsIInv ==
  ASSUME IInv, NEW p \in Procs, Fire(p)
  PROVE  IInv'
  <1>1. PICK a : a = <<p, fired[p] + 1>>
    OBVIOUS
  <1>2. PICK x : x = Attack(a)
    OBVIOUS
  <1>3. /\ fired[p] \in Nat /\ a \in Attacks /\ a[1] = p /\ a[2] = fired[p] + 1
        /\ fired[p] + 1 \in 0..MaxFires
    BY <1>1, BoundsAssumption DEF Fire, IInv, Types, Attacks
  <1>4. x \in Packets /\ x.what = a /\ x.type = "OnAttack"
    BY <1>2, <1>3, PacketTypes
  <1>5. /\ Send(p, x, inbox) /\ fired' = [fired EXCEPT ![p] = @ + 1]
        /\ UNCHANGED <<is_host, joined, replica, enemies, spawned, performed, hook>>
    BY <1>1, <1>2 DEF Fire, RequestFire
  <1>6. ~WasSent(x)
    BY <1>3, <1>4 DEF IInv, SentRight
  <1>7. /\ sent' \in Seq(Sends) /\ inbox' \in [Procs -> Seq(Packets)]
        /\ NoEcho' /\ InboxRight'
        /\ \A y : WasSent(y)' <=> WasSent(y) \/ y = x
        /\ \A q \in Procs : \A y : InBox(q, y)' => InBox(q, y) \/ (y = x /\ q # p)
    BY <1>3, <1>4, <1>5, <1>6, SendKeeps DEF IInv
  <1>8. /\ fired'[p] = fired[p] + 1 /\ \A q \in Procs \ {p} : fired'[q] = fired[q]
        /\ fired' \in [Procs -> 0..MaxFires]
    BY <1>3, <1>5 DEF IInv, Types
  <1>9. Types'
    BY <1>5, <1>7, <1>8 DEF IInv, Types
  <1>10. \A e \in Enemies : Enemy(e) # x
    BY <1>4, PacketTypes
  <1>11. HooksRight'
    <2>1. ASSUME NEW q \in Procs, NEW e \in Enemies, hook'[q]["client"].enemy = e
          PROVE  q # Server /\ e[1] = Server /\ WasSent(Enemy(e))' /\ ~InBox(q, Enemy(e))'
      <3>1. q # Server /\ e[1] = Server /\ WasSent(Enemy(e)) /\ ~InBox(q, Enemy(e))
        BY <1>5, <2>1 DEF IInv, HooksRight
      <3> QED  BY <1>7, <1>10, <3>1
    <2> QED  BY <1>5, <2>1 DEF IInv, HooksRight
  <1>12. SentRight'
    <2> SUFFICES ASSUME NEW y \in Packets, WasSent(y)'
                 PROVE  IF y.type = "OnAttack"
                        THEN y.what[2] <= fired'[y.what[1]]
                        ELSE /\ y.what[1] = Server /\ y.what[2] <= spawned'[Server]
                             /\ hook'[Server]["game"] # NoCall
                                   => y.what # hook'[Server]["game"].enemy
      BY DEF SentRight
    <2>1. CASE y = x
      BY <1>3, <1>4, <1>8, <2>1
    <2>2. CASE WasSent(y) /\ y.type # "OnAttack"
      BY <1>5, <2>2 DEF IInv, SentRight
    <2>3. CASE WasSent(y) /\ y.type = "OnAttack"
      <3>1. y.what[1] \in Procs /\ y.what[2] \in Nat /\ y.what[2] <= fired[y.what[1]]
        BY <2>3, PacketTypes, BoundsAssumption DEF IInv, SentRight
      <3> QED  BY <1>3, <1>8, <2>3, <3>1
    <2> QED  BY <1>7, <2>1, <2>2, <2>3
  <1>13. PerformedRight'
    <2> SUFFICES ASSUME NEW q \in Procs
                 PROVE  /\ Once(performed[q])
                        /\ \A b \in Attacks : Did(q, b)
                              => WasSent(Attack(b))' /\ ~InBox(q, Attack(b))'
      BY <1>5 DEF PerformedRight, Did
    <2>1. ASSUME NEW b \in Attacks, Did(q, b)
          PROVE  WasSent(Attack(b))' /\ ~InBox(q, Attack(b))'
      <3>1. WasSent(Attack(b)) /\ ~InBox(q, Attack(b))
        BY <2>1 DEF IInv, PerformedRight
      <3> QED  BY <1>6, <1>7, <3>1
    <2> QED  BY <2>1 DEF IInv, PerformedRight
  <1>14. MapsRight'
    <2> SUFFICES ASSUME NEW q \in Procs, NEW e \in BagToSet(enemies[q])
                 PROVE  \/ /\ hook[q]["game"].pc = "end" /\ hook[q]["game"].enemy = e
                        \/ /\ e[1] = Server /\ WasSent(Enemy(e))' /\ ~InBox(q, Enemy(e))'
                           /\ hook[q]["client"].pc = "create"
                                 => hook[q]["client"].enemy # e
      BY <1>5 DEF MapsRight
    <2>1. WasSent(Enemy(e)) => WasSent(Enemy(e))'
      BY <1>7
    <2>2. WasSent(Enemy(e)) /\ ~InBox(q, Enemy(e)) => ~InBox(q, Enemy(e))'
      BY <1>6, <1>7
    <2> QED  BY <2>1, <2>2 DEF IInv, MapsRight
  <1> QED  BY <1>7, <1>9, <1>11, <1>12, <1>13, <1>14 DEF IInv

(* An attack is popped, and repeated if there is a replica. *)
LEMMA OnAttackKeepsIInv ==
  ASSUME IInv, NEW p \in Procs, NEW n \in DOMAIN inbox[p], OnAttack(p, n)
  PROVE  IInv'
  <1>1. PICK x : x = inbox[p][n]
    OBVIOUS
  <1>2. /\ x.type = "OnAttack" /\ inbox' = Popped(p, n) /\ sent' = sent
        /\ performed' = (IF p \in replica THEN [performed EXCEPT ![p] = Append(@, x.what)]
                                          ELSE performed)
        /\ UNCHANGED <<is_host, joined, replica, enemies, spawned, fired, hook>>
    BY <1>1 DEF OnAttack, RequestFire
  <1>3. /\ inbox' \in [Procs -> Seq(Packets)] /\ InboxRight'
        /\ x \in Packets /\ InBox(p, x) /\ ~InBox(p, x)'
        /\ \A q \in Procs : \A y : InBox(q, y)' => InBox(q, y)
    BY <1>1, <1>2, PopKeeps DEF IInv
  <1>4. PICK a : a = x.what
    OBVIOUS
  <1>5. a \in Attacks /\ x = Attack(a) /\ WasSent(x)
    BY <1>2, <1>3, <1>4, PacketTypes DEF IInv, InboxRight
  <1>6. \A y : WasSent(y)' <=> WasSent(y)
    BY <1>2 DEF WasSent
  <1>7. performed[p] \in Seq(Attacks) /\ Once(performed[p]) /\ ~Did(p, a)
    BY <1>3, <1>5 DEF IInv, Types, PerformedRight
  <1>8. \/ performed' = performed
        \/ /\ performed'[p] = Append(performed[p], a)
           /\ \A q \in Procs \ {p} : performed'[q] = performed[q]
    BY <1>2, <1>4 DEF IInv, Types
  <1>9. /\ performed'[p] \in Seq(Attacks) /\ Once(performed'[p])
        /\ \A k \in 1..Len(performed'[p]) :
              performed'[p][k] = a \/ \E j \in 1..Len(performed[p]) :
                                            performed'[p][k] = performed[p][j]
    <2> DEFINE s == performed[p]
    <2>1. s \in Seq(Attacks) /\ Once(s) /\ \A k \in 1..Len(s) : s[k] # a
      BY <1>7 DEF Did
    <2>2. performed'[p] = s \/ performed'[p] = Append(s, a)
      BY <1>8
    <2> HIDE DEF s
    <2>3. CASE performed'[p] = s
      BY <2>1, <2>3 DEF s
    <2>4. CASE performed'[p] = Append(s, a)
      <3>1. /\ performed'[p] \in Seq(Attacks) /\ Once(performed'[p])
            /\ \A k \in 1..Len(performed'[p]) :
                  performed'[p][k] = a \/ \E j \in 1..Len(s) : performed'[p][k] = s[j]
        BY <1>5, <2>1, <2>4, Appended DEF Once
      <3> QED  BY <3>1 DEF s
    <2> QED  BY <2>2, <2>3, <2>4
  <1>10. Types'
    <2>1. performed' \in [Procs -> Seq(Attacks)]
      BY <1>2, <1>9, <1>8 DEF IInv, Types
    <2> QED  BY <1>2, <1>3, <2>1 DEF IInv, Types
  <1>11. NoEcho' /\ SentRight'
    BY <1>2, <1>6 DEF IInv, NoEcho, SentRight
  <1>12. HooksRight'
    BY <1>2, <1>3, <1>6 DEF IInv, HooksRight
  <1>13. PerformedRight'
    <2> SUFFICES ASSUME NEW q \in Procs
                 PROVE  /\ Once(performed'[q])
                        /\ \A b \in Attacks : Did(q, b)'
                              => WasSent(Attack(b))' /\ ~InBox(q, Attack(b))'
      BY DEF PerformedRight
    <2>1. q # p => performed'[q] = performed[q]
      BY <1>8
    <2>2. \A b : Did(q, b)' => Did(q, b) \/ (q = p /\ b = a)
      BY <1>9, <2>1 DEF Did
    <2>3. Once(performed'[q])
      BY <1>9, <2>1 DEF IInv, PerformedRight
    <2> QED  BY <1>3, <1>5, <1>6, <2>2, <2>3 DEF IInv, PerformedRight
  <1>14. MapsRight'
    BY <1>2, <1>3, <1>6 DEF IInv, MapsRight
  <1> QED  BY <1>3, <1>10, <1>11, <1>12, <1>13, <1>14 DEF IInv

LEMMA LoadNextMapKeepsIInv ==
  ASSUME IInv, NEW p \in Procs, LoadNextMap(p)
  PROVE  IInv'
  <1>1. /\ replica' \subseteq Procs /\ enemies' = [enemies EXCEPT ![p] = EmptyBag]
        /\ UNCHANGED <<is_host, joined, spawned, fired, performed, hook, inbox, sent>>
    BY DEF LoadNextMap, netVars, IInv, Types
  <1>2. /\ enemies' \in [Procs -> Maps] /\ BagToSet(enemies'[p]) = {}
        /\ \A q \in Procs \ {p} : enemies'[q] = enemies[q]
    BY <1>1, NoEnemies DEF IInv, Types
  <1>3. Types' /\ NoEcho'
    BY <1>1, <1>2 DEF IInv, Types, NoEcho
  <1>4. /\ \A x : WasSent(x)' <=> WasSent(x)
        /\ \A q \in Procs : \A x : InBox(q, x)' <=> InBox(q, x)
    BY <1>1 DEF WasSent, InBox
  <1>5. HooksRight' /\ SentRight' /\ InboxRight' /\ PerformedRight'
    BY <1>1, <1>4 DEF IInv, HooksRight, SentRight, InboxRight, PerformedRight, Did
  <1>6. MapsRight'
    BY <1>1, <1>2, <1>4 DEF IInv, MapsRight
  <1> QED  BY <1>3, <1>5, <1>6 DEF IInv

-----------------------------------------------------------------------------
(* The theorems.                                                               *)

LEMMA InitIInv == Init => IInv
  <1> SUFFICES ASSUME Init PROVE IInv
    OBVIOUS
  <1> USE BoundsAssumption DEF Init
  <1>1. Types /\ NoEcho
    <2>1. enemies \in [Procs -> Maps]
      BY NoEnemies
    <2>2. hook \in [Procs -> [Threads -> Calls \union {NoCall}]]
      OBVIOUS
    <2>3. spawned \in [Procs -> 0..MaxSpawns] /\ fired \in [Procs -> 0..MaxFires]
      OBVIOUS
    <2>4. /\ performed \in [Procs -> Seq(Attacks)] /\ inbox \in [Procs -> Seq(Packets)]
          /\ sent \in Seq(Sends)
      OBVIOUS
    <2>5. DOMAIN sent = {}
      OBVIOUS
    <2> QED  BY <2>1, <2>2, <2>3, <2>4, <2>5 DEF Types, NoEcho
  <1>2. /\ \A x : ~WasSent(x)
        /\ \A p \in Procs : \A x : ~InBox(p, x) /\ ~Did(p, x)
    BY DEF WasSent, InBox, Did
  <1>3. \A p \in Procs : hook[p]["game"] = NoCall /\ hook[p]["client"] = NoCall
    BY DEF Threads
  <1>4. HooksRight
    BY <1>3, CallTypes DEF HooksRight, Threads
  <1>5. SentRight /\ InboxRight /\ PerformedRight
    BY <1>2 DEF SentRight, InboxRight, PerformedRight, Once
  <1>6. MapsRight
    BY NoEnemies DEF MapsRight
  <1> QED  BY <1>1, <1>4, <1>5, <1>6 DEF IInv

(* The inductive invariant holds, over every step of every process's threads. *)
THEOREM Invariant == Spec => []IInv
  <1>1. IInv /\ [Next]_vars => IInv'
    <2> SUFFICES ASSUME IInv, [Next]_vars PROVE IInv'
      OBVIOUS
    <2>1. CASE Session \/ UNCHANGED vars
      BY <2>1, QuietStepKeepsIInv
      DEF Session, Join, OnConnected, vars, gameVars, netVars, IInv, Types
    <2>2. ASSUME NEW p \in Procs, GameThread(p) PROVE IInv'
      <3>1. CASE CreateReplica(p)
        BY <3>1, QuietStepKeepsIInv DEF CreateReplica, netVars, IInv, Types
      <3>2. "game" \in Threads
        BY DEF Threads
      <3> QED  BY <2>2, <3>1, <3>2, SpawnEnemyKeepsIInv, FireKeepsIInv,
                  LoadNextMapKeepsIInv, CreateEnemyUnitKeepsIInv,
                  EndCreateEnemyKeepsIInv DEF GameThread
    <2>3. ASSUME NEW p \in Procs, ClientThread(p) PROVE IInv'
      <3>1. "client" \in Threads
        BY DEF Threads
      <3> QED  BY <2>3, <3>1, OnAddEnemyKeepsIInv, OnAttackKeepsIInv,
                  CreateEnemyUnitKeepsIInv, EndCreateEnemyKeepsIInv DEF ClientThread
    <2> QED  BY <2>1, <2>2, <2>3 DEF Next
  <1> QED  BY <1>1, InitIInv, PTL DEF Spec

(* Every variable keeps its type, and each map is a bag. *)
THEOREM TypeCorrect == Spec => []TypeOK
  <1>1. ASSUME IInv PROVE TypeOK
    <2>1. ASSUME NEW p \in Procs
          PROVE  /\ IsABag(enemies[p]) /\ BagToSet(enemies[p]) \subseteq Enemies
                 /\ performed[p] \in Seq(Attacks)
                 /\ inbox[p] \in Seq(EnemyPackets \union AttackPackets)
      <3>1. PICK S \in SUBSET Enemies : enemies[p] = SetToBag(S)
        BY <1>1 DEF IInv, Types, Maps
      <3>2. IsABag(enemies[p]) /\ BagToSet(enemies[p]) = S
        <4>1. enemies[p] = [e \in S |-> 1]
          BY <3>1 DEF SetToBag
        <4>2. DOMAIN enemies[p] = S
          BY <4>1
        <4>3. enemies[p] \in [S -> {n \in Nat : n > 0}]
          BY <4>1
        <4> QED  BY <4>2, <4>3 DEF IsABag, BagToSet
      <3> QED  BY <1>1, <3>2 DEF IInv, Types, Packets
    <2>2. hook \in [Procs -> [Threads -> [pc : {"none", "create", "end"},
                                         is_host : BOOLEAN,
                                         enemy : Enemies \union {Nothing}]]]
      <3>1. Calls \union {NoCall} \subseteq
                [pc : {"none", "create", "end"}, is_host : BOOLEAN,
                 enemy : Enemies \union {Nothing}]
        <4>. DEFINE All == [pc : {"none", "create", "end"}, is_host : BOOLEAN,
                            enemy : Enemies \union {Nothing}]
        <4>1. NoCall \in All
          BY DEF NoCall
        <4>2. ASSUME NEW c \in Calls PROVE c \in All
          BY <4>2 DEF Calls
        <4> QED  BY <4>1, <4>2
      <3> QED  BY <1>1, <3>1 DEF IInv, Types
    <2> QED  BY <1>1, <2>1, <2>2 DEF IInv, Types, Sends, Packets, TypeOK
  <1> QED  BY <1>1, Invariant, PTL

(* The hooks do not send again what came from another process, and send        *)
(* nothing twice.                                                              *)
THEOREM NothingEchoed == Spec => []NoEcho
  <1>1. IInv => NoEcho
    BY DEF IInv
  <1> QED  BY <1>1, Invariant, PTL

(* No enemy is in a map twice, and no attack is repeated twice. *)
THEOREM EachOnce == Spec => []OneCopy
  <1>1. ASSUME IInv PROVE OneCopy
    <2>1. ASSUME NEW p \in Procs, NEW e \in BagToSet(enemies[p])
          PROVE  enemies[p][e] = 1
      <3>1. PICK S \in SUBSET Enemies : enemies[p] = SetToBag(S)
        BY <1>1 DEF IInv, Types, Maps
      <3> QED  BY <3>1 DEF SetToBag, BagToSet
    <2>2. ASSUME NEW p \in Procs, NEW j \in DOMAIN performed[p], NEW k \in DOMAIN performed[p],
                 performed[p][j] = performed[p][k]
          PROVE  j = k
      <3>1. performed[p] \in Seq(Attacks)
        BY <1>1 DEF IInv, Types
      <3> QED  BY <1>1, <2>2, <3>1 DEF IInv, PerformedRight, Once
    <2> QED  BY <2>1, <2>2 DEF OneCopy
  <1> QED  BY <1>1, Invariant, PTL

(* Whatever is_host turns into meanwhile, what stays in a map was announced by *)
(* the host.                                                                   *)
THEOREM MapsAgree == Spec => []OnlyAnnouncedEnemies
  <1>1. ASSUME IInv PROVE OnlyAnnouncedEnemies
    <2> SUFFICES ASSUME NEW p \in Procs, NEW e \in BagToSet(enemies[p])
                 PROVE  \/ BeingCreated(p, e)
                        \/ e[1] = Server /\ \E k \in DOMAIN sent : sent[k].packet = Enemy(e)
      BY DEF OnlyAnnouncedEnemies
    <2>1. CASE hook[p]["game"].enemy = e
      BY <2>1 DEF BeingCreated, Threads
    <2>2. CASE e[1] = Server /\ WasSent(Enemy(e))
      BY <1>1, <2>2 DEF WasSent, IInv, Types
    <2> QED  BY <1>1, <2>1, <2>2 DEF IInv, MapsRight
  <1> QED  BY <1>1, Invariant, PTL
=============================================================================
