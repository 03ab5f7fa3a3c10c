------------------------------ MODULE GameSync ------------------------------
(* Enemies and attacks across the processes of one session: what the hooks     *)
(* hook_create_enemy_unit and hook_request_fire (Hooks/hooks.h) send, and what *)
(* the callbacks OnAddEnemy and OnAttack (core.h) do with it in the others.    *)
(*                                                                             *)
(* The host's game decides on the enemies: it announces those it creates; the  *)
(* other games delete what they create themselves and create what they are     *)
(* told.  Both go through the same hooked function, on the game thread and on  *)
(* the client thread; and a remote attack fires through the hooked RequestFire.*)
(*                                                                             *)
(* There is one session and one server (OneHost of Session).  The sending and  *)
(* relaying (SendQueue, Relay) are abstracted to what they leave certain: a    *)
(* packet reaches each other process at most once, late, out of order or not   *)
(* at all.                                                                     *)
EXTENDS Naturals, Sequences, Bags

CONSTANTS Procs,
          Server,       \* the process whose server has the port
          MaxSpawns,    \* bound: enemies each process's own game creates
          MaxFires      \* bound: attacks of each process's player

ASSUME ServerAssumption == Server \in Procs
ASSUME BoundsAssumption == MaxSpawns \in Nat /\ MaxFires \in Nat

Threads == {"game", "client"}
Enemies == Procs \X (1..MaxSpawns)     \* <<whose game made it, its number>>
Attacks == Procs \X (1..MaxFires)      \* <<whose player made it, its number>>
Nothing == <<>>

EnemyPackets  == [type : {"OnAddEnemy"}, what : Enemies]
AttackPackets == [type : {"OnAttack"}, what : Attacks]

VARIABLES
    is_host,    \* network::is_host in the process Server; FALSE in the others
    joined,     \* processes whose client is connected
    replica,    \* processes with a replicated_unit
    enemies,    \* per process, the bag of the enemies in its map
    spawned,    \* per process, how many its game has created
    fired,      \* per process, how many attacks its player has made
    performed,  \* per process, the attacks its replicated unit has repeated
    hook,       \* per process and thread, the call of hook_create_enemy_unit
    inbox,      \* per process, the packets it will receive and has not handled
    sent        \* history: packets handed to client.Send, and by whom

gameVars == <<replica, enemies, spawned, fired, performed>>
netVars  == <<inbox, sent>>
vars == <<is_host, joined, gameVars, hook, netVars>>

NoCall == [pc |-> "none", is_host |-> FALSE, enemy |-> Nothing]
Call(pc, host, e) == [pc |-> pc, is_host |-> host, enemy |-> e]

Init == /\ is_host = FALSE /\ joined = {} /\ replica = {}
        /\ enemies = [p \in Procs |-> EmptyBag]
        /\ spawned = [p \in Procs |-> 0] /\ fired = [p \in Procs |-> 0]
        /\ performed = [p \in Procs |-> <<>>]
        /\ hook = [p \in Procs |-> [t \in Threads |-> NoCall]]
        /\ inbox = [p \in Procs |-> <<>>]
        /\ sent = <<>>

IsHost(p) == p = Server /\ is_host

(* client.Send, and the relaying to the clients then connected.  What is sent  *)
(* before the connection stands is lost (enet_peer_send fails), and so is what *)
(* the client's queue or the server's loses (SendQueue, Relay).                *)
Send(p, packet, boxes) ==
    /\ sent' = Append(sent, [by |-> p, packet |-> packet])
    /\ \E to \in IF p \in joined THEN SUBSET (Procs \ {p}) ELSE {{}} :
          inbox' = [q \in Procs |-> IF q \in to THEN Append(boxes[q], packet)
                                               ELSE boxes[q]]

(* The packet being handled is popped: any of them, for the client's queue may *)
(* have sent a later one before it (SendQueue).                                *)
Without(s, k) == [i \in 1..(Len(s) - 1) |-> IF i < k THEN s[i] ELSE s[i + 1]]
Popped(p, k)  == [inbox EXCEPT ![p] = Without(@, k)]

Enemy(e)  == [type |-> "OnAddEnemy", what |-> e]
Attack(a) == [type |-> "OnAttack", what |-> a]

-----------------------------------------------------------------------------
(* The session.                                                                *)

Join(p) == /\ p \notin joined
           /\ joined' = joined \union {p}
           /\ UNCHANGED <<is_host, gameVars, hook, netVars>>

(* The server thread's on_connected, for whichever client came first. *)
OnConnected == /\ ~is_host /\ joined # {}
               /\ is_host' = TRUE
               /\ UNCHANGED <<joined, gameVars, hook, netVars>>

-----------------------------------------------------------------------------
(* hook_create_enemy_unit, on either thread: is_host is read first, then the   *)
(* unit is created, then sent or deleted.                                      *)

(* The game creates an enemy. *)
SpawnEnemy(p) ==
    /\ hook[p]["game"] = NoCall /\ spawned[p] < MaxSpawns
    /\ spawned' = [spawned EXCEPT ![p] = @ + 1]
    /\ hook' = [hook EXCEPT ![p]["game"] =
                    Call("create", IsHost(p), <<p, spawned[p] + 1>>)]
    /\ UNCHANGED <<is_host, joined, replica, enemies, fired, performed, netVars>>

(* OnAddEnemy: CreateEnemyUnit, with a do_active_presentation of 2. *)
AddEnemy(p, k, boxes) ==
    /\ p \in joined /\ hook[p]["client"] = NoCall
    /\ k \in DOMAIN inbox[p] /\ inbox[p][k].type = "OnAddEnemy"
    /\ inbox' = boxes
    /\ hook' = [hook EXCEPT ![p]["client"] =
                    IF p \in replica THEN Call("create", IsHost(p), inbox[p][k].what)
                                     ELSE NoCall]
    /\ UNCHANGED <<is_host, joined, gameVars, sent>>

OnAddEnemyKept(p, k) == AddEnemy(p, k, inbox)   \* a mistake: not popped
OnAddEnemy(p, k)     == AddEnemy(p, k, Popped(p, k))

(* The original function. *)
CreateEnemyUnit(p, t) ==
    /\ hook[p][t].pc = "create"
    /\ hook' = [hook EXCEPT ![p][t].pc = "end"]
    /\ enemies' = [enemies EXCEPT ![p] = @ (+) SetToBag({hook[p][t].enemy})]
    /\ UNCHANGED <<is_host, joined, replica, spawned, fired, performed, netVars>>

Announced(p, t)        == hook[p][t].is_host

DeletedReread(p, t)    == ~IsHost(p) /\ t = "game"      \* a mistake: read again
DeletedRemote(p, t)    == ~hook[p][t].is_host           \* a mistake: 2 not tested
Deleted(p, t)          == ~hook[p][t].is_host /\ t = "game"

EndCreateEnemy(p, t) ==
    /\ hook[p][t].pc = "end"
    /\ hook' = [hook EXCEPT ![p][t] = NoCall]
    /\ IF Announced(p, t) THEN Send(p, Enemy(hook[p][t].enemy), inbox)
                       ELSE UNCHANGED netVars
    /\ enemies' = IF Deleted(p, t)
                  THEN [enemies EXCEPT ![p] = @ (-) SetToBag({hook[p][t].enemy})]
                  ELSE enemies
    /\ UNCHANGED <<is_host, joined, replica, spawned, fired, performed>>

-----------------------------------------------------------------------------
(* hook_request_fire, called for a weapon of the local player's unit or of the *)
(* replicated unit: the former's attacks are sent.                             *)

RequestFireAnyOwner(p, owner, a, boxes) ==      \* a mistake
    Send(p, Attack(a), boxes)

RequestFire(p, owner, a, boxes) ==
    IF owner = "local" THEN Send(p, Attack(a), boxes)
                       ELSE sent' = sent /\ inbox' = boxes

(* The player attacks. *)
Fire(p) == /\ hook[p]["game"] = NoCall /\ fired[p] < MaxFires
           /\ fired' = [fired EXCEPT ![p] = @ + 1]
           /\ RequestFire(p, "local", <<p, fired[p] + 1>>, inbox)
           /\ UNCHANGED <<is_host, joined, replica, enemies, spawned, performed, hook>>

OnAttack(p, k) ==
    /\ p \in joined /\ hook[p]["client"] = NoCall
    /\ k \in DOMAIN inbox[p] /\ inbox[p][k].type = "OnAttack"
    /\ LET a == inbox[p][k].what
       IN IF p \in replica
          THEN /\ performed' = [performed EXCEPT ![p] = Append(@, a)]
               /\ RequestFire(p, "replica", a, Popped(p, k))
          ELSE inbox' = Popped(p, k) /\ UNCHANGED <<performed, sent>>
    /\ UNCHANGED <<is_host, joined, replica, enemies, spawned, fired, hook>>

-----------------------------------------------------------------------------
(* Maps (Replica has the details).                                             *)

(* hook_load_next_map: the units of the old map are gone, the enemies too, and *)
(* the replicated unit if there was one.                                       *)
LoadNextMap(p) == /\ hook[p]["game"] = NoCall
                  /\ replica' = replica \ {p}
                  /\ enemies' = [enemies EXCEPT ![p] = EmptyBag]
                  /\ UNCHANGED <<is_host, joined, spawned, fired, performed, hook,
                                 netVars>>

(* on_update, once the local player is there. *)
CreateReplica(p) == /\ hook[p]["game"] = NoCall /\ p \notin replica
                    /\ replica' = replica \union {p}
                    /\ UNCHANGED <<is_host, joined, enemies, spawned, fired,
                                   performed, hook, netVars>>

-----------------------------------------------------------------------------
GameThread(p) == \/ SpawnEnemy(p) \/ Fire(p) \/ LoadNextMap(p) \/ CreateReplica(p)
                 \/ CreateEnemyUnit(p, "game") \/ EndCreateEnemy(p, "game")

ClientThread(p) == \/ \E k \in DOMAIN inbox[p] : OnAddEnemy(p, k) \/ OnAttack(p, k)
                   \/ CreateEnemyUnit(p, "client") \/ EndCreateEnemy(p, "client")

Session == OnConnected \/ \E p \in Procs : Join(p)

Next == Session \/ \E p \in Procs : GameThread(p) \/ ClientThread(p)

Spec == Init /\ [][Next]_vars

(* The client threads handle what they receive, a call of the hook ends, and   *)
(* on_update creates the replica.                                              *)
FairSpec == Spec /\ \A p \in Procs :
                /\ WF_vars(ClientThread(p)) /\ WF_vars(CreateReplica(p))
                /\ WF_vars(CreateEnemyUnit(p, "game") \/ EndCreateEnemy(p, "game"))

-----------------------------------------------------------------------------
(* Properties.                                                                 *)

TypeOK ==
    /\ is_host \in BOOLEAN /\ joined \subseteq Procs /\ replica \subseteq Procs
    /\ \A p \in Procs : /\ IsABag(enemies[p]) /\ BagToSet(enemies[p]) \subseteq Enemies
                        /\ performed[p] \in Seq(Attacks)
                        /\ inbox[p] \in Seq(EnemyPackets \union AttackPackets)
    /\ spawned \in [Procs -> 0..MaxSpawns] /\ fired \in [Procs -> 0..MaxFires]
    /\ hook \in [Procs -> [Threads -> [pc : {"none", "create", "end"},
                                      is_host : BOOLEAN,
                                      enemy : Enemies \union {Nothing}]]]
    /\ sent \in Seq([by : Procs, packet : EnemyPackets \union AttackPackets])

(* Nothing is sent back: each enemy and each attack is sent once, by the       *)
(* process whose game or player made it, although creating a remote enemy or   *)
(* repeating a remote attack runs the hooks that send.                         *)
NoEcho ==
    /\ \A k \in DOMAIN sent : sent[k].by = sent[k].packet.what[1]
    /\ \A j, k \in DOMAIN sent : sent[j].packet = sent[k].packet => j = k

(* No enemy is in a map, and no attack repeated, more than once. *)
OneCopy == \A p \in Procs :
    /\ \A e \in BagToSet(enemies[p]) : enemies[p][e] = 1
    /\ \A j, k \in DOMAIN performed[p] :
          performed[p][j] = performed[p][k] => j = k

(* An enemy that is in any map to stay is one the host created and sent:       *)
(* whatever is_host turns into while enemies are being created, the host keeps *)
(* none that it has not handed to client.Send, and the others none of their    *)
(* own.  (What is handed over may be lost on its way.)                         *)
BeingCreated(p, e) == \E t \in Threads : hook[p][t].enemy = e

OnlyAnnouncedEnemies ==
    \A p \in Procs : \A e \in BagToSet(enemies[p]) :
        \/ BeingCreated(p, e)
        \/ /\ e[1] = Server
           /\ \E k \in DOMAIN sent : sent[k].packet = Enemy(e)

Announcing(p, e) == p \in joined /\ \E k \in DOMAIN inbox[p] : inbox[p][k] = Enemy(e)
InMap(p, e) == BagIn(e, enemies[p]) /\ ~BeingCreated(p, e)

(* An enemy whose packet reaches a process with a replicated unit appears in   *)
(* its map, and is not deleted like those of its own game, unless it leaves    *)
(* the map.                                                                    *)
EnemyAppears ==
    \A p \in Procs, e \in Enemies :
        Announcing(p, e) ~> (InMap(p, e) \/ p \notin replica)

(* hook_create_enemy_unit deletes the enemies of a game that is not the host   *)
(* to "await server entity creation packet" (hooks.h:275): the packets that    *)
(* arrive create the enemies.  (They do not while there is no replicated unit.)*)
AwaitedEnemyAppears ==
    \A p \in Procs, e \in Enemies : Announcing(p, e) ~> InMap(p, e)
=============================================================================
