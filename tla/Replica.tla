------------------------------ MODULE Replica -------------------------------
(* The replicated unit of one game process: how the hooks of the game thread   *)
(* (Hooks/hooks.h, on_update in core.h) create and forget the unit that stands *)
(* for the remote player, while the client thread's callbacks (core.h) use it. *)
(*                                                                             *)
(* The game loads maps.  In each it creates the local player's unit through    *)
(* hook_create_player_unit, which copies what is needed to create another one; *)
(* later a Lua handler makes that unit the player's active one; the next       *)
(* on_update creates the replica, through the same hook.  hook_load_next_map   *)
(* forgets both, before the game leaves the map: an on_update in between may   *)
(* create a replica there.  The threads share these globals without any lock.  *)
EXTENDS Naturals, Sequences

CONSTANTS MaxLoads,     \* bound: calls of LoadNextMap
          MaxPackets    \* bound: packets handled by the callbacks

ASSUME BoundsAssumption == MaxLoads \in Nat /\ MaxPackets \in Nat

NoUnit     == 0                 \* a null Unit*; units go by their number
NoTemplate == 0                 \* a template goes by the map it is from
PlayerUnits == [map : 0..MaxLoads, by : {"game", "on_update"}, data : 0..MaxLoads,
                leaving : BOOLEAN]
Halves     == {"x", "y"}        \* of a position

VARIABLES
    map,             \* the game: maps loaded so far
    leaving,         \* LoadNextMap called, the old map's units not yet destroyed
    units,           \* every player unit ever created: its map, its creator, the
                     \* map of the data it was created with, and whether its map
                     \* was then being left, ...
    destroyed,       \* ... and those the game has destroyed
    active_unit,     \* players[0]->active_unit
    has_loaded_player,
    template,        \* new_unit_data, new_map_thing, spawn_location: the map
                     \* whose local player's they are copies of
    original_unit, replicated_unit,
    gpc,             \* game thread: "game", or in on_update: "created",
                     \* "cleared" (in CopyArsenal), "move", "measure", "near",
                     \* "send"
    point,           \* game thread: the halves of move_pos it has read
    arsenal,         \* replicated_unit's: how many of each weapon are in it
    move_pos,        \* number of the packet each half is from, or 0
    cpc,             \* client thread: "idle", "moveSet", "moveX", "moveY",
                     \* or one of Attacking
    held, weapon,    \* OnAttack's locals `unit' and `weapon_hash'
    packet,          \* packets received so far; the last is being handled
    raced,           \* history: a load has begun since the callback's check
    overlapped,      \* history: an OnAttack ran while the replica was completed
    uses,            \* history: how the uses of the unit found it, and raced
    mixed            \* history: move_pos was being assigned while point was read

gameVars   == <<map, leaving, units, destroyed, active_unit>>
globalVars == <<has_loaded_player, template, original_unit, replicated_unit>>
clientVars == <<move_pos, cpc, held, weapon, packet>>
history    == <<raced, overlapped, uses, mixed>>
vars == <<gameVars, globalVars, gpc, point, arsenal, clientVars, history>>

(* What OnAttack tells apart in a weapon: the local player's unit had it when  *)
(* the replica was made, or not.                                               *)
Weapons == {"carried", "other"}

Attacking  == {"attackGet", "attackFind", "attackAdd", "attackUse"}
Completing == {"created", "cleared"}      \* on_update is in CopyArsenal
NoWeapons  == [w \in Weapons |-> 0]
Whole(k)   == [h \in Halves |-> k]       \* the position of packet k
Unread     == <<>>                        \* none of its halves

Init == /\ map = 0 /\ leaving = FALSE /\ units = <<>> /\ destroyed = {}
        /\ active_unit = NoUnit /\ has_loaded_player = FALSE
        /\ template = NoTemplate
        /\ original_unit = NoUnit /\ replicated_unit = NoUnit
        /\ gpc = "game" /\ point = Unread /\ arsenal = NoWeapons
        /\ move_pos = Whole(0)
        /\ cpc = "idle" /\ held = NoUnit /\ weapon = "other" /\ packet = 0
        /\ raced = FALSE /\ overlapped = FALSE /\ uses = {} /\ mixed = FALSE

(* A unit is used.  What is met there, and what might explain it: a load has   *)
(* begun since a test of the unit, or its map was being left when it was made. *)
Meets(u) == CASE u = NoUnit      -> "null"
              [] u \in destroyed -> "freed"
              [] OTHER           -> "unit"
MadeLeaving(u) == u \in DOMAIN units /\ units[u].leaving
Use(u, late) == uses' = uses \union {[met |-> Meets(u), raced |-> late,
                                      leaving |-> MadeLeaving(u)]}

-----------------------------------------------------------------------------
(* The game thread.                                                            *)

(* hook_load_next_map, up to the call of the original function, which may      *)
(* return long before the old map is gone.  (The first two are mistaken.)      *)
LoadNextMapKeepsReplica ==
    /\ gpc = "game" /\ ~leaving /\ map < MaxLoads
    /\ has_loaded_player' = FALSE /\ original_unit' = NoUnit
    /\ leaving' = TRUE
    /\ raced' = (raced \/ cpc # "idle")
    /\ UNCHANGED <<map, units, destroyed, active_unit, template, replicated_unit, gpc,
                   point, arsenal, clientVars, overlapped, uses, mixed>>

LoadNextMapKeepsFlag ==
    /\ gpc = "game" /\ ~leaving /\ map < MaxLoads
    /\ original_unit' = NoUnit /\ replicated_unit' = NoUnit
    /\ leaving' = TRUE
    /\ raced' = (raced \/ cpc # "idle")
    /\ UNCHANGED <<map, units, destroyed, active_unit, has_loaded_player, template,
                   gpc, point, arsenal, clientVars, overlapped, uses, mixed>>

LoadNextMap ==
    /\ gpc = "game" /\ ~leaving /\ map < MaxLoads
    /\ has_loaded_player' = FALSE
    /\ original_unit' = NoUnit /\ replicated_unit' = NoUnit
    /\ leaving' = TRUE
    /\ raced' = (raced \/ cpc # "idle")
    /\ UNCHANGED <<map, units, destroyed, active_unit, template, gpc, point, arsenal,
                   clientVars, overlapped, uses, mixed>>

(* The game: the old map's units are destroyed, the new map begins. *)
EnterMap == /\ leaving /\ gpc = "game"
            /\ leaving' = FALSE
            /\ map' = map + 1
            /\ destroyed' = DOMAIN units
            /\ active_unit' = NoUnit
            /\ UNCHANGED <<units, globalVars, gpc, point, arsenal, clientVars, history>>

(* hook_create_player_unit, called with the data of the map `data': the first  *)
(* call after a load is taken for the local player's, and its data copied.     *)
NewUnit(by, data) == [map |-> map, by |-> by, data |-> data, leaving |-> leaving]

CreatePlayerUnitEachTime(by, data) ==   \* a mistake: has_loaded_player not tested
    /\ units' = Append(units, NewUnit(by, data))
    /\ template' = data
    /\ has_loaded_player' = TRUE
    /\ original_unit' = Len(units) + 1

CreatePlayerUnit(by, data) ==
    /\ units' = Append(units, NewUnit(by, data))
    /\ template' = IF has_loaded_player THEN template ELSE data
    /\ has_loaded_player' = TRUE
    /\ original_unit' = IF original_unit = NoUnit THEN Len(units) + 1
                                                  ELSE original_unit

HasLocal == \E u \in DOMAIN units : units[u].map = map /\ units[u].by = "game"

(* The game creates the local player's unit, once in each map. *)
CreateLocal ==
    /\ gpc = "game" /\ ~leaving /\ map > 0 /\ ~HasLocal
    /\ CreatePlayerUnit("game", map)
    /\ UNCHANGED <<map, leaving, destroyed, active_unit, replicated_unit, gpc, point,
                   arsenal, clientVars, history>>

(* The game's Lua handler assigns it to the player. *)
AssignActive ==
    /\ gpc = "game" /\ active_unit = NoUnit
    /\ \E u \in DOMAIN units : /\ units[u].map = map /\ units[u].by = "game"
                               /\ active_unit' = u
    /\ UNCHANGED <<map, leaving, units, destroyed, globalVars, gpc, point, arsenal,
                   clientVars, history>>

(* on_update's condition for creating the replica; the first two are mistaken. *)
ReplicaWantedAgain   == template # NoTemplate /\ active_unit # NoUnit
ReplicaWantedTooLate == /\ template # NoTemplate /\ active_unit # NoUnit
                        /\ replicated_unit = NoUnit /\ ~has_loaded_player
ReplicaWanted == /\ template # NoTemplate /\ active_unit # NoUnit
                 /\ replicated_unit = NoUnit

(* on_update as far as the assignment of replicated_unit: from here on the     *)
(* callbacks use the unit ...                                                  *)
CreateReplica ==
    /\ gpc = "game" /\ ReplicaWanted
    /\ CreatePlayerUnit("on_update", template)
    /\ replicated_unit' = Len(units) + 1
    /\ arsenal' = NoWeapons
    /\ gpc' = "created"
    /\ overlapped' = (cpc \in Attacking)
    /\ UNCHANGED <<map, leaving, destroyed, active_unit, point, clientVars, raced, uses,
                   mixed>>

(* ... while CopyArsenal creates the weapons, empties the arsenal ...          *)
ClearArsenal ==
    /\ gpc = "created"
    /\ gpc' = "cleared"
    /\ arsenal' = NoWeapons
    /\ UNCHANGED <<gameVars, globalVars, point, clientVars, history>>

(* ... and adds them; AddOutline and the Lua table follow.                     *)
FixUpReplica ==
    /\ gpc = "cleared"
    /\ gpc' = "move"
    /\ arsenal' = [arsenal EXCEPT !["carried"] = @ + 1]
    /\ UNCHANGED <<gameVars, globalVars, point, clientVars, history>>

UpdateWithoutReplica ==
    /\ gpc = "game" /\ ~ReplicaWanted
    /\ gpc' = "move"
    /\ UNCHANGED <<gameVars, globalVars, point, arsenal, clientVars, history>>

(* The end of on_update: if move_pos is not (0, 0), the replica's distance     *)
(* from it is measured, ...  (move_pos outlives the map it was received in.    *)
(* The comparison itself sees it as it is at one moment: from (0, 0) it goes   *)
(* only once, and x first.)                                                    *)
MoveWantedTooLate == /\ replicated_unit # NoUnit /\ active_unit # NoUnit
                     /\ move_pos # Whole(0) /\ ~has_loaded_player  \* a mistake
MoveWanted == /\ replicated_unit # NoUnit /\ active_unit # NoUnit
              /\ move_pos # Whole(0)

TestMove ==
    /\ gpc = "move"
    /\ gpc' = IF MoveWanted THEN "measure" ELSE "game"
    /\ IF MoveWanted THEN Use(replicated_unit, FALSE) ELSE UNCHANGED uses
    /\ UNCHANGED <<gameVars, globalVars, point, arsenal, clientVars, raced, overlapped,
                   mixed>>

(* ... on a copy of move_pos, the halves of which are read one by one, in the  *)
(* order the compiler chose; ...                                               *)
ReadHalf(h) ==
    /\ gpc \in {"measure", "send"} /\ h \notin DOMAIN point
    /\ point' = [i \in DOMAIN point \union {h} |->
                     IF i = h THEN move_pos[h] ELSE point[i]]
    /\ mixed' = IF DOMAIN point = {} THEN cpc = "moveY" ELSE mixed
    /\ UNCHANGED <<gameVars, globalVars, gpc, arsenal, clientVars, raced, overlapped,
                   uses>>

(* ... and if it is more than 25 away, MoveInput is given the address of       *)
(* move_pos and reads it again.  (Where the replica stands is the game's.)     *)
JudgeDistance ==
    /\ gpc = "measure" /\ DOMAIN point = Halves
    /\ \/ gpc' = "near" /\ UNCHANGED <<point, mixed>>
       \/ gpc' = "send" /\ point' = Unread /\ mixed' = FALSE
    /\ UNCHANGED <<gameVars, globalVars, arsenal, clientVars, raced, overlapped, uses>>

EndMove ==
    /\ gpc = "near" \/ (gpc = "send" /\ DOMAIN point = Halves)
    /\ gpc' = "game" /\ point' = Unread /\ mixed' = FALSE
    /\ UNCHANGED <<gameVars, globalVars, arsenal, clientVars, raced, overlapped, uses>>

-----------------------------------------------------------------------------
(* The client thread: one packet at a time.                                    *)

Begin == /\ cpc = "idle" /\ packet < MaxPackets
         /\ packet' = packet + 1 /\ raced' = FALSE
         /\ UNCHANGED <<gameVars, globalVars, gpc, point, arsenal, move_pos, held,
                        uses, mixed>>

(* OnMovementUpdate, OnAttack: if (global::replicated_unit) *)
CheckMoveNotMade == /\ Begin /\ cpc' = "moveSet"          \* a mistake
                    /\ UNCHANGED <<weapon, overlapped>>

CheckMove == /\ Begin
             /\ cpc' = IF replicated_unit # NoUnit THEN "moveSet" ELSE "idle"
             /\ UNCHANGED <<weapon, overlapped>>

CheckAttack ==
    /\ Begin
    /\ IF replicated_unit # NoUnit
       THEN /\ cpc' = "attackGet" /\ weapon' \in Weapons
            /\ overlapped' = (overlapped \/ gpc \in Completing)
       ELSE UNCHANGED <<cpc, weapon, overlapped>>

(* A later step of a callback: of the game's state it changes nothing. *)
Continue(from, to) ==
    /\ cpc = from /\ cpc' = to
    /\ UNCHANGED <<gameVars, globalVars, gpc, point, packet, raced, overlapped>>

(* replicated_unit->mIsMoving: the global is read again. *)
SetMoving == /\ Continue("moveSet", "moveX")
             /\ Use(replicated_unit, raced)
             /\ UNCHANGED <<arsenal, move_pos, held, weapon, mixed>>

(* A half of move_pos is assigned, while on_update may have read the other. *)
SetHalf(h) == /\ move_pos' = [move_pos EXCEPT ![h] = packet]
              /\ mixed' = (mixed \/ DOMAIN point \notin {{}, Halves})
              /\ UNCHANGED <<arsenal, held, weapon, uses>>

SetMoveX == Continue("moveX", "moveY") /\ SetHalf("x")

SetMoveYLost == /\ Continue("moveY", "idle")        \* a mistake
                /\ UNCHANGED <<arsenal, move_pos, held, weapon, uses, mixed>>

SetMoveY == Continue("moveY", "idle") /\ SetHalf("y")

(* engine::hades::Unit* unit = global::replicated_unit; *)
GetUnit == /\ Continue("attackGet", "attackFind")
           /\ held' = replicated_unit
           /\ UNCHANGED <<arsenal, move_pos, weapon, uses, mixed>>

(* What OnAttack holds is the replica, and still exists. *)
HeldReplica == held = replicated_unit /\ held \notin destroyed /\ held # NoUnit

(* Its arsenal is searched for the weapon.  (That of a unit already destroyed  *)
(* holds anything.)                                                            *)
FindWeaponNever ==                      \* a mistake: compared by another name
    /\ Continue("attackFind", "attackAdd")
    /\ Use(held, raced)
    /\ UNCHANGED <<arsenal, move_pos, held, weapon, mixed>>

FindWeapon ==
    /\ \E found \in BOOLEAN :
          /\ HeldReplica => (found <=> arsenal[weapon] > 0)
          /\ Continue("attackFind", IF found THEN "attackUse" ELSE "attackAdd")
    /\ Use(held, raced)
    /\ UNCHANGED <<arsenal, move_pos, held, weapon, mixed>>

(* The weapon is created and added. *)
AddWeapon ==
    /\ Continue("attackAdd", "attackUse")
    /\ arsenal' = IF HeldReplica THEN [arsenal EXCEPT ![weapon] = @ + 1] ELSE arsenal
    /\ Use(held, raced)
    /\ UNCHANGED <<move_pos, held, weapon, mixed>>

(* It is searched again, and fires. *)
FireWeapon == /\ Continue("attackUse", "idle")
              /\ held' = NoUnit
              /\ Use(held, raced)
              /\ UNCHANGED <<arsenal, move_pos, weapon, mixed>>

-----------------------------------------------------------------------------
OnUpdate == \/ CreateReplica \/ ClearArsenal \/ FixUpReplica
            \/ UpdateWithoutReplica \/ TestMove
            \/ (\E h \in Halves : ReadHalf(h)) \/ JudgeDistance \/ EndMove

GameThread == LoadNextMap \/ EnterMap \/ CreateLocal \/ AssignActive \/ OnUpdate

ClientThread == \/ CheckMove \/ SetMoving \/ SetMoveX \/ SetMoveY
                \/ CheckAttack \/ GetUnit \/ FindWeapon \/ AddWeapon \/ FireWeapon

Next == GameThread \/ ClientThread

Spec == Init /\ [][Next]_vars

(* The game keeps updating.  What else it does is its own business. *)
FairSpec == Spec /\ WF_vars(OnUpdate)

-----------------------------------------------------------------------------
(* Properties.                                                                 *)

TypeOK ==
    /\ map \in 0..MaxLoads /\ leaving \in BOOLEAN
    /\ units \in Seq(PlayerUnits)
    /\ destroyed \subseteq DOMAIN units
    /\ active_unit \in {NoUnit} \union DOMAIN units
    /\ has_loaded_player \in BOOLEAN
    /\ template \in 0..MaxLoads
    /\ original_unit \in {NoUnit} \union DOMAIN units
    /\ replicated_unit \in {NoUnit} \union DOMAIN units
    /\ gpc \in {"game", "move", "measure", "near", "send"} \union Completing
    /\ DOMAIN point \subseteq Halves
    /\ \A h \in DOMAIN point : point[h] \in 0..MaxPackets
    /\ arsenal \in [Weapons -> Nat]
    /\ move_pos \in [Halves -> 0..MaxPackets]
    /\ cpc \in {"idle", "moveSet", "moveX", "moveY"} \union Attacking
    /\ held \in {NoUnit} \union DOMAIN units
    /\ weapon \in Weapons /\ packet \in 0..MaxPackets
    /\ raced \in BOOLEAN /\ overlapped \in BOOLEAN /\ mixed \in BOOLEAN
    /\ uses \subseteq [met : {"null", "freed", "unit"}, raced : BOOLEAN,
                       leaving : BOOLEAN]

(* replicated_unit, while it is set, is a unit that on_update created: a       *)
(* living one of the map being played, or else one created after the hook had  *)
(* forgotten the units of the map it was created in, and before that was left. *)
ReplicaValid ==
    replicated_unit # NoUnit =>
        /\ units[replicated_unit].by = "on_update"
        /\ \/ units[replicated_unit].leaving
           \/ /\ replicated_unit \notin destroyed
              /\ units[replicated_unit].map = map

(* original_unit is the living unit the game created for the local player, not *)
(* the replica, although both come out of the same hook, except that it is     *)
(* that of an on_update between the hook of a load and the end of its map.     *)
OriginalIsLocal ==
    original_unit # NoUnit =>
        \/ units[original_unit].leaving /\ units[original_unit].by = "on_update"
        \/ original_unit \notin destroyed /\ units[original_unit].by = "game"

(* A replica created in a map that is being played is made after the local     *)
(* player of that map (the same unit data, map thing and spawn location), not  *)
(* after an earlier map's: not even when a replica created while an earlier    *)
(* map was left has taken the local player's place in the hook.                *)
ReplicaLikeLocal ==
    \A u \in DOMAIN units : ~units[u].leaving => units[u].data = units[u].map

(* However often on_update runs, it creates one replica in a map that is       *)
(* played and at most one more in it while it is being left.                   *)
OneReplicaPerMap ==
    \A u, v \in DOMAIN units :
        /\ units[u].by = "on_update" /\ units[v].by = "on_update"
        /\ units[u].map = units[v].map /\ units[u].leaving = units[v].leaving
        => u = v

(* A null or a destroyed unit is used only by a callback that had tested       *)
(* replicated_unit before a load began (nothing prevents it then), or when the *)
(* unit was created in a map already being left (nothing forgets it then).     *)
SafeUnlessRaced ==
    \A use \in uses : use.met # "unit" => use.raced \/ use.leaving

(* on_update measures, and sends the replica to, a point whose halves are of   *)
(* two packets only if an OnMovementUpdate was between its two assignments, or *)
(* came to one of them, while on_update read move_pos.                         *)
TornOnlyIfOverlapped ==
    DOMAIN point = Halves /\ point["x"] # point["y"] => mixed

(* No weapon is in the replica's arsenal twice and the one that is to fire is  *)
(* in it, unless an OnAttack ran while on_update was completing the replica    *)
(* (then its weapon may be forgotten or be added to the copied one), or across *)
(* a load.                                                                     *)
WeaponsOnce ==
    ~overlapped => /\ \A w \in Weapons : arsenal[w] <= 1
                   /\ cpc = "attackUse" /\ HeldReplica => arsenal[weapon] = 1

(* A position that was received whole is not lost to a torn or an early read:  *)
(* as long as it stands, on_update comes to see both its halves, and finds the *)
(* replica near it or sends the replica there, unless the map is left.         *)
PositionFollowed ==
    \A k \in 1..MaxPackets :
        (move_pos = Whole(k)) ~> \/ gpc \in {"near", "send"} /\ point = Whole(k)
                                \/ move_pos # Whole(k)
                                \/ replicated_unit = NoUnit \/ active_unit = NoUnit

(* Once the local player's unit is active, a replica is created in its map,    *)
(* unless the game leaves the map, or one created while the last map was being *)
(* left is still in its place.                                                 *)
ReplicaAppears ==
    (active_unit # NoUnit) ~>
        \/ leaving
        \/ /\ replicated_unit # NoUnit
           /\ units[replicated_unit].map = map \/ units[replicated_unit].leaving
=============================================================================
