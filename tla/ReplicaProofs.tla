--------------------------- MODULE ReplicaProofs ----------------------------
(* What is proved of the replica, for every number of loads and packets, and   *)
(* whether or not the game's LoadNextMap returns before the old map is gone.   *)
EXTENDS Replica, Integers, TLAPS

-----------------------------------------------------------------------------
(* The inductive invariant.                                                    *)

(* replicated_unit is one that on_update created while its map was being left. *)
Untimely == MadeLeaving(replicated_unit)

(* While a map is being left everything about it has been forgotten, unless    *)
(* on_update has created another replica meanwhile.                            *)
Forgotten == leaving =>
    /\ map < MaxLoads
    /\ ~Untimely => /\ ~has_loaded_player
                    /\ original_unit = NoUnit /\ replicated_unit = NoUnit

(* In a map that is being played, has_loaded_player says whether the local     *)
(* player's unit exists, and the globals are then about that unit, unless the  *)
(* hook was taken in by an untimely replica.                                   *)
Loaded == /\ ~leaving /\ ~Untimely =>
                /\ has_loaded_player <=> HasLocal
                /\ has_loaded_player => template = map /\ original_unit # NoUnit
          /\ active_unit # NoUnit => HasLocal

(* No unit is of a later map, and a destroyed one is of an earlier map, as is  *)
(* what was created while its map was left, once that has been left.           *)
Older == /\ \A u \in DOMAIN units : units[u].map <= map
         /\ \A u \in destroyed : units[u].map < map
         /\ ~leaving => \A u \in DOMAIN units : units[u].leaving => units[u].map < map

(* The replica and the local player's unit are of the map being played or      *)
(* untimely, and what on_update has created in this map, or since it is being  *)
(* left, is the replica.                                                       *)
Current == /\ replicated_unit # NoUnit =>
                 /\ units[replicated_unit].by = "on_update"
                 /\ units[replicated_unit].map = map \/ units[replicated_unit].leaving
           /\ original_unit # NoUnit =>
                 \/ units[original_unit].by = "game" /\ units[original_unit].map = map
                 \/ units[original_unit].leaving /\ units[original_unit].by = "on_update"
           /\ leaving /\ original_unit # NoUnit =>
                 units[original_unit].leaving /\ units[original_unit].by = "on_update"
           /\ \A u \in DOMAIN units :
                  /\ units[u].by = "on_update" /\ units[u].map = map
                  /\ units[u].leaving = leaving
                  => replicated_unit = u

(* The halves of move_pos differ only between the callback's two assignments,  *)
(* and what on_update has read of it, if nothing came between, is both halves. *)
Position == /\ cpc = "moveY" => move_pos["x"] = packet
            /\ cpc # "moveY" => move_pos["x"] = move_pos["y"]
            /\ \A h \in DOMAIN point : ~mixed /\ DOMAIN point # Halves =>
                  cpc # "moveY" /\ point[h] = move_pos[h]

(* What a callback knows of replicated_unit as long as no load has begun.      *)
Known == ~raced =>
    /\ cpc \in {"moveSet", "attackGet"} => replicated_unit # NoUnit
    /\ cpc \in Attacking \ {"attackGet"} => held = replicated_unit /\ held # NoUnit

(* As long as no OnAttack has overlapped the completion of the replica: it is  *)
(* completed from an empty arsenal, and what OnAttack is to add is not there.  *)
Armed == ~overlapped =>
    /\ gpc \in Completing => cpc \notin Attacking /\ arsenal = NoWeapons
    /\ cpc = "attackAdd" /\ HeldReplica => arsenal[weapon] = 0

IInv == /\ TypeOK /\ Forgotten /\ Loaded /\ Older /\ Current
        /\ ReplicaLikeLocal /\ OneReplicaPerMap
        /\ Position /\ TornOnlyIfOverlapped /\ Known /\ SafeUnlessRaced
        /\ Armed /\ WeaponsOnce

LEMMA UnitTypes ==
  ASSUME TypeOK
  PROVE  /\ map \in Int /\ template \in Int /\ Len(units) \in Nat
         /\ DOMAIN units = 1..Len(units)
         /\ NoUnit \notin DOMAIN units
         /\ \A u \in DOMAIN units : /\ units[u].map \in Int
                                    /\ units[u].data \in Int
                                    /\ units[u].leaving \in BOOLEAN
  <1>1. /\ DOMAIN units = 1..Len(units) /\ Len(units) \in Nat
        /\ \A u \in DOMAIN units : units[u] \in PlayerUnits
    BY DEF TypeOK
  <1> QED  BY <1>1, BoundsAssumption DEF TypeOK, PlayerUnits, NoUnit

LEMMA UntimelyUnit ==
  ASSUME TypeOK
  PROVE  Untimely <=> replicated_unit # NoUnit /\ units[replicated_unit].leaving
  BY UnitTypes DEF TypeOK, Untimely, MadeLeaving

LEMMA AppendUnit ==
  ASSUME TypeOK, NEW r \in PlayerUnits, units' = Append(units, r)
  PROVE  /\ units' \in Seq(PlayerUnits)
         /\ DOMAIN units' = DOMAIN units \union {Len(units) + 1}
         /\ Len(units) + 1 \notin DOMAIN units
         /\ Len(units) + 1 # NoUnit
         /\ units'[Len(units) + 1] = r
         /\ \A u \in DOMAIN units : units'[u] = units[u]
  BY DEF TypeOK, NoUnit

-----------------------------------------------------------------------------
(* The game thread.                                                            *)

LEMMA LoadNextMapKeepsIInv ==
  ASSUME IInv, LoadNextMap
  PROVE  IInv'
  <1> USE DEF IInv, LoadNextMap, gameVars, clientVars
  <1>1. TypeOK'
    BY BoundsAssumption DEF TypeOK
  <1>2. Forgotten' /\ Loaded' /\ Older'
    BY DEF TypeOK, Forgotten, Loaded, Older, HasLocal
  <1>3. Current'
    <2>1. \A u \in DOMAIN units : units[u].leaving => units[u].map # map
      BY UnitTypes DEF Older
    <2>2. \A u \in DOMAIN units : units[u].map = map => units[u].leaving # TRUE
      BY <2>1, UnitTypes
    <2> QED  BY <2>2 DEF Current
  <1>4. ReplicaLikeLocal' /\ OneReplicaPerMap'
    BY DEF ReplicaLikeLocal, OneReplicaPerMap
  <1>5. Position' /\ TornOnlyIfOverlapped'
    BY DEF Position, TornOnlyIfOverlapped
  <1>6. Known' /\ SafeUnlessRaced'
    BY DEF TypeOK, Known, SafeUnlessRaced, Attacking
  <1>7. Armed' /\ WeaponsOnce'
    BY DEF TypeOK, Armed, WeaponsOnce, HeldReplica, Attacking, Completing, NoWeapons
  <1> QED  BY <1>1, <1>2, <1>3, <1>4, <1>5, <1>6, <1>7

LEMMA EnterMapKeepsIInv ==
  ASSUME IInv, EnterMap
  PROVE  IInv'
  <1> USE DEF IInv, EnterMap, globalVars, clientVars, history
  <1>1. TypeOK'
    <2>1. map' \in 0..MaxLoads
      BY BoundsAssumption DEF TypeOK, Forgotten
    <2>2. /\ destroyed' \subseteq DOMAIN units'
          /\ active_unit' \in {NoUnit} \union DOMAIN units'
          /\ original_unit' \in {NoUnit} \union DOMAIN units'
          /\ replicated_unit' \in {NoUnit} \union DOMAIN units'
          /\ held' \in {NoUnit} \union DOMAIN units'
      BY DEF TypeOK
    <2> QED  BY <2>1, <2>2 DEF TypeOK
  <1>2. Older' /\ ~HasLocal' /\ (Untimely' <=> Untimely)
    BY UnitTypes DEF Older, HasLocal, Untimely, MadeLeaving
  <1>3. Forgotten' /\ Loaded'
    BY <1>2 DEF Forgotten, Loaded
  <1>4. Current'
    <2>1. \A u \in DOMAIN units : units[u].map # map'
      BY UnitTypes DEF Older
    <2>2. replicated_unit # NoUnit => units[replicated_unit].leaving
      BY UntimelyUnit DEF Forgotten
    <2>3. original_unit # NoUnit =>
              units[original_unit].leaving /\ units[original_unit].by = "on_update"
      BY DEF Current
    <2> QED  BY <2>1, <2>2, <2>3 DEF Current
  <1>5. ReplicaLikeLocal' /\ OneReplicaPerMap'
    BY DEF ReplicaLikeLocal, OneReplicaPerMap
  <1>6. Position' /\ TornOnlyIfOverlapped'
    BY DEF Position, TornOnlyIfOverlapped
  <1>7. Known' /\ SafeUnlessRaced'
    BY DEF Known, SafeUnlessRaced
  <1>8. Armed' /\ WeaponsOnce'
    <2>1. HeldReplica' => HeldReplica
      BY UnitTypes DEF TypeOK, HeldReplica
    <2> QED  BY <2>1 DEF Armed, WeaponsOnce, Completing
  <1> QED  BY <1>1, <1>2, <1>3, <1>4, <1>5, <1>6, <1>7, <1>8

LEMMA CreateLocalKeepsIInv ==
  ASSUME IInv, CreateLocal
  PROVE  IInv'
  <1> USE DEF IInv, CreateLocal, clientVars, history
  <1> DEFINE r == [map |-> map, by |-> "game", data |-> map, leaving |-> FALSE]
             n == Len(units) + 1
  <1>1. r \in PlayerUnits /\ units' = Append(units, r)
    BY DEF CreatePlayerUnit, NewUnit, TypeOK, PlayerUnits
  <1>2. /\ units' \in Seq(PlayerUnits)
        /\ DOMAIN units' = DOMAIN units \union {n}
        /\ n \notin DOMAIN units /\ n # NoUnit /\ units'[n] = r
        /\ \A u \in DOMAIN units : units'[u] = units[u]
    BY <1>1, AppendUnit
  <1>3. has_loaded_player' /\ (template' = map \/ template' = template)
    BY DEF CreatePlayerUnit
  <1>4. original_unit' = (IF original_unit = NoUnit THEN n ELSE original_unit)
    BY DEF CreatePlayerUnit
  <1>5. Untimely' <=> Untimely
    BY <1>2, UnitTypes DEF TypeOK, Untimely, MadeLeaving
  <1>6. ~Untimely => template' = map
    BY DEF Loaded, CreatePlayerUnit
  <1> HIDE DEF r, n
  <1>7. r.map = map /\ r.by = "game" /\ r.data = map /\ r.leaving = FALSE
    BY DEF r
  <1>8. TypeOK'
    BY <1>2, <1>3, <1>4 DEF TypeOK
  <1>9. Forgotten' /\ Loaded'
    BY <1>2, <1>3, <1>4, <1>5, <1>6, <1>7 DEF TypeOK, Forgotten, Loaded, HasLocal
  <1>10. Older'
    BY <1>2, <1>7, UnitTypes DEF TypeOK, Older
  <1>11. Current'
    BY <1>2, <1>4, <1>7 DEF TypeOK, Current
  <1>12. ReplicaLikeLocal' /\ OneReplicaPerMap'
    BY <1>2, <1>7 DEF ReplicaLikeLocal, OneReplicaPerMap
  <1>13. Position' /\ TornOnlyIfOverlapped'
    BY DEF Position, TornOnlyIfOverlapped
  <1>14. Known' /\ SafeUnlessRaced'
    BY DEF Known, SafeUnlessRaced
  <1>15. Armed' /\ WeaponsOnce'
    BY DEF Armed, WeaponsOnce, HeldReplica
  <1> QED  BY <1>8, <1>9, <1>10, <1>11, <1>12, <1>13, <1>14, <1>15

LEMMA CreateReplicaKeepsIInv ==
  ASSUME IInv, CreateReplica
  PROVE  IInv'
  <1> USE DEF IInv, CreateReplica, clientVars, history
  <1> DEFINE r == [map |-> map, by |-> "on_update", data |-> template,
                   leaving |-> leaving]
             n == Len(units) + 1
  <1>1. replicated_unit = NoUnit /\ ~Untimely /\ HasLocal
    BY UntimelyUnit DEF ReplicaWanted, Loaded
  <1>2. ~leaving => has_loaded_player /\ template = map /\ original_unit # NoUnit
    BY <1>1 DEF Loaded
  <1>3. leaving => original_unit = NoUnit
    BY <1>1 DEF Forgotten
  <1>4. r \in PlayerUnits /\ units' = Append(units, r)
    BY DEF CreatePlayerUnit, NewUnit, TypeOK, PlayerUnits
  <1>5. /\ units' \in Seq(PlayerUnits)
        /\ DOMAIN units' = DOMAIN units \union {n}
        /\ n \notin DOMAIN units /\ n # NoUnit /\ units'[n] = r
        /\ \A u \in DOMAIN units : units'[u] = units[u]
    BY <1>4, AppendUnit
  <1>6. /\ has_loaded_player' /\ template' = template
        /\ original_unit' = IF leaving THEN n ELSE original_unit
        /\ replicated_unit' = n
    BY <1>2, <1>3 DEF CreatePlayerUnit
  <1> HIDE DEF r, n
  <1>7. r.map = map /\ r.by = "on_update" /\ r.data = template /\ r.leaving = leaving
    BY DEF r
  <1>8. arsenal' = NoWeapons /\ overlapped' = (cpc \in Attacking)
    OBVIOUS
  <1>9. NoWeapons \in [Weapons -> Nat] /\ \A w \in Weapons : NoWeapons[w] = 0
    BY DEF NoWeapons
  <1>10. TypeOK'
    <2>1. gpc' \in {"game", "move", "measure", "near", "send"} \union Completing
      BY DEF Completing
    <2>2. arsenal' \in [Weapons -> Nat] /\ overlapped' \in BOOLEAN
      BY <1>8, <1>9
    <2>3. original_unit' \in {NoUnit} \union DOMAIN units'
      BY <1>5, <1>6 DEF TypeOK
    <2> QED  BY <1>5, <1>6, <2>1, <2>2, <2>3 DEF TypeOK
  <1>11. Untimely' <=> leaving
    BY <1>5, <1>6, <1>7 DEF Untimely, MadeLeaving
  <1>12. Forgotten' /\ Loaded'
    BY <1>1, <1>2, <1>5, <1>6, <1>11 DEF TypeOK, Forgotten, Loaded, HasLocal
  <1>13. Older'
    BY <1>5, <1>7, UnitTypes DEF TypeOK, Older
  <1>14. \A u \in DOMAIN units : ~(/\ units[u].by = "on_update" /\ units[u].map = map
                                   /\ units[u].leaving = leaving)
    BY <1>1, UnitTypes DEF Current
  <1>15. Current'
    BY <1>2, <1>5, <1>6, <1>7, <1>14 DEF TypeOK, Current
  <1>16. ReplicaLikeLocal' /\ OneReplicaPerMap'
    BY <1>2, <1>5, <1>7, <1>14 DEF TypeOK, ReplicaLikeLocal, OneReplicaPerMap
  <1>17. Position' /\ TornOnlyIfOverlapped'
    BY DEF Position, TornOnlyIfOverlapped
  <1>18. Known' /\ SafeUnlessRaced'
    BY <1>1, <1>5, <1>6 DEF Known, SafeUnlessRaced, Attacking
  <1>19. Armed' /\ WeaponsOnce'
    <2>1. ~overlapped' => cpc' \notin Attacking
      BY <1>8
    <2>2. weapon' \in Weapons /\ \A w \in Weapons : arsenal'[w] = 0
      BY <1>8, <1>9 DEF TypeOK
    <2>3. Armed'
      BY <1>8, <2>1 DEF Armed, Attacking
    <2>4. WeaponsOnce'
      BY <2>1, <2>2 DEF WeaponsOnce, Attacking
    <2> QED  BY <2>3, <2>4
  <1> QED  BY <1>10, <1>12, <1>13, <1>15, <1>16, <1>17, <1>18, <1>19

(* The steps of the game thread that change none of the globals. *)
LEMMA AssignActiveKeepsIInv ==
  ASSUME IInv, AssignActive \/ UpdateWithoutReplica
  PROVE  IInv'
  <1> USE DEF IInv, AssignActive, UpdateWithoutReplica, gameVars, globalVars,
              clientVars, history
  <1>1. TypeOK'
    BY DEF TypeOK
  <1>2. Forgotten' /\ Older' /\ Current'
    BY DEF Forgotten, Untimely, MadeLeaving, Older, Current
  <1>3. Loaded'
    BY DEF Loaded, Untimely, MadeLeaving, HasLocal
  <1>4. ReplicaLikeLocal' /\ OneReplicaPerMap'
    BY DEF ReplicaLikeLocal, OneReplicaPerMap
  <1>5. Position' /\ TornOnlyIfOverlapped' /\ Known' /\ SafeUnlessRaced'
    BY DEF Position, TornOnlyIfOverlapped, Known, SafeUnlessRaced
  <1>6. Armed' /\ WeaponsOnce'
    BY DEF Armed, WeaponsOnce, HeldReplica, Completing
  <1> QED  BY <1>1, <1>2, <1>3, <1>4, <1>5, <1>6

LEMMA CopyArsenalKeepsIInv ==
  ASSUME IInv, ClearArsenal \/ FixUpReplica
  PROVE  IInv'
  <1> USE DEF IInv, ClearArsenal, FixUpReplica, gameVars, globalVars, clientVars,
              history
  <1>1. TypeOK'
    <2>1. arsenal' \in [Weapons -> Nat]
      BY DEF TypeOK, NoWeapons, Weapons
    <2>2. gpc' \in {"game", "move", "measure", "near", "send"} \union Completing
      BY DEF Completing
    <2> QED  BY <2>1, <2>2 DEF TypeOK
  <1>2. Forgotten' /\ Loaded' /\ Older' /\ Current'
    BY DEF Forgotten, Untimely, MadeLeaving, Loaded, Older, Current, HasLocal
  <1>3. ReplicaLikeLocal' /\ OneReplicaPerMap'
    BY DEF ReplicaLikeLocal, OneReplicaPerMap
  <1>4. Position' /\ TornOnlyIfOverlapped' /\ Known' /\ SafeUnlessRaced'
    BY DEF Position, TornOnlyIfOverlapped, Known, SafeUnlessRaced
  <1>5. Armed' /\ WeaponsOnce'
    BY DEF TypeOK, Armed, WeaponsOnce, HeldReplica, Attacking, Completing, NoWeapons,
           Weapons
  <1> QED  BY <1>1, <1>2, <1>3, <1>4, <1>5

MoveStep == \/ TestMove \/ (\E h \in Halves : ReadHalf(h))
            \/ JudgeDistance \/ EndMove

LEMMA MoveStepKeepsIInv ==
  ASSUME IInv, MoveStep
  PROVE  IInv'
  <1> USE DEF IInv, gameVars, globalVars, clientVars
  <1>0. /\ UNCHANGED <<gameVars, globalVars, arsenal, clientVars, raced, overlapped>>
        /\ gpc \notin Completing /\ gpc' \notin Completing
        /\ gpc' \in {"game", "move", "measure", "near", "send"}
    BY DEF MoveStep, TestMove, ReadHalf, JudgeDistance, EndMove, Completing, TypeOK
  <1> DEFINE Points == /\ DOMAIN point \subseteq Halves /\ mixed \in BOOLEAN
                       /\ \A h \in DOMAIN point : point[h] \in 0..MaxPackets
                       /\ Position /\ TornOnlyIfOverlapped
  <1>1. Points'
    <2>1. CASE TestMove
      BY <2>1 DEF TestMove, TypeOK, Position, TornOnlyIfOverlapped
    <2>2. ASSUME NEW h \in Halves, ReadHalf(h)
          PROVE  Points'
      <3> USE <2>2 DEF ReadHalf
      <3>1. /\ DOMAIN point' = DOMAIN point \union {h}
            /\ point'[h] = move_pos[h]
            /\ \A i \in DOMAIN point : point'[i] = point[i] /\ i # h
        OBVIOUS
      <3>2. /\ DOMAIN point' \subseteq Halves /\ mixed' \in BOOLEAN
            /\ \A i \in DOMAIN point' : point'[i] \in 0..MaxPackets
        BY <3>1 DEF TypeOK
      <3>3. CASE DOMAIN point = {}
        <4>1. DOMAIN point' = {h} /\ h \in {"x", "y"}
          BY <3>1, <3>3 DEF Halves
        <4>2. DOMAIN point' # Halves
          BY <4>1 DEF Halves
        <4> QED
          BY <3>1, <3>2, <3>3, <4>1, <4>2 DEF Position, TornOnlyIfOverlapped
      <3>4. CASE DOMAIN point # {}
        <4>1. PICK i \in DOMAIN point : DOMAIN point' = {i, h}
          BY <3>1, <3>4 DEF TypeOK, Halves
        <4>2. Halves = {i, h}
          BY <4>1, <3>1 DEF TypeOK, Halves
        <4>3. mixed' = mixed /\ DOMAIN point # Halves /\ DOMAIN point' = Halves
          BY <3>1, <3>4, <4>1, <4>2 DEF Halves
        <4>4. ~mixed => point[i] = move_pos[i] /\ move_pos["x"] = move_pos["y"]
          BY <4>3 DEF Position
        <4>5. ~mixed => point'["x"] = point'["y"]
          BY <3>1, <4>1, <4>2, <4>4 DEF Halves
        <4>6. Position'
          BY <4>3 DEF Position
        <4>7. TornOnlyIfOverlapped'
          BY <4>3, <4>5 DEF TornOnlyIfOverlapped
        <4> QED  BY <3>2, <4>6, <4>7
      <3> QED  BY <3>3, <3>4
    <2>3. CASE JudgeDistance \/ EndMove
      <3>1. DOMAIN Unread = {} /\ Halves # {}
        BY DEF Unread, Halves
      <3> QED
        BY <2>3, <3>1 DEF JudgeDistance, EndMove, TypeOK, Position, TornOnlyIfOverlapped
    <2> QED  BY <2>1, <2>2, <2>3 DEF MoveStep
  <1>2. /\ uses' \subseteq [met : {"null", "freed", "unit"}, raced : BOOLEAN,
                            leaving : BOOLEAN]
        /\ SafeUnlessRaced'
    <2>1. CASE TestMove /\ MoveWanted
      <3>1. Meets(replicated_unit) \in {"null", "freed", "unit"}
        BY DEF Meets
      <3>2. Meets(replicated_unit) = "unit" \/ MadeLeaving(replicated_unit)
        BY <2>1, UnitTypes DEF MoveWanted, Meets, MadeLeaving, Current, Older, TypeOK
      <3>3. MadeLeaving(replicated_unit) \in BOOLEAN
        BY UnitTypes DEF MadeLeaving
      <3> DEFINE use == [met |-> Meets(replicated_unit), raced |-> FALSE,
                         leaving |-> MadeLeaving(replicated_unit)]
      <3>4. uses' = uses \union {use}
        BY <2>1 DEF TestMove, Use
      <3>5. /\ use \in [met : {"null", "freed", "unit"}, raced : BOOLEAN,
                        leaving : BOOLEAN]
            /\ use.met # "unit" => use.leaving
        BY <3>1, <3>2, <3>3
      <3> HIDE DEF use
      <3> QED  BY <3>4, <3>5 DEF TypeOK, SafeUnlessRaced
    <2>2. CASE UNCHANGED uses
      BY <2>2 DEF TypeOK, SafeUnlessRaced
    <2> QED  BY <2>1, <2>2 DEF MoveStep, TestMove, ReadHalf, JudgeDistance, EndMove
  <1>3. TypeOK'
    BY <1>0, <1>1, <1>2 DEF TypeOK
  <1>4. Forgotten' /\ Loaded' /\ Older' /\ Current'
    BY <1>0 DEF Forgotten, Untimely, MadeLeaving, Loaded, Older, Current, HasLocal
  <1>5. ReplicaLikeLocal' /\ OneReplicaPerMap' /\ Known'
    BY <1>0 DEF ReplicaLikeLocal, OneReplicaPerMap, Known
  <1>6. Armed' /\ WeaponsOnce'
    BY <1>0 DEF Armed, WeaponsOnce, HeldReplica
  <1> QED  BY <1>1, <1>2, <1>3, <1>4, <1>5, <1>6

-----------------------------------------------------------------------------
(* The client thread.                                                          *)

LEMMA CallbackKeepsIInv ==
  ASSUME IInv, ClientThread
  PROVE  IInv'
  <1> USE DEF IInv, ClientThread, CheckMove, CheckAttack, SetMoving, SetMoveX,
              SetMoveY, SetHalf, GetUnit, FindWeapon, AddWeapon, FireWeapon, Begin,
              Continue, Use
  <1>1. TypeOK'
    <2>1. \A u : /\ Meets(u) \in {"null", "freed", "unit"}
                /\ MadeLeaving(u) \in BOOLEAN
      BY DEF Meets, MadeLeaving, TypeOK
    <2>2. uses' \subseteq [met : {"null", "freed", "unit"}, raced : BOOLEAN,
                          leaving : BOOLEAN]
      BY <2>1 DEF TypeOK
    <2>3. packet' \in 0..MaxPackets /\ move_pos' \in [Halves -> 0..MaxPackets]
      BY BoundsAssumption DEF TypeOK, Halves
    <2>4. cpc' \in {"idle", "moveSet", "moveX", "moveY"} \union Attacking
      BY DEF TypeOK, Attacking
    <2>5. /\ held' \in {NoUnit} \union DOMAIN units /\ weapon' \in Weapons
          /\ raced' \in BOOLEAN /\ overlapped' \in BOOLEAN /\ mixed' \in BOOLEAN
      BY DEF TypeOK
    <2>6. arsenal' \in [Weapons -> Nat]
      BY DEF TypeOK
    <2>7. point' = point
      OBVIOUS
    <2> QED  BY <2>2, <2>3, <2>4, <2>5, <2>6, <2>7 DEF TypeOK, gameVars, globalVars
  <1>2. Forgotten' /\ Loaded' /\ Older' /\ Current'
    BY DEF Forgotten, Untimely, MadeLeaving, Loaded, Older, Current, HasLocal, gameVars,
           globalVars
  <1>3. ReplicaLikeLocal' /\ OneReplicaPerMap'
    BY DEF ReplicaLikeLocal, OneReplicaPerMap, gameVars, globalVars
  <1>4. Position' /\ TornOnlyIfOverlapped'
    BY BoundsAssumption DEF TypeOK, Position, TornOnlyIfOverlapped, Halves
  <1>5. Known'
    BY DEF TypeOK, Known, Attacking, globalVars
  <1>6. SafeUnlessRaced'
    <2>1. ~raced /\ cpc = "moveSet"
              => Meets(replicated_unit) = "unit" \/ MadeLeaving(replicated_unit)
      BY UnitTypes DEF Known, Current, Older, Meets, MadeLeaving, TypeOK
    <2>2. ~raced /\ cpc \in {"attackFind", "attackAdd", "attackUse"}
              => Meets(held) = "unit" \/ MadeLeaving(held)
      BY UnitTypes DEF Known, Current, Older, Meets, MadeLeaving, TypeOK, Attacking
    <2> QED  BY <2>1, <2>2 DEF SafeUnlessRaced, TypeOK
  <1>7. Armed'
    <2>1. ~overlapped' => ~overlapped
      BY DEF TypeOK
    <2>2. ~overlapped' /\ gpc' \in Completing => cpc' \notin Attacking
      BY <2>1 DEF Armed, Attacking
    <2>3. ~overlapped' /\ gpc' \in Completing => arsenal' = NoWeapons
      BY <2>1 DEF Armed, Attacking
    <2>4. ~overlapped' /\ cpc' = "attackAdd" /\ HeldReplica' => arsenal'[weapon'] = 0
      BY <2>1 DEF TypeOK, Armed, HeldReplica, Attacking, gameVars, globalVars
    <2> QED  BY <2>2, <2>3, <2>4 DEF Armed
  <1>8. WeaponsOnce'
    BY DEF TypeOK, Armed, WeaponsOnce, HeldReplica, Attacking, gameVars, globalVars
  <1> QED  BY <1>1, <1>2, <1>3, <1>4, <1>5, <1>6, <1>7, <1>8

-----------------------------------------------------------------------------
(* The theorems.                                                               *)

LEMMA InitIInv == Init => IInv
  <1> SUFFICES ASSUME Init PROVE IInv
    OBVIOUS
  <1> USE BoundsAssumption DEF Init, NoUnit, NoTemplate
  <1>1. units \in Seq(PlayerUnits) /\ DOMAIN units = {} /\ DOMAIN point = {}
    BY DEF Unread
  <1>2. TypeOK
    <2>1. /\ map \in 0..MaxLoads /\ template \in 0..MaxLoads
          /\ packet \in 0..MaxPackets
      OBVIOUS
    <2>2. move_pos \in [Halves -> 0..MaxPackets]
      BY DEF Whole
    <2>3. destroyed \subseteq DOMAIN units /\ DOMAIN point \subseteq Halves
      BY <1>1
    <2>4. arsenal \in [Weapons -> Nat] /\ weapon \in Weapons
      BY DEF NoWeapons, Weapons
    <2>5. \A h \in DOMAIN point : point[h] \in 0..MaxPackets
      BY <1>1
    <2> QED  BY <1>1, <2>1, <2>2, <2>3, <2>4, <2>5, Zenon DEF TypeOK
  <1>3. Forgotten /\ Loaded /\ Older /\ Current
    BY <1>1 DEF Forgotten, Loaded, Older, Current, HasLocal
  <1>4. ReplicaLikeLocal /\ OneReplicaPerMap
    BY <1>1 DEF ReplicaLikeLocal, OneReplicaPerMap
  <1>5. Position /\ TornOnlyIfOverlapped
    BY <1>1 DEF Position, TornOnlyIfOverlapped, Whole, Halves
  <1>6. Known /\ SafeUnlessRaced
    BY DEF Known, SafeUnlessRaced, Attacking
  <1>7. Armed /\ WeaponsOnce
    BY DEF Armed, WeaponsOnce, HeldReplica, Completing, NoWeapons, Weapons
  <1> QED  BY <1>2, <1>3, <1>4, <1>5, <1>6, <1>7 DEF IInv

LEMMA StutterKeepsIInv == ASSUME IInv, UNCHANGED vars PROVE IInv'
  <1> USE DEF IInv, vars, gameVars, globalVars, clientVars, history
  <1>1. TypeOK' /\ Forgotten' /\ Loaded' /\ Older' /\ Current'
    BY DEF TypeOK, Forgotten, Untimely, MadeLeaving, Loaded, HasLocal, Older, Current
  <1>2. /\ ReplicaLikeLocal' /\ OneReplicaPerMap' /\ Position'
        /\ TornOnlyIfOverlapped'
    BY DEF ReplicaLikeLocal, OneReplicaPerMap, Position, TornOnlyIfOverlapped
  <1>3. Known' /\ SafeUnlessRaced' /\ Armed' /\ WeaponsOnce'
    BY DEF Known, SafeUnlessRaced, Armed, WeaponsOnce, HeldReplica
  <1> QED  BY <1>1, <1>2, <1>3

(* Every behaviour keeps the invariant. *)
THEOREM Invariant == Spec => []IInv
  <1>1. IInv /\ [Next]_vars => IInv'
    <2> SUFFICES ASSUME IInv, [Next]_vars PROVE IInv'
      OBVIOUS
    <2>1. CASE LoadNextMap
      BY <2>1, LoadNextMapKeepsIInv
    <2>2. CASE EnterMap
      BY <2>2, EnterMapKeepsIInv
    <2>3. CASE CreateLocal
      BY <2>3, CreateLocalKeepsIInv
    <2>4. CASE CreateReplica
      BY <2>4, CreateReplicaKeepsIInv
    <2>5. CASE \/ AssignActive \/ UpdateWithoutReplica \/ ClearArsenal
               \/ FixUpReplica \/ MoveStep
      BY <2>5, AssignActiveKeepsIInv, CopyArsenalKeepsIInv, MoveStepKeepsIInv
    <2>6. CASE ClientThread
      BY <2>6, CallbackKeepsIInv
    <2>7. CASE UNCHANGED vars
      BY <2>7, StutterKeepsIInv
    <2> QED  BY <2>1, <2>2, <2>3, <2>4, <2>5, <2>6, <2>7 DEF Next, GameThread, OnUpdate, MoveStep
  <1> QED  BY <1>1, InitIInv, PTL DEF Spec

(* The state is of its type. *)
THEOREM TypeCorrect == Spec => []TypeOK
  BY Invariant, PTL DEF IInv

(* replicated_unit is the living replica of the map being played, or one that  *)
(* on_update created between a load's hook and the end of the map being left.  *)
THEOREM ReplicaNeverDangles == Spec => []ReplicaValid
  <1>1. IInv => ReplicaValid
    BY UnitTypes DEF IInv, TypeOK, Current, Older, ReplicaValid
  <1> QED  BY <1>1, Invariant, PTL

(* The hook takes on_update's call for the local player's in that case only. *)
THEOREM OriginalNeverReplica == Spec => []OriginalIsLocal
  <1>1. IInv => OriginalIsLocal
    BY UnitTypes DEF IInv, TypeOK, Current, Older, OriginalIsLocal
  <1> QED  BY <1>1, Invariant, PTL

(* A replica created in a map that is played is made with that map's data. *)
THEOREM ReplicaOfItsMap == Spec => []ReplicaLikeLocal
  BY Invariant, PTL DEF IInv

(* on_update creates one replica in a map that is played, and one in it while  *)
(* it is left, however the callbacks and the loads come between.               *)
THEOREM ReplicaOnce == Spec => []OneReplicaPerMap
  BY Invariant, PTL DEF IInv

(* A null or destroyed unit is met only across a load, or in place of a unit   *)
(* created while its map was being left.                                       *)
THEOREM UnsafeNeedsLoad == Spec => []SafeUnlessRaced
  BY Invariant, PTL DEF IInv

(* on_update sees a torn position only if OnMovementUpdate assigned meanwhile. *)
THEOREM TornPointsExplained == Spec => []TornOnlyIfOverlapped
  BY Invariant, PTL DEF IInv

(* The replica's weapons are there once, unless an attack overlapped the       *)
(* completion of the replica.                                                  *)
THEOREM ArsenalWhole == Spec => []WeaponsOnce
  BY Invariant, PTL DEF IInv
=============================================================================
