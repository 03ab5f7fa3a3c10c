# HadesMP in TLA+

HadesMP is a DLL that a player injects into the game *Hades*. In every game
process it starts a server and a client, connects the client to the one server
that got the port, and makes the second player appear as a *replicated unit*
that walks, attacks and meets enemies as the other process tells it. It also
draws the names of units over the game's frames.

This directory specifies that program: TLA+ modules translated from the code,
TLC configurations that check them on small instances, and proofs of the main
safety properties for all instances. Paths below are relative to `src/`; `core`
stands for `HadesMP/Core`.

1. [The system](#1-the-system)
2. [The modules](#2-the-modules)
3. [What is checked](#3-what-is-checked)
4. [Fairness](#4-fairness)
5. [What is proved](#5-what-is-proved)
6. [Disagreements found](#6-disagreements-found)
7. [What is not modelled](#7-what-is-not-modelled)
8. [Plan](#8-plan)

## 1. The system

### Threads

Each game process has these threads, which share their state mostly without locks:

| thread | code | does |
|---|---|---|
| loading | `DllMain` (`main.cpp`), `core::initialize` | puts the hooks on a game that may be running already, under the loader lock |
| game | hooks in `core/Hooks/hooks.h`, `on_update` in `core/core.h` | plays; creates units; calls `client.Send` |
| client | `Client::Thread` (`core/Network/client.h`) | flushes `Client::queue`, handles the client's events: all callbacks of `core.h` run here |
| client's worker | `run_in_thread` of `3rdparty/enetpp/include/client.h` | owns the client's ENet host |
| server | `Server::Thread` (`core/Network/server.h`) | flushes `Server::queue`, relays what it receives |
| server's worker | `run_in_thread` of `3rdparty/enetpp/include/server.h` | owns the server's ENet host |
| Present | the callback in `core.h`, `core/Renderer/renderer.h` | records and draws the overlay |

### Components

**Start-up.** State: the code of the hooked functions, `original_...`,
`on_present`, `on_update`, `client.callbacks`, the swap chain's function table,
the threads. Operations: the initialisers of `Engine/addresses.h`, `DllMain`,
`hooks::initialize`, `core::initialize`, the two `call_once` blocks,
`directx::initialize`, `proxy_thread`. Hard: functions and tables that other
threads are using are patched; `on_update` is set before the callbacks it leads
to; only the loader lock orders the new threads. Correct means: no hook is
reached before it knows the function it replaces, the client thread finds all
callbacks, and the threads do start.

**Client send path.** State: `Client::queue` (a PPL `concurrent_vector` of
strings), enetpp's `_packet_queue`. Operations: `Send` (game thread),
a pass of `Invoke` (client thread), `send_queued_packets_in_thread` (worker).
Hard: `queue.clear()` is not safe against `push_back`. Correct means: no packet
twice; none lost and none out of order unless its push overlapped a pass.

**Relay server.** State: the ENet host's peers and dispatch queue, `peer->data`,
`_thread_peer_map`, the event queue and its copy, `_connected_clients`,
`Server::queue`, `_packet_queue`, `network::is_host`. Operations: the worker's
send, service and dispatch; the server thread's flush, `consume_events` and its
three callbacks. Hard: client objects are created by one thread and deleted by
another while events point to them; peer slots are used again; packets are
queued under uids of clients that may leave. Correct means: no use after free,
enetpp's assertions hold, packets reach the others in their sender's order.

**Session.** State per process: whether it lives, how far its threads have come,
whether its server has the port, where its client is connected, `is_host`.
Hard: every process races for port 27017; the losers' servers die silently; a
lost connection ends the process (`std::terminate`), but a client that could not
create its host or peer loops for ever without one. Correct means: at most one
host; whoever starts joins or ends, or is such a client; clients end with their
host.

**Replicated unit.** State: the globals `replicated_unit`, `original_unit`,
`new_unit_data`, `new_map_thing`, `spawn_location`, `move_pos` and
`has_loaded_player`, and the replica's arsenal. Operations:
`hook_create_player_unit`, `hook_load_next_map`, `on_update` with `CopyArsenal`
(game thread), `OnMovementUpdate` and `OnAttack` (client thread). Hard: the same
hook sees the local player's creation and `on_update`'s own; the callbacks test a
global and read it again while the game thread resets it; `OnAttack` searches and
extends an arsenal that `on_update` may be filling; `on_update` may run between
the hook that forgets a map's units and the end of that map. Correct means: the
replica is a living unit of the map being played, one per map, made from that
map's data, and each exception is one of that last kind; no weapon is twice in its
arsenal; a position received whole is looked at.

**Enemy and attack replication.** State: `is_host`, `do_active_presentation`
as the mark of a remote call, the units of a map. Operations:
`hook_create_enemy_unit`, `hook_request_fire`, `OnAddEnemy`, `OnAttack`. Hard:
remote events run the very hooks that send events; `is_host` may change during a
call. Correct means: nothing echoes, nothing is created twice, and what stays in
a map is what the host announced.

**Signature scanner.** `HexToBytes`, `SigScan`, `GetCallAddress` and
`GetInstanceAddress` in `HadesMP/Utilities/memory.h`, used by
`HadesMP/Engine/addresses.h`. Hard: string terminators and wildcards inside
byte patterns, the end of the image. Correct means: what is found is the first
match, and what is reported missing is not there.

**Overlay renderer.** State: the Direct3D objects, the fonts' textures, the
callback's local `geometry`, `g_geometry`, `g_vb`, `g_ib` and their sizes, the
pipeline of the game, which it changes. Operations: `renderer_setup`,
`renderer_recreate`, `font::create`, the drawing functions of `geometry`,
`render`, `renderer_draw`. Hard: the index arithmetic of polylines, fans and
texts; early returns that leave geometry or half of the objects behind; buffers
that grow; the placing of 95 characters in a texture. Correct means: a drawn frame
shows exactly what was recorded, copies stay inside the buffers, and characters do
not touch.

**Others.** Packets (records with MSGPACK lists), player input replication
(unreachable), the engine's class layouts, and the vendored libraries ENet,
enetpp, msgpack, boost and MinHook. enetpp's client and server are modelled
because their threads are the program's concurrency; of ENet only what enetpp
sees.

### How they interact

    game thread --Send--> Client::queue --Invoke--> enetpp client --ENet--+
                                                                          |
    client thread <--events-- enetpp client <--ENet-- Relay (one process) <+
        |                                                |
        v callbacks                                      v on_connected
    replicated_unit, move_pos, enemies               network::is_host
        ^                                                |
        +------------- game thread (hooks, on_update) <--+

## 2. The modules

| module | models | composed with |
|---|---|---|
| `AtMostOnce` | the abstract channel: accepted messages, an ever longer delivered sequence without repetition | implemented by `SendQueue` |
| `SendQueue` | client send path | `INSTANCE AtMostOnce` |
| `Relay` | relay server | abstracted, with `SendQueue`, to inboxes in `GameSync` |
| `Session` | start, port, connection and end of several processes | `OneHost` justifies the constant `Server` of `GameSync` |
| `Replica` | the replicated unit of one process | abstracted to the set `replica` in `GameSync` |
| `GameSync` | enemies and attacks across processes | over `SendQueue`, `Relay`, `Session` and `Replica`, as said in their rows |
| `SigScan` | signature scanner | |
| `Geometry` | the drawing lists as pure operators | extended by `Overlay` |
| `Font` | a font's texture: `font::create` and `paint_alphabet` as pure operators | extended by `Overlay` |
| `Overlay` | Present callback, set-up and `renderer_draw` | |
| `Startup` | from the loading of the DLL to the running threads | where it ends, `Session` and `Overlay` begin |
| `*MC` | instances: symmetry sets, small inputs | |
| `*Proofs` | theorems, for `SendQueue`, `Relay`, `Session`, `Replica`, `GameSync`, `SigScan`, `Startup`, `Overlay` (with `Font` and `Geometry`) | |

Each module has a short section (or lines marked) *mistakes this code could
have*: wrong versions of an action or operator, kept because each property must
notice at least one of them. `Next` never uses them.

### SendQueue

`push_back` is two steps, `Reserve` (the size grows) and `Construct` (the string
is copied into the slot); a pass is `BeginPass` (reads `end()`), `ScanSlot` for
each slot, `EndScan`, `ClearSize` and `DestroySlots` (the two halves of
`clear()`). This is what PPL's implementation does in that order; a concurrent
`clear()` is outside its contract, and the model takes a slot beyond the size to
keep what was constructed in it, which is the behaviour the memory layout gives
(segments are not released by `clear()`). `SendQueued` is enetpp's worker, and
`ConsumeDisconnect` the end of the process. `worker = "failed"` is a worker that
could not create its host or peer: it returns without an event, and the client
thread loops for ever.
History variable: `overlapped`, the messages whose push overlapped a pass.

### Relay

The worker's turn is `SendQueuedPackets`, then network steps until `EndService`,
then one dispatch per peer event until `EndDispatch`. The server thread's turn is
`FlushNext` for each packet in `Server::queue` (`send_packet_to` takes the lock once
per packet) and `EndFlush`, then `CopyEvents`, one `Handle...` per event,
`ConsumeDone`. The packets in `Malformed` are those that do not unpack, which
`Consume` catches and gives to nobody (`Recipients`). Client objects
go by their uid: `alive` are those allocated and not deleted. `events` is the
event queue's copy followed by the queue, `copied` the length of the first part,
so one sequence holds all events in order. `Server::queue` and `_packet_queue` are
in the code one sequence of (uid, packet) entries each; the model keeps one
sequence of packets per uid, because ENet and the recipients can tell apart only
the order of one client's entries. Mutex-protected sections are atomic; so is the unlocked `empty()`
test before them (a torn read would at most delay the section by a turn).

### Session

One action per step of a thread of a process. `CheckInitialized` and
`...Initialized` are the two halves of `enetpp::global_state::initialize()`.
`CreateHost` is `enet_host_create`, which fails if the port is taken.
`CreatePeer` is the client worker's `enet_host_create` and `enet_host_connect`; when
one returns nothing the worker ends without an event (`link = "failed"`), as
`worker = "failed"` in `SendQueue`. `LinkTimeout` is ENet giving up, on a connection
that is not answered or whose server process is dead. `OnConnected` sets `is_host`.

### Replica

Units go by the order of their creation; each is recorded with its map, its
creator, the map whose data it was made from, and whether its map was then being
left. `CreatePlayerUnit` is the hook, called from `CreateLocal` (the game) and
`CreateReplica` (`on_update`, which publishes `replicated_unit`); `ClearArsenal` and
`FixUpReplica` are `CopyArsenal`'s emptying and refilling. The end of `on_update` is
`TestMove` (is there a position?), `ReadHalf` twice (the copy whose distance is
measured), `JudgeDistance` (is the replica more than 25 away? that is the game's to
say), again `ReadHalf` twice (`MoveInput` gets the address of `move_pos` and reads it
anew) and `EndMove`. The callbacks are split at every access of a shared global:
`CheckMove`, `SetMoving`, `SetMoveX`, `SetMoveY`; `CheckAttack`, `GetUnit`,
`FindWeapon`, `AddWeapon`, `FireWeapon`. The halves of `point` are read in either
order, as the compiler may choose; `TestMove` reads `move_pos` at one moment, which
is the same as reading it in two, because it leaves (0, 0) once and for all and x is
written first. (Here a position is the packet it came with.) Weapons are told apart by whether the local player has them.
History variables: `raced` (a load has begun since the callback's check),
`overlapped` (an `OnAttack` ran while the replica was being completed), `mixed` (the
halves of `move_pos` were being assigned while they were read), `uses`.

The repository does not say whether the game's `LoadNextMap` returns before the old
map's units are gone. The model lets it: `LoadNextMap` is the hook, `EnterMap` the
end of the old map, and `on_update` may come in between. The local player's unit
and its data are then still there, so that a replica may be created in the map
that is being left, and the hook, which has just forgotten everything, takes that
call for the local player's. Nothing forgets this unit when its map ends. The
properties say how far this goes: `ReplicaValid`, `OriginalIsLocal`, `SafeUnlessRaced`
and `OneReplicaPerMap` except units with `leaving` set and nothing else, and
`ReplicaLikeLocal` holds in the next map all the same. If the game leaves the map
within `LoadNextMap`, no unit has `leaving` set and the properties hold without the
exception.

### GameSync

Enemies and attacks go by the process whose game made them and a number. `hook`
is, for each thread of each process, where a call of `hook_create_enemy_unit`
is: `SpawnEnemy` or `OnAddEnemy` begin it with the value of `is_host` they
read, `CreateEnemyUnit` is the original function, `EndCreateEnemy` announces or
deletes. The process `Server` is the only one whose `is_host` can be set
(`OneHost`). `SendQueue` may lose packets and change their order, and `Relay` keeps
order but loses what is for those who leave; so `Send` puts a packet into the
inboxes of any of the other processes, each at most once (`NoDuplicate`,
`OnlyOthersSinceJoining`), and a joined process handles any packet of its inbox,
whenever it does. `Send` by a process that has not joined loses the packet, as
`enet_peer_send` fails on an unconnected peer. `sent` is what was handed to
`client.Send`, lost or not.

### SigScan

`base` and `k` are the two pointers of `SigScan`'s loops; each comparison is a
step. `HexToBytes(n)` is the n-th character of the converted string, which is
`?` for a wildcard and NUL at the end. `Retry`, `MessageBoxA` and `ReadNull` are
what the callers do about a missing pattern.

### Geometry and Overlay

A shape is a number of vertices, a number of reserved indices and the indices
written, relative to its first vertex. The module has every operation of `geometry`
that the overlay's callers could record, more than they do record now: it is
`geometry`'s interface that is modelled. (In `Text`, DEL is not a letter: `draw_text`
does not count it when it reserves, `core/Renderer/renderer.h:1254`, but would write
its quad, line 1300. No caller's text has one.) `Put` is the effect of a drawing operation
on a geometry: what it reserves and what it writes, at the width of `index`. A
vertex is named by its shape and place, so that coordinates are not needed to
say whether the right corners are drawn. `Overlay` adds the callback's set-up
(`Setup` and `CreateFonts`, in its `call_once`), its recording, and
`renderer_draw` step by step, each Direct3D call that may fail with its two
outcomes. `held` are the objects that exist, `tex_` each font's texture:
`Recreate` chooses which creations fail, and leaves out those behind an early
return. Where the code goes on with what it did not get, the process crashes,
which is a state of its own (`Crashed`). The game's pipeline, which `renderer_draw`
backs up and sets again in one straight line of calls, is left out.
History variable: `asked`, every corner recorded since the last frame drawn in
full.

### Font

`PaintAlphabet(face, size)` places the 95 characters of a face, given by what
GDI measures, in a texture of that size, and says whether they fit;
`Atlas(face)` is what `font::create` makes of it. The sizes are integers, as
GDI's are; the spacing is the code's `ceil(0.3 * height)`. `Size` are the sizes
tried, 64 to 16384. The faces are those of `Measured`: up to 85 pixels high, more
than four times what 14 points are on an ordinary screen, and no character more
than 1.4 times as wide as high. For all of these some size fits (this is proved, and
`Atlas` takes the first), so that the code's scaling of larger ones is left out.

### Startup

`injected` says which of the two ways `README.md` names has brought the DLL in: a
thread of its own, or the game's loading of `XInput1_4.dll`, which stops the
game's thread until `DllMain` returns. `ResolveAddresses` is what the
initialisers of globals do before (`SigScan` has the search itself); `missing`
are the two hooked functions whose pattern may not be found without an immediate
crash. Each hook is put on in two or three steps: `SetOriginal`, then, for
`App::Update`, `TearCode` (the jump is copied byte by byte) and `PatchCode`; the
other hooks are MinHook's, which stops all other threads. `CallHooked` is the
game calling a hooked function, with `CopyTable`, `KeepPresent`, `HookPresent`
and `CreateProxyThread` for the first `on_update`. `BeginThread` needs the loader
lock, as every new thread does and as `OnPresent` does, which loads the shader
compiler. `crash` is `missing` (a null address is read through), `torn`
(half-written code is executed) or `null` (a hook calls an original that is not
set).

## 3. What is checked

All runs take about three minutes or less with two workers. Deadlock is checked in
all of them.

| run | cfg | distinct states | properties |
|---|---|---|---|
| `send_queue` | `SendQueue` | 106,929 | NoDuplicate, LostOnlyIfOverlapped, OrderedUnlessOverlapped, EventuallySent, ImplementsChannel |
| `relay` | `Relay` | 1,431,184 | NoUseAfterFree, AssertionsHold, NoPacketDiscarded, OnlyOthersSinceJoining, SenderOrderKept, DroppedOnlyForDeparted |
| `relay_live` | `RelayLive` | 367,448 | EventuallyRelayed |
| `session` | `Session` | 26,840 | OneHost, LosersNeverHost, Joins, HolderBecomesHost, EndsWithItsHost |
| `session_init` | `SessionInit` | (violation) | InitializedOnce |
| `replica` | `Replica` | 395,840 | ReplicaValid, OriginalIsLocal, ReplicaLikeLocal, OneReplicaPerMap, SafeUnlessRaced, TornOnlyIfOverlapped, WeaponsOnce, ReplicaAppears, PositionFollowed |
| `game_sync` | `GameSync` | 363,125 | NoEcho, OneCopy, OnlyAnnouncedEnemies, EnemyAppears |
| `game_sync_await` | `GameSyncAwait` | (violation) | AwaitedEnemyAppears |
| `sig_scan` | `SigScan` | 119,666 | InsideImage, FoundMatches, MissingIsMissing |
| `sig_scan_nul` | `SigScanNul` | (violation) | FoundMatches |
| `startup` | `Startup` | 2,128 | HooksSafe, CallbacksComplete, Starts |
| `overlay` | `Overlay` | 648,845 | BuffersLargeEnough, CellsApart, DrawnAsAsked |

The `TypeOK` of every module with proofs is proved and not checked by a run again
(that of the overlay is stated in `OverlayProofs`); so is `SigScan`'s
`NothingBefore`.

### What the runs show, and why their bounds are enough

* `send_queue`, `MaxSends = 4`. The game thread can be one push ahead of the
  client thread in each of three overlaps (with the scan, between the two
  halves of `clear()`, after them), and a fourth message is needed to be
  overtaken. A lost and an overtaken message need two; three show every
  overlap in one pass; four leave a settled message before and after.
  *Shown*: loss and reordering happen, but only to messages that overlapped a
  pass, no message is ever duplicated, and the whole path is an at-most-once
  channel.
* `relay`, 3 peers, 3 clients in total, 2 packets, symmetric in the peers. Three
  clients are a sender, a recipient that stays and one that leaves or comes late;
  a late one may get the slot of one that has left. Two packets show order. Every
  packet unpacks: one that does not only disappears, which `relay_live` has.
  *Shown*: deleting a client object in the server thread is safe, because its
  DISCONNECT event is the last that refers to it and follows the worker's
  forgetting it; the assertions hold; a queued packet never reaches a
  successor in the slot; per-sender order holds; packets thrown away were for
  clients that are gone.
* `relay_live`, 2 peers, 3 clients, 2 packets, the first of which does not unpack.
  Relaying to one recipient is independent of others; a third client re-uses a
  slot. *Shown*: what unpacks is relayed, also behind a packet that is dropped.
* `session`, 2 processes: each may be first, second or alone, and the second may
  bind the port after the first has ended. *Shown*: never two living hosts;
  whoever starts joins or ends, unless its client's worker ended without an event,
  in which case it plays on alone. (`OneHost` and `LosersNeverHost` are proved for
  any number of processes.)
* `replica`, `MaxLoads = 3`, `MaxPackets = 2`. A callback can span two loads;
  a third shows a replica after them, also after one created in a map being left.
  The position of one packet can be torn by the next, and an attack of one packet
  leave a weapon that the next finds. *Shown*: the unit the globals name is alive
  and the right one, unless it was created in a map already being left; a callback
  or `on_update` uses a dead or null unit only then or if a load began after the
  callback's test; `on_update` may measure the way to, or send the replica to, a
  point that nobody sent, but only if an `OnMovementUpdate` overlapped its reading;
  a position that was received whole is read whole in the end (to be followed, or to
  be found within 25 units of the replica), also one that survives a map in
  `move_pos`; a weapon is twice in the arsenal, or missing when it is to fire, only
  if an `OnAttack` overlapped the completion of the replica or a load.
* `game_sync`, 2 processes, 2 enemies each, 1 attack each. The hazards are
  between one process and another (echo, double creation, `is_host` changing
  during a call); two enemies show that one announced does not stand for
  another, and that nothing depends on the order or the arrival of packets. A third
  process would only be a second recipient. `EnemyAppears` is about a packet that
  has arrived.
* `sig_scan`: all images up to 5 bytes over {1, 3F, C8} and all patterns up to 3
  over {1, C8, wildcard} that begin with a byte. Three bytes let a pattern
  overlap itself and a failed comparison run past the next match. *Shown*:
  what is found is the first match. `MissingIsMissing` is stated with the
  code's `base < end`, which leaves out the last place.
* `startup`: one process, started in either way, each of the two patterns that
  `SigScan` may not find missing or not. *Shown*: no hook is called before its
  original is set, although functions and table are patched under running
  threads; half-written code is executed only in the injected case, where it may
  be; the client thread finds all callbacks although the game may have started
  the network before they were pushed, because new threads wait for the loader
  lock; and the threads start.
* `overlay`: `IndexLimit = 24`, slack of 2 vertices and 4 indices (5000 and
  10000 in the code), one shape beside the title, one failing call of
  `renderer_draw` and two failures in all. Two failed creations leave, for
  instance, a font and a shader out, or the same object at the start and again in
  the next frame. Every drawing operation is tried with its smallest sizes, up
  to segments that close on themselves; two frames may accumulate behind a
  failure, and both buffers grow at every larger frame. An outlined letter has 20
  vertices, so a frame that has one beside its title (four more) just fits in 24.
  `DrawnAsAsked` is stated for geometries that can be indexed: with
  `IndexLimit = 20` and without that condition TLC finds it violated, as it would
  be in the program from the 65537th vertex on. It is also stated for frames
  that have their sampler, since `renderer_draw` takes that for the sign that
  `renderer_recreate` was done. Faces are 5, 13, 23 and 40 high, with three
  patterns of widths each; their atlases have one to several rows and double
  their size up to several times.
  While the vertex buffer is left mapped by a failed Map of the index buffer,
  a Direct3D that refuses to map it again lets `g_geometry` grow until it is
  larger than the buffer and a new one is made. The model has this; TLC's run is
  finite because growth ends there.

## 4. Fairness

* `SendQueue`: weak fairness of the client thread and of the worker's
  `SendQueued`, whose functions loop without condition, and of `Construct`: a
  `push_back` begun returns. Nobody must send, and no connection must be lost.
* `Relay`: weak fairness of the worker and of the server thread, again endless
  loops. Connections, packets and departures owe nothing. (`Consume` opens a message
  box on a packet that does not unpack; the server thread goes on when somebody has
  closed it.)
* `Session`: weak fairness of each thread of each process, of the first
  `on_update` of a started game (the engine calls it every frame), and of the
  client's worker: ENet answers or times out, unless the worker has failed. Nobody
  must start or quit.
* `Replica`: weak fairness of `on_update`. The creation of the local player, its
  activation and the end of a load are the game's and are not assumed.
* `GameSync`: weak fairness of each client thread, of a hook call that has begun,
  and of `on_update`'s creation of the replica.
* `Startup`: weak fairness of the loading thread, of a hook that has been
  entered, of the thread that presents and of each new thread, and strong
  fairness of `CallHooked("update")`: the game calls `App::Update` at every frame,
  again and again but not while it is in another hooked function.
* `Overlay`: none; all its properties are safety.

Only `Starts` needs strong fairness. Each liveness property says "or the
process ends", "or the client leaves" or "or the map is left" where the code
gives no more.

## 5. What is proved

The proofs hold for every value of the constants; TLC has checked the inductive
invariants on the instances above before they were proved.

| module | theorem | says |
|---|---|---|
| `SendQueueProofs` | `TypeCorrect`, `NoMessageTwice`, `LossNeedsOverlap`, `OrderKept` | `TypeOK` and the three invariants of `send_queue`, for any number of messages |
| | `Refinement` | `SendQueue` implements `AtMostOnce` |
| `RelayProofs` | `NothingUsedAfterFree`, `AssertionsOfEnetpp`, `NothingDiscarded` | three of the invariants of `relay`, for any finite set of peers and any number of clients and packets |
| | `PipelineInvariant` | where the packets are between a sender's peer and a recipient, and in which order |
| | `OthersPacketsSinceJoining`, `OrderOfSenderKept`, `OnlyTheDepartedLose`, `TypeCorrect` | the other three invariants of `relay`, and `TypeOK` |
| `SessionProofs` | `AtMostOneHost`, `LoserNeverHosts`, `TypeCorrect` | for any set of processes |
| `ReplicaProofs` | `TypeCorrect`, `ReplicaNeverDangles`, `OriginalNeverReplica`, `ReplicaOfItsMap`, `ReplicaOnce`, `UnsafeNeedsLoad`, `TornPointsExplained`, `ArsenalWhole` | `TypeOK` and the seven invariants of `replica`, for any number of loads and packets, whenever the game leaves a map |
| `GameSyncProofs` | `NothingEchoed`, `EachOnce`, `MapsAgree`, `TypeCorrect` | the three invariants of `game_sync` and `TypeOK`, for any set of processes and any number of enemies and attacks |
| `SigScanProofs` | `TypeCorrect`, `ReadsInsideImage` | for all images and patterns |
| | `FindsFirstMatch`, `MissesNoMatch` | for all images, and patterns that begin with a byte and have no 00 or 3F |
| `StartupProofs` | `HooksAreSafe`, `AllCallbacksFound`, `TypeCorrect` | both invariants of `startup`, and `TypeOK` |
| `OverlayProofs` | `CopiesStayInside`, `TypeCorrect` | an invariant of `overlay`, and `TypeOK`, for any shapes, slacks, width of an index and number of failures |
| | `CharactersLieApart` | another, for every face of `Measured` |

Assumptions: the named `ASSUME`s of the modules (`MaxSendsNat`,
`PeersAssumption`, `MalformedAssumption`, `NobodyAssumption`, `ServerAssumption`,
`BoundsAssumption`, `ImagesAssumption`, `PatternsAssumption`,
`IndexLimitAssumption`, `OverlayAssumption`), which TLC evaluates in each run, and
what is stated in the theorems themselves. They give the constants their types;
three say more: `Nobody` is no process, `NoPeer` no peer, and the title is not
empty and the faces are of `Measured`.

**SendQueue.** `NoDuplicate` is not inductive: a step that reads a slot must know
that what is in it has not been read. `Unique` says so: every message is in at
most one slot, and if it was handed over as well, the current pass has read
that slot and will destroy it (`Read`). `Visible` says that a settled message
(one that overlapped no pass) is where the pass will look: below `size` between
passes, at or below `last` during the scan, at or below `doomed` during the
destruction. `Kept` is `LostOnlyIfOverlapped` with "in some slot not yet read"
instead of "below `size`", and `Ordered` compares slots with slots and with what
was handed over. Each action has a lemma with one step per conjunct. The
refinement follows from `Unique` (no repetition) and from `out` growing only at
its end, with `ConsumeDisconnect` as a stutter.

**Relay.** `NoUseAfterFree` looks at what is referred to now; that it stays so
needs the whole life of a client object. `PeersHold`: a peer has an object exactly
while it is connected or a zombie, and `_thread_peer_map` leads back from the uid
to it. `Allocated`: what a peer, an event or `_connected_clients` names is not
deleted, and uids are given out in order. `EventOrder`: a client's events begin
with its CONNECT and end with its DISCONNECT. `Forgotten`: when a DISCONNECT is in
the queue, no peer has that client any more, so that no event can follow it, and
the server thread, which deletes the object as it handles the DISCONNECT, is the
last to see it. `Announced`: an object that is not among the connected clients
still has its CONNECT in the queue, which is enetpp's assertion at RECEIVE and
DISCONNECT. `Dispatches` (a peer is in ENet's dispatch queue once, and only with
something to report) is what `NoPacketDiscarded` rests on, and `UidsLeft` keeps
the number of uids inside the bound by counting the connections still to be
dispatched. Each action has a lemma with a step per conjunct.

On top of this, `Pipeline` is about the packets. `SenderOrderKept` speaks of the
end of the pipeline, `wire`; to keep it, a packet must be ordered against all that
may follow it. So for every sender and recipient what is on the wire is before what
is in `packetQueue`, this before what is in `queue` (`Lines`), all of them
before what the events carry, and that before what the peers still hold (`Source`).
`Before` and `Sorted` are this order, and the lemmas about `\o`, `Append` and
`Tail` say how it passes from one queue to the next; `Tagged` is why it can be
stated by sender at all. `OnlyOthersSinceJoining` needs `Shown`: a packet that was
dispatched before a client connected has its event before the client's CONNECT, and
so is handled while that client is not yet among the connected (`Welcomed`).
`DroppedOnlyForDeparted` needs `Gone`, uids are never given out again, and
`Departing`: a peer that is no longer connected has its DISCONNECT in ENet's dispatch
queue, which is empty by the time the worker sends, so that the packets it fails to
send are for uids that no peer has.

**GameSync.** `OneCopy` needs to know where an enemy is between its creation and
its copies: `HooksRight` (what a call in progress is about, and that only the
host's game can have read `is_host` as true), `SentRight` (what was sent was made
by its sender, enemies by the host, and not while still in their call),
`InboxRight` and `PerformedRight` (a packet is in an inbox at most once, never in
its sender's, and not after it was handled) and `MapsRight`, from which both
`OneCopy` and `OnlyAnnouncedEnemies` follow: an enemy in a map is either in the
call that made it or announced, and then no longer on its way there. `NoEcho` is
itself part of the invariant. The number of copies, a bag in the model, is
treated as a set in the proof: `Maps` says every enemy is in it once.

**Session.** `OneHost` is about flags that server threads set later; it needs
`OnePort` (one holder of the port), `HostsBound` and `ServersBound` (flags and
connections name processes that bound it) and, for a process just started,
`OffIsNew`, `BothStarted` and `WorkerStarted`: a server has a worker only when its
thread is in its loop, so that a dead process's port cannot come back to life.

**Replica.** A replica is *untimely* if `on_update` created it while its map was
being left. The invariant describes the two phases: `Forgotten` while a map is
being left (the globals are reset, or are about an untimely replica), `Loaded`
while one is being played (`has_loaded_player` is true exactly if the local player's
unit exists, and the globals are then about it, unless the replica is an untimely one
of the last map). `Older` says that destroyed units and, in a map being played,
those created while a map was left are of earlier maps, and `Current` ties the two
pointers to the current map or to an untimely unit; `Known` is what a callback may
still assume if no load has begun since its test. `Position` says that the halves of
`move_pos` differ only between a callback's two assignments and that what `on_update`
has read of it is up to date, unless `mixed`. `Armed` is the same for the arsenal:
while no `OnAttack` has overlapped it, the completion starts from an empty one, and a
weapon `OnAttack` is about to add is not there. Nothing is assumed of the game's
loading: the theorems cover a game that leaves a map within `LoadNextMap`, where no
unit is untimely, and one that does not.

**SigScan.** `Positions` bounds `base` while comparing; `Agreed` says what the
comparison has established, `Ended` what the final states imply about `base` and
`k`, and `NothingBefore` accumulates the mismatches.

**Startup.** `HooksSafe` and `CallbacksComplete` are about a call; the invariant is
about what makes the call possible. `Originals`: code that leads to a hook has its
original, and half-written code is there only while `initialize()` patches that
very function. `Presents` is the same of the swap chain's table, whose entry is
written last. `Callbacks`: they are pushed in order after `on_update` is set, and a
thread that `on_update` starts runs only when `DllMain` has returned, by which time
all are there; this is the loader lock's work, and the mutant that starts a thread
within `DllMain` breaks it.

**Overlay.** `BuffersLargeEnough` holds because the tests of the buffers' sizes come
before the copy, but the tests compare with a *noted* size. `Sized` says when the
note can be trusted: while there is a buffer, and, from the test on, always. (A
creation that fails after the note was written leaves no buffer, which the next
test notices.) `Room` says that from each test on what is recorded fits. Both need
that the totals over `g_geometry` are numbers, and these are recursive functions, of
which the prover knows nothing, not even that they exist. `Iteration` proves that a
function given by its first value and a step exists on every `0..n`, and
`StepByStep` that what each step keeps is kept to the end, both from the least
number where it would fail (`WFMin`, which takes a set and not an operator). The
same two carry `CharactersLieApart`: `Layout` is where `paint_alphabet` may be
after any number of characters (all cells placed are in rows above, or before the
position in this row), `Painted` keeps it over all 95, and `FitsInLargest` shows that
each face of `Measured` fits in one row of the largest texture, so that the loop over
the sizes ends (`AtlasLaid`).

**Only model-checked**: all liveness (`EventuallySent`, `EventuallyRelayed`,
`Joins`, `HolderBecomesHost`, `EndsWithItsHost`, `ReplicaAppears`,
`PositionFollowed`, `EnemyAppears`, `Starts`), which the prover cannot do; and of
the safety properties `DrawnAsAsked`. It compares what a drawn frame shows with what
was recorded through folds over sequences of sequences (`FlattenSeq`, `CallsOf`,
`DrawCalls`), so that it would take an induction over the whole of `g_geometry`
with the corners each prefix stands for; the lemmas this needs about `Put` are in the
plan.

## 6. Disagreements found

* `session_init`: `3rdparty/enetpp/include/global_state.h:26` asserts that
  `initialize()` is called once; the client and the server thread of every process
  both call it.
* `game_sync_await`: the comment at `core/Hooks/hooks.h:275` says a guest's own
  enemy is deleted to "await server entity creation packet", but the callback
  that gets this packet (`core/core.h:355`) does nothing while there is no
  replicated unit: an enemy announced then never appears.
* `sig_scan_nul`: five patterns of `HadesMP/Engine/addresses.h` contain a byte
  00, at which the comparison (`HadesMP/Utilities/memory.h:60`) ends, so that an
  address that does not match the stated pattern can be returned.

Other things seen while modelling, which no text of the repository contradicts:

* in the hazard list of `PROJECT.json`: `move_pos` surviving a map change,
  `AttackPacket`'s incomplete MSGPACK list, the backlog of `g_geometry`, packets
  never destroyed by enetpp, the crash in `GetCallAddress` on a missing pattern,
  a weapon that `Weapon::Create` does not know being used as a null pointer in
  `OnAttack`;
* the references to the class instances of the geometry shader are released by a
  loop over the vertex shader's (`core/Renderer/renderer.h:1830`); the instances
  themselves are set again at line 1829, but their references leak;
* `on_update` between `hook_load_next_map` and the end of the old map, if the game
  lets there be one, creates a replica in that map that nothing forgets
  (`core/core.h:161`, `core/Hooks/hooks.h:131`): the next map then has none, and
  the callbacks use a destroyed unit;
* a client whose `enet_host_create` or `enet_host_connect` fails plays on alone for
  ever (`3rdparty/enetpp/include/client.h:177`);
* `AttackPacket::target_name` never travels, so that `OnAttack`'s search for the
  target's unit never finds one.

## 7. What is not modelled

* **Packet contents**: the models carry a packet's type and identity. msgpack is
  a library, and no text of the repository says which fields are to arrive; the
  one list that leaves some out is a hazard.
* **Movement packets in `GameSync`**: their handling is in `Replica`, their transport
  in `SendQueue` and `Relay`.
* **Player input replication**: the sending code is commented out.
* **Parts of the renderer**: the backing up and setting again of the game's pipeline
  (thirty calls each, without a condition: a model of it would only repeat the
  list); `renderer_release_resources` and the device-lost
  functions, which nothing calls; rounded rectangles, clip rectangles, colour tags
  and `draw_text` without a geometry, which no caller uses; the members of
  `struct texture` beside its view; all coordinates and colours. A font whose
  alphabet fits in no texture is scaled down; with the sizes this program asks
  for none is, and `Font` leaves it out.
* **Engine classes**: layouts and typed calls. What the game does when called is
  modelled, as external, where a hook depends on it.
* **The XInput functions themselves**: they forward to the system's library;
  `Startup` has their look-up.
* **ENet's protocol**: `Relay`, `Session` and `GameSync` assume its promise
  (reliable packets in order per peer, or a time-out).
* **Positions as numbers**: in `Replica` a position is the packet that brought it, so
  that none is (0, 0), which `on_update` takes for none.
* **Torn or misordered memory accesses** of plain pointers and of enetpp's unlocked
  `empty()`; `move_pos`, whose two halves are written apart, is split, and so is
  the jump that `hook()` copies.

## 8. Plan

Done, in this order: the send path (the program's only lock-free queue) with its
abstract channel and proofs; the relay; the session and its proofs; the
replica and its proofs; enemies and attacks; the scanner and its proofs; the
overlay; then the start-up, the overlay's set-up and fonts, the
replica's arsenal and movement, and the proofs about the relay and about enemies
and attacks; the proofs about relayed packets, the start-up and the overlay.

Next, in this order:

1. Index lemmas for `Geometry`: every index an operation writes names one of its
   own vertices, for every number of points; then `DrawnAsAsked` from them.
2. An abstract specification of relaying (per pair of clients an ordered channel
   from joining to leaving) that `Relay` implements, with `Pipeline` as the
   invariant of the refinement, and `GameSync` over it instead of over plain
   inboxes.
3. The client's enetpp worker as a module of its own (connect, time-out,
   disconnect, events), under both `SendQueue` and `Session`.
4. Enemies and attacks across loads: `AddEnemyPacket` names no map, so one handled
   after a load puts the host's enemy into another map.
