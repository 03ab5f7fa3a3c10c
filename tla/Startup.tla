------------------------------ MODULE Startup -------------------------------
(* How the DLL starts inside the game (main.cpp, core::initialize,             *)
(* Hooks/hooks.h, Hooks/directx.h): its addresses are resolved, DllMain puts   *)
(* hooks on functions of the game and sets the callbacks, the first on_update  *)
(* patches the swap chain's table and starts the network threads.              *)
(*                                                                             *)
(* All of this runs against a game that may be running already: README.md has  *)
(* the DLL injected, by a thread of its own, or put in the place of            *)
(* XInput1_4.dll, which the game's own thread loads.  Windows runs DllMain     *)
(* under the loader lock, which every new thread takes before it begins.       *)
EXTENDS Naturals, Sequences

Hooks == <<"update", "create_player_unit", "request_fire", "load_next_map", "draw",
           "create_enemy_unit">>
HookNames == {Hooks[i] : i \in DOMAIN Hooks}
Types     == <<"OnMovementUpdate", "OnPlayerInput", "OnAddEnemy", "OnAttack">>
Threads   == {"proxy", "client", "server"}
Scanned   == {"create_player_unit", "draw"}    \* hooked at what SigScan returns
NoHook    == "none"

VARIABLES
    injected,        \* is the DLL loaded by a thread of its own?
    lpc,             \* the loading thread
    missing,         \* those of Scanned whose pattern was not found
    installed,       \* the hooks that initialize() has dealt with so far
    code,            \* per hook, the game function: "own", "torn", "hooked"
    original,        \* hooks whose original_... is set
    on_present, on_update,
    callbacks,       \* network::client.callbacks
    gpc, called,     \* the game thread, and the hook it is in
    network_init_flag,
    table,           \* the swap chain's function table: "own", "copy"
    slot,            \* entry 0x16 of the copy: "own", "hook_present"
    original_present,
    ppc,             \* the thread that calls Present
    init_flag,
    thread,          \* the threads: "none", "created", "running"
    crash            \* "none", or how the process has crashed

loaderVars  == <<injected, lpc, missing, installed, callbacks>>
hookVars    == <<code, original, on_present, on_update>>
gameVars    == <<gpc, called, network_init_flag>>
presentVars == <<table, slot, original_present, ppc, init_flag>>
vars == <<loaderVars, hookVars, gameVars, presentVars, thread, crash>>

Init == /\ injected \in BOOLEAN /\ lpc = "addresses" /\ missing = {}
        /\ installed = <<>>
        /\ code = [h \in HookNames |-> "own"] /\ original = {}
        /\ on_present = FALSE /\ on_update = FALSE /\ callbacks = <<>>
        /\ gpc = "run" /\ called = NoHook /\ network_init_flag = FALSE
        /\ table = "own" /\ slot = "own" /\ original_present = FALSE
        /\ ppc = "idle" /\ init_flag = FALSE
        /\ thread = [t \in Threads |-> "none"] /\ crash = "none"

Running == crash = "none"

(* The loader lock is held, and a game thread that loads the DLL itself waits  *)
(* in LoadLibrary, until DllMain returns.  (The first is a DllMain that leaves *)
(* init() to a thread, as its commented-out CreateThread would.)               *)
InDllMainEarly == lpc \in {"addresses", "proxy"}
InDllMain == lpc # "returned"

-----------------------------------------------------------------------------
(* The loading thread.                                                         *)

Load(from, to) == Running /\ lpc = from /\ lpc' = to

(* The globals of addresses.h, before DllMain (see SigScan), the pattern that  *)
(* initialize() looks for in vain later, SDL2.dll's code: without what they    *)
(* look for they read through a null pointer.  Only SigScan itself returns one.*)
Missing == /\ crash' = "missing"
           /\ UNCHANGED <<loaderVars, hookVars, gameVars, presentVars, thread>>

ResolveAddresses ==
    \/ /\ Load("addresses", "proxy")
       /\ missing' \in SUBSET Scanned
       /\ UNCHANGED <<injected, installed, callbacks, hookVars, gameVars, presentVars,
                      thread, crash>>
    \/ Running /\ lpc = "addresses" /\ Missing

(* proxy.initialize(): without the system's XInput1_4.dll nothing more is done.*)
ProxyInitialize ==
    /\ Load("proxy", "hook") \/ Load("proxy", "returned")
    /\ UNCHANGED <<injected, missing, installed, callbacks, hookVars, gameVars, presentVars,
                   thread, crash>>

NextHook == Hooks[Len(installed) + 1]

(* hook() and MH_CreateHook: the trampoline, then original_...  MH_CreateHook  *)
(* refuses a null address, which nobody notices.  (The mistake leaves the      *)
(* pointer for later.)                                                         *)
SetOriginalLate ==                                      \* a mistake
    /\ Len(installed) < Len(Hooks)
    /\ Load("hook", "patch")
    /\ original' = {installed[i] : i \in DOMAIN installed} \ missing
    /\ UNCHANGED <<injected, missing, installed, callbacks, code, on_present, on_update,
                   gameVars, presentVars, thread, crash>>

SetOriginal ==
    /\ Len(installed) < Len(Hooks)
    /\ Load("hook", "patch")
    /\ original' = original \union ({NextHook} \ missing)
    /\ UNCHANGED <<injected, missing, installed, callbacks, code, on_present, on_update,
                   gameVars, presentVars, thread, crash>>

(* hook() copies its jump over the function byte by byte ... *)
TearCode == /\ Running /\ lpc = "patch"
            /\ NextHook = "update" /\ code[NextHook] = "own"
            /\ code' = [code EXCEPT ![NextHook] = "torn"]
            /\ UNCHANGED <<loaderVars, original, on_present, on_update, gameVars,
                           presentVars, thread, crash>>

(* ... MH_EnableHook stops all other threads to do so.                         *)
PatchCode == /\ Load("patch", "hook")
             /\ NextHook = "update" => code[NextHook] = "torn"
             /\ code' = [code EXCEPT ![NextHook] =
                                    IF NextHook \in missing THEN "own" ELSE "hooked"]
             /\ installed' = Append(installed, NextHook)
             /\ UNCHANGED <<injected, missing, callbacks, original, on_present, on_update,
                            gameVars, presentVars, thread, crash>>

EndInitialize ==
    /\ Len(installed) = Len(Hooks)
    /\ \/ /\ Load("hook", "on_present")
          /\ UNCHANGED <<injected, missing, installed, callbacks, hookVars, gameVars,
                         presentVars, thread, crash>>
       \/ Running /\ lpc = "hook" /\ Missing

(* The rest of core::initialize: on_present, on_update, the callbacks. *)
AssignOnPresent == /\ Load("on_present", "on_update")
                   /\ on_present' = TRUE
                   /\ UNCHANGED <<injected, missing, installed, callbacks, code, original,
                                  on_update, gameVars, presentVars, thread, crash>>

AssignOnUpdate == /\ Load("on_update", "callbacks")
                  /\ on_update' = TRUE
                  /\ UNCHANGED <<injected, missing, installed, callbacks, code, original,
                                 on_present, gameVars, presentVars, thread, crash>>

PushCallback == /\ Len(callbacks) < Len(Types)
                /\ Load("callbacks", "callbacks")
                /\ callbacks' = Append(callbacks, Types[Len(callbacks) + 1])
                /\ UNCHANGED <<injected, missing, installed, hookVars, gameVars, presentVars,
                               thread, crash>>

ReturnFromDllMain == /\ Len(callbacks) = Len(Types)
                     /\ Load("callbacks", "returned")
                     /\ UNCHANGED <<injected, missing, installed, callbacks, hookVars, gameVars,
                                    presentVars, thread, crash>>

-----------------------------------------------------------------------------
(* The game thread calls the hooked functions; a call of a function that has   *)
(* no hook yet is nothing to us.                                               *)

GameFree == Running /\ gpc = "run" /\ (InDllMain => injected)

Game(from, to) == Running /\ gpc = from /\ gpc' = to

CallHooked(h) ==
    /\ GameFree /\ code[h] = "hooked"
    /\ called' = h
    /\ gpc' = IF h = "update" /\ on_update /\ ~network_init_flag
              THEN "copy table" ELSE "original"
    /\ UNCHANGED <<loaderVars, hookVars, network_init_flag, presentVars, thread, crash>>

CallTorn(h) == /\ GameFree /\ code[h] = "torn"
               /\ crash' = "torn"
               /\ UNCHANGED <<loaderVars, hookVars, gameVars, presentVars, thread>>

(* on_update's call_once: directx::initialize() ... *)
CopyTable == /\ Game("copy table", "original_present")
             /\ table' = "copy"
             /\ UNCHANGED <<loaderVars, hookVars, called, network_init_flag, slot,
                            original_present, ppc, init_flag, thread, crash>>

KeepPresent == /\ Game("original_present", "slot")
               /\ original_present' = TRUE
               /\ UNCHANGED <<loaderVars, hookVars, called, network_init_flag, table,
                              slot, ppc, init_flag, thread, crash>>

HookPresent == /\ Game("slot", "threads")
               /\ slot' = "hook_present"
               /\ UNCHANGED <<loaderVars, hookVars, called, network_init_flag, table,
                              original_present, ppc, init_flag, thread, crash>>

(* ... and the thread for proxy_thread.                                        *)
CreateProxyThread == /\ Game("threads", "original")
                     /\ thread' = [thread EXCEPT !["proxy"] = "created"]
                     /\ network_init_flag' = TRUE
                     /\ UNCHANGED <<loaderVars, hookVars, called, presentVars, crash>>

(* The end of every hook. *)
CallOriginal == /\ Game("original", "run")
                /\ crash' = IF called \in original THEN crash ELSE "null"
                /\ called' = NoHook
                /\ UNCHANGED <<loaderVars, hookVars, network_init_flag, presentVars,
                               thread>>

-----------------------------------------------------------------------------
(* The thread that presents: hook_present, the callback's call_once, which     *)
(* loads the shader compiler and so needs the loader lock, the original.       *)

Present(from, to) == Running /\ ppc = from /\ ppc' = to

CallPresent == /\ table = "copy" /\ slot = "hook_present"
               /\ Present("idle", IF on_present THEN "on_present" ELSE "original")
               /\ UNCHANGED <<loaderVars, hookVars, gameVars, table, slot,
                              original_present, init_flag, thread, crash>>

OnPresent == /\ Present("on_present", "original")
             /\ init_flag \/ ~InDllMain
             /\ init_flag' = TRUE
             /\ UNCHANGED <<loaderVars, hookVars, gameVars, table, slot,
                            original_present, thread, crash>>

CallOriginalPresent == /\ Present("original", "idle")
                       /\ crash' = IF original_present THEN crash ELSE "null"
                       /\ UNCHANGED <<loaderVars, hookVars, gameVars, table, slot,
                                      original_present, init_flag, thread>>

-----------------------------------------------------------------------------
(* The network threads (see Session and SendQueue).                            *)

(* proxy_thread starts both, then waits for both.  (Or waits for the first     *)
(* before it starts the second.)                                               *)
CreatesOneByOne(t) == IF t = "proxy" THEN {"client"} ELSE {}
Creates(t) == IF t = "proxy" THEN {"client", "server"} ELSE {}

BeginThread(t) ==
    /\ Running /\ thread[t] = "created" /\ ~InDllMain
    /\ thread' = [u \in Threads |-> CASE u = t            -> "running"
                                      [] u \in Creates(t) -> "created"
                                      [] OTHER            -> thread[u]]
    /\ UNCHANGED <<loaderVars, hookVars, gameVars, presentVars, crash>>

-----------------------------------------------------------------------------
LoadingThread == \/ ResolveAddresses \/ ProxyInitialize \/ SetOriginal \/ TearCode
                 \/ PatchCode \/ EndInitialize \/ AssignOnPresent \/ AssignOnUpdate
                 \/ PushCallback \/ ReturnFromDllMain

InHook == CopyTable \/ KeepPresent \/ HookPresent \/ CreateProxyThread \/ CallOriginal

GameThread == InHook \/ \E h \in HookNames : CallHooked(h) \/ CallTorn(h)

PresentThread == CallPresent \/ OnPresent \/ CallOriginalPresent

(* A process that has crashed, or got no further than its proxy, stays so. *)
Over == (~Running \/ (lpc = "returned" /\ installed = <<>>)) /\ UNCHANGED vars

Next == \/ LoadingThread \/ GameThread \/ PresentThread
        \/ \E t \in Threads : BeginThread(t)
        \/ Over

Spec == Init /\ [][Next]_vars

(* Threads run; the game goes on updating and presenting. *)
Fairness == /\ WF_vars(LoadingThread) /\ WF_vars(InHook) /\ WF_vars(PresentThread)
            /\ SF_vars(CallHooked("update"))
            /\ \A t \in Threads : WF_vars(BeginThread(t))

FairSpec == Spec /\ Fairness

-----------------------------------------------------------------------------
(* Properties.                                                                 *)

TypeOK ==
    /\ injected \in BOOLEAN
    /\ lpc \in {"addresses", "proxy", "hook", "patch", "on_present", "on_update",
                "callbacks", "returned"}
    /\ missing \subseteq Scanned
    /\ installed \in Seq(HookNames) /\ original \subseteq HookNames
    /\ code \in [HookNames -> {"own", "torn", "hooked"}]
    /\ on_present \in BOOLEAN /\ on_update \in BOOLEAN
    /\ callbacks \in Seq({"OnMovementUpdate", "OnPlayerInput", "OnAddEnemy", "OnAttack"})
    /\ gpc \in {"run", "copy table", "original_present", "slot", "threads", "original"}
    /\ called \in HookNames \union {NoHook} /\ network_init_flag \in BOOLEAN
    /\ table \in {"own", "copy"} /\ slot \in {"own", "hook_present"}
    /\ original_present \in BOOLEAN /\ init_flag \in BOOLEAN
    /\ ppc \in {"idle", "on_present", "original"}
    /\ thread \in [Threads -> {"none", "created", "running"}]
    /\ crash \in {"none", "missing", "torn", "null"}

(* The functions are hooked under a running game, one after another, and the   *)
(* swap chain's table while Present goes on: no hook is ever reached before it *)
(* knows the function it replaces, and half-written code is only executed if   *)
(* the DLL was injected (then it may be: hook() stops nobody).                 *)
HooksSafe == crash # "null" /\ (crash = "torn" => injected)

(* core::initialize sets on_update, which lets the game thread start the       *)
(* network, before it pushes the callbacks.  All the same the client thread    *)
(* finds all of them, because no thread begins before DllMain has returned.    *)
CallbacksComplete == thread["client"] = "running" => callbacks = Types

(* Once DllMain has returned with its hooks in place, both network threads     *)
(* start and the overlay's callback runs, unless the process has crashed: no   *)
(* thread waits in vain for another or for the loader lock.                    *)
Starts == (lpc = "returned" /\ installed # <<>>) ~>
            (\/ ~Running
             \/ thread["client"] = "running" /\ thread["server"] = "running" /\ init_flag)
=============================================================================
