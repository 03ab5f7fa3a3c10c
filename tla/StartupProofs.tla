---------------------------- MODULE StartupProofs ----------------------------
(* What is proved of the start of the DLL: whatever the order in which the     *)
(* loading thread, the game and the thread that presents take their steps, no  *)
(* hook is reached before it knows its original, and the network's threads     *)
(* find every callback.                                                        *)
EXTENDS Startup, TLAPS

-----------------------------------------------------------------------------
(* The inductive invariant.                                                    *)

Names == {"OnMovementUpdate", "OnPlayerInput", "OnAddEnemy", "OnAttack"}

(* TypeOK in two parts. *)
Flags == /\ injected \in BOOLEAN /\ on_present \in BOOLEAN /\ on_update \in BOOLEAN
         /\ network_init_flag \in BOOLEAN /\ original_present \in BOOLEAN
         /\ init_flag \in BOOLEAN

Words ==
    /\ lpc \in {"addresses", "proxy", "hook", "patch", "on_present", "on_update",
                "callbacks", "returned"}
    /\ missing \subseteq Scanned
    /\ installed \in Seq(HookNames) /\ original \subseteq HookNames
    /\ code \in [HookNames -> {"own", "torn", "hooked"}]
    /\ callbacks \in Seq(Names)
    /\ gpc \in {"run", "copy table", "original_present", "slot", "threads", "original"}
    /\ called \in HookNames \union {NoHook}
    /\ table \in {"own", "copy"} /\ slot \in {"own", "hook_present"}
    /\ ppc \in {"idle", "on_present", "original"}
    /\ thread \in [Threads -> {"none", "created", "running"}]
    /\ crash \in {"none", "missing", "torn", "null"}

(* What a hook needs to be set before it can be reached: hooked code has its   *)
(* original, and so has the hook the game is in; half-written code is only     *)
(* there while initialize() patches the first function.                        *)
Originals ==
    /\ \A h \in HookNames :
          /\ code[h] = "hooked" => h \in original
          /\ code[h] = "torn"   => lpc = "patch" /\ h = NextHook
    /\ lpc = "patch" => /\ Len(installed) < Len(Hooks)
                        /\ NextHook \in original \union missing
    /\ gpc # "run" => called \in original

(* The same of the swap chain's table, whose entry is written last. *)
Presents ==
    /\ gpc \in {"slot", "threads"} => original_present
    /\ slot = "hook_present" => original_present
    /\ ppc # "idle" => original_present

(* The callbacks are pushed in order after on_update is set; what on_update    *)
(* starts therefore finds them all, if it waits for DllMain to return.         *)
Callbacks ==
    /\ Len(callbacks) <= Len(Types)
    /\ \A i \in 1..Len(callbacks) : callbacks[i] = Types[i]
    /\ on_update => lpc \in {"callbacks", "returned"}
    /\ on_update /\ lpc = "returned" => callbacks = Types
    /\ gpc \in {"copy table", "original_present", "slot", "threads"} => on_update
    /\ \A t \in Threads : /\ thread[t] # "none" => on_update
                          /\ thread[t] = "running" => lpc = "returned"

NoBadCrash == crash # "null" /\ (crash = "torn" => injected)

IInv == Flags /\ Words /\ Originals /\ Presents /\ Callbacks /\ NoBadCrash

-----------------------------------------------------------------------------
(* The hooks in the order of their installation.                               *)

LEMMA HooksNamed == /\ Len(Hooks) = 6 /\ Hooks \in Seq(HookNames)
                    /\ \A i \in 1..6 : Hooks[i] \in HookNames
  BY DEF Hooks, HookNames

LEMMA TypesNamed ==
  /\ Len(Types) = 4 /\ Types \in Seq(Names)
  /\ \A i \in 1..4 : Types[i] \in Names
  BY DEF Types, Names

LEMMA Lengths ==
  ASSUME Words
  PROVE  /\ installed \in Seq(HookNames) /\ Len(installed) \in Nat
         /\ callbacks \in Seq(Names) /\ Len(callbacks) \in Nat
  <1>1. installed \in Seq(HookNames) /\ callbacks \in Seq(Names)
    BY DEF Words
  <1> QED  BY <1>1

LEMMA NextNamed ==
  ASSUME Words, Len(installed) < Len(Hooks)
  PROVE  NextHook \in HookNames
  <1>1. Len(installed) + 1 \in 1..6
    BY Lengths, HooksNamed
  <1> QED  BY <1>1, HooksNamed DEF NextHook

-----------------------------------------------------------------------------
(* Types.                                                                      *)


LEMMA StepFlags ==
  ASSUME IInv, [Next]_vars
  PROVE  Flags'
  <1> USE DEF loaderVars, hookVars, gameVars, presentVars
  <1>0. Flags
    BY DEF IInv
  <1>1. CASE ResolveAddresses
    BY <1>0, <1>1 DEF ResolveAddresses, Load, Missing, Flags
  <1>2. CASE ProxyInitialize
    BY <1>0, <1>2 DEF ProxyInitialize, Load, Flags
  <1>3. CASE SetOriginal
    BY <1>0, <1>3 DEF SetOriginal, Load, Flags
  <1>4. CASE TearCode
    BY <1>0, <1>4 DEF TearCode, Load, Flags
  <1>5. CASE PatchCode
    BY <1>0, <1>5 DEF PatchCode, Load, Flags
  <1>6. CASE EndInitialize
    BY <1>0, <1>6 DEF EndInitialize, Load, Missing, Flags
  <1>7. CASE AssignOnPresent
    BY <1>0, <1>7 DEF AssignOnPresent, Load, Flags
  <1>8. CASE AssignOnUpdate
    BY <1>0, <1>8 DEF AssignOnUpdate, Load, Flags
  <1>9. CASE PushCallback
    BY <1>0, <1>9 DEF PushCallback, Load, Flags
  <1>10. CASE ReturnFromDllMain
    BY <1>0, <1>10 DEF ReturnFromDllMain, Load, Flags
  <1>11. CASE CopyTable
    BY <1>0, <1>11 DEF CopyTable, Game, Flags
  <1>12. CASE KeepPresent
    BY <1>0, <1>12 DEF KeepPresent, Game, Flags
  <1>13. CASE HookPresent
    BY <1>0, <1>13 DEF HookPresent, Game, Flags
  <1>14. CASE CreateProxyThread
    BY <1>0, <1>14 DEF CreateProxyThread, Game, Flags
  <1>15. CASE CallOriginal
    BY <1>0, <1>15 DEF CallOriginal, Game, Flags
  <1>16. ASSUME NEW h \in HookNames, CallHooked(h) PROVE Flags'
    BY <1>0, <1>16 DEF CallHooked, Flags
  <1>17. ASSUME NEW h \in HookNames, CallTorn(h) PROVE Flags'
    BY <1>0, <1>17 DEF CallTorn, Flags
  <1>18. CASE CallPresent
    BY <1>0, <1>18 DEF CallPresent, Present, Flags
  <1>19. CASE OnPresent
    BY <1>0, <1>19 DEF OnPresent, Present, Flags
  <1>20. CASE CallOriginalPresent
    BY <1>0, <1>20 DEF CallOriginalPresent, Present, Flags
  <1>21. ASSUME NEW t \in Threads, BeginThread(t) PROVE Flags'
    BY <1>0, <1>21 DEF BeginThread, Flags
  <1>22. CASE Over \/ UNCHANGED vars
    BY <1>0, <1>22 DEF Over, vars, Flags
  <1> QED  BY <1>1, <1>2, <1>3, <1>4, <1>5, <1>6, <1>7, <1>8, <1>9, <1>10, <1>11,
           <1>12, <1>13, <1>14, <1>15, <1>16, <1>17, <1>18, <1>19, <1>20, <1>21, <1>22
           DEF Next, LoadingThread, GameThread, InHook, PresentThread

LEMMA StepWords ==
  ASSUME IInv, [Next]_vars
  PROVE  Words'
  <1> USE DEF loaderVars, hookVars, gameVars, presentVars
  <1>0. Words
    BY DEF IInv
  <1>1. CASE ResolveAddresses
    BY <1>0, <1>1 DEF ResolveAddresses, Load, Missing, Words
  <1>2. CASE ProxyInitialize
    BY <1>0, <1>2 DEF ProxyInitialize, Load, Words
  <1>3. CASE SetOriginal
    BY <1>0, <1>3, NextNamed DEF SetOriginal, Load, Words
  <1>4. CASE TearCode
    BY <1>0, <1>4, NextNamed DEF TearCode, Load, Words
  <1>5. CASE PatchCode
    <2>1. NextHook \in HookNames
      BY <1>0, <1>5, NextNamed DEF PatchCode, Load, IInv, Originals
    <2>2. installed' \in Seq(HookNames)
      BY <1>0, <1>5, <2>1, Lengths DEF PatchCode
    <2>3. code' \in [HookNames -> {"own", "torn", "hooked"}]
      BY <1>0, <1>5, <2>1 DEF PatchCode, Words
    <2> QED  BY <1>0, <1>5, <2>2, <2>3 DEF PatchCode, Load, Words
  <1>6. CASE EndInitialize
    BY <1>0, <1>6 DEF EndInitialize, Load, Missing, Words
  <1>7. CASE AssignOnPresent
    BY <1>0, <1>7 DEF AssignOnPresent, Load, Words
  <1>8. CASE AssignOnUpdate
    BY <1>0, <1>8 DEF AssignOnUpdate, Load, Words
  <1>9. CASE PushCallback
    <2>1. Types[Len(callbacks) + 1] \in Names
      BY <1>0, <1>9, Lengths, TypesNamed DEF PushCallback
    <2>2. callbacks' \in Seq(Names)
      BY <1>0, <1>9, <2>1, Lengths DEF PushCallback
    <2> QED  BY <1>0, <1>9, <2>2 DEF PushCallback, Load, Words
  <1>10. CASE ReturnFromDllMain
    BY <1>0, <1>10 DEF ReturnFromDllMain, Load, Words
  <1>11. CASE CopyTable
    BY <1>0, <1>11 DEF CopyTable, Game, Words
  <1>12. CASE KeepPresent
    BY <1>0, <1>12 DEF KeepPresent, Game, Words
  <1>13. CASE HookPresent
    BY <1>0, <1>13 DEF HookPresent, Game, Words
  <1>14. CASE CreateProxyThread
    BY <1>0, <1>14 DEF CreateProxyThread, Game, Words
  <1>15. CASE CallOriginal
    BY <1>0, <1>15 DEF CallOriginal, Game, Words
  <1>16. ASSUME NEW h \in HookNames, CallHooked(h) PROVE Words'
    BY <1>0, <1>16 DEF CallHooked, Words
  <1>17. ASSUME NEW h \in HookNames, CallTorn(h) PROVE Words'
    BY <1>0, <1>17 DEF CallTorn, Words
  <1>18. CASE CallPresent
    BY <1>0, <1>18 DEF CallPresent, Present, Words
  <1>19. CASE OnPresent
    BY <1>0, <1>19 DEF OnPresent, Present, Words
  <1>20. CASE CallOriginalPresent
    BY <1>0, <1>20 DEF CallOriginalPresent, Present, Words
  <1>21. ASSUME NEW t \in Threads, BeginThread(t) PROVE Words'
    BY <1>0, <1>21 DEF BeginThread, Words
  <1>22. CASE Over \/ UNCHANGED vars
    BY <1>0, <1>22 DEF Over, vars, Words
  <1> QED  BY <1>1, <1>2, <1>3, <1>4, <1>5, <1>6, <1>7, <1>8, <1>9, <1>10, <1>11,
           <1>12, <1>13, <1>14, <1>15, <1>16, <1>17, <1>18, <1>19, <1>20, <1>21, <1>22
           DEF Next, LoadingThread, GameThread, InHook, PresentThread

-----------------------------------------------------------------------------
(* The hooks.                                                                  *)

(* What each of the threads leaves to the others. *)
LEMMA OthersVariables ==
  /\ LoadingThread => UNCHANGED <<injected, gameVars, presentVars, thread>>
  /\ (InHook => UNCHANGED <<loaderVars, hookVars, ppc, init_flag>>)
  /\ (PresentThread => UNCHANGED <<loaderVars, hookVars, gameVars, table, slot,
                                   original_present, thread>>)
  /\ \A h \in HookNames : CallHooked(h) \/ CallTorn(h)
        => UNCHANGED <<loaderVars, hookVars, presentVars, thread>>
  /\ \A t \in Threads : BeginThread(t)
        => UNCHANGED <<loaderVars, hookVars, gameVars, presentVars, crash>>
  <1> USE DEF loaderVars, hookVars, gameVars, presentVars
  <1>1. LoadingThread => UNCHANGED <<injected, gameVars, presentVars, thread>>
    BY Zenon DEF LoadingThread, ResolveAddresses, ProxyInitialize, SetOriginal, TearCode,
           PatchCode, EndInitialize, AssignOnPresent, AssignOnUpdate, PushCallback,
           ReturnFromDllMain, Missing
  <1>2. InHook => UNCHANGED <<loaderVars, hookVars, ppc, init_flag>>
    BY DEF InHook, CopyTable, KeepPresent, HookPresent, CreateProxyThread, CallOriginal
  <1>3. PresentThread => UNCHANGED <<loaderVars, hookVars, gameVars, table, slot,
                                     original_present, thread>>
    BY DEF PresentThread, CallPresent, OnPresent, CallOriginalPresent
  <1>4. ASSUME NEW h \in HookNames, CallHooked(h) \/ CallTorn(h)
        PROVE  UNCHANGED <<loaderVars, hookVars, presentVars, thread>>
    BY <1>4 DEF CallHooked, CallTorn
  <1>5. ASSUME NEW t \in Threads, BeginThread(t)
        PROVE  UNCHANGED <<loaderVars, hookVars, gameVars, presentVars, crash>>
    BY <1>5 DEF BeginThread
  <1> QED  BY <1>1, <1>2, <1>3, <1>4, <1>5

LEMMA StepOriginals ==
  ASSUME IInv, [Next]_vars
  PROVE  Originals'
  <1> USE DEF loaderVars, hookVars, gameVars, presentVars
  <1>0. Originals /\ Words
    BY DEF IInv
  <1>1. CASE ResolveAddresses
    BY <1>0, <1>1 DEF ResolveAddresses, Load, Missing, Originals, NextHook
  <1>2. CASE SetOriginal
    <2>1. /\ lpc = "hook" /\ lpc' = "patch" /\ Len(installed) < Len(Hooks)
          /\ original' = original \union ({NextHook} \ missing)
          /\ UNCHANGED <<missing, installed, code, gpc, called>>
      BY <1>2 DEF SetOriginal, Load
    <2>2. NextHook' = NextHook
      BY <2>1 DEF NextHook
    <2> QED  BY <1>0, <2>1, <2>2 DEF Originals
  <1>3. CASE PatchCode
    <2>1. /\ lpc = "patch" /\ lpc' = "hook"
          /\ code' = [code EXCEPT ![NextHook] =
                                 IF NextHook \in missing THEN "own" ELSE "hooked"]
          /\ UNCHANGED <<original, gpc, called>>
      BY <1>3 DEF PatchCode, Load
    <2>2. NextHook \in original \union missing /\ NextHook \in HookNames
      BY <1>0, <2>1, NextNamed DEF Originals
    <2>3. \A h \in HookNames \ {NextHook} : code'[h] = code[h]
      BY <1>0, <2>1 DEF Words
    <2>4. code'[NextHook] = IF NextHook \in missing THEN "own" ELSE "hooked"
      BY <1>0, <2>1, <2>2 DEF Words
    <2>5. ASSUME NEW h \in HookNames
          PROVE  (code'[h] = "hooked" => h \in original) /\ code'[h] # "torn"
      BY <1>0, <2>2, <2>3, <2>4 DEF Originals
    <2> QED  BY <1>0, <2>1, <2>5 DEF Originals
  <1>4. CASE TearCode
    <2>1. /\ lpc = "patch" /\ code' = [code EXCEPT ![NextHook] = "torn"]
          /\ UNCHANGED <<lpc, missing, installed, original, gpc, called>>
      BY <1>4 DEF TearCode
    <2>2. NextHook' = NextHook
      BY <2>1 DEF NextHook
    <2>3. ASSUME NEW h \in HookNames, h # NextHook PROVE code'[h] = code[h]
      BY <1>0, <2>1, <2>3 DEF Words
    <2>4. ASSUME NEW h \in HookNames, code'[h] = "hooked" PROVE h \in original
      BY <1>0, <2>1, <2>3, <2>4 DEF Originals, Words
    <2>5. ASSUME NEW h \in HookNames, code'[h] = "torn" PROVE h = NextHook
      BY <1>0, <2>1, <2>3, <2>5 DEF Originals
    <2> QED  BY <1>0, <2>1, <2>2, <2>4, <2>5 DEF Originals
  <1>5. CASE \/ ProxyInitialize \/ EndInitialize \/ AssignOnPresent \/ AssignOnUpdate
             \/ PushCallback \/ ReturnFromDllMain
    <2>1. /\ lpc # "patch" /\ lpc' # "patch"
          /\ UNCHANGED <<missing, installed, code, original, gpc, called>>
      BY <1>5 DEF ProxyInitialize, EndInitialize, AssignOnPresent, AssignOnUpdate,
                  PushCallback, ReturnFromDllMain, Load, Missing
    <2>2. NextHook' = NextHook
      BY <2>1 DEF NextHook
    <2> QED  BY <1>0, <2>1, <2>2 DEF Originals
  <1>6. CASE InHook
    <2>1. UNCHANGED <<lpc, missing, installed, code, original>>
          /\ (gpc' # "run" => gpc # "run" /\ called' = called)
      BY <1>6, OthersVariables
      DEF InHook, CopyTable, KeepPresent, HookPresent, CreateProxyThread, CallOriginal, Game
    <2>2. NextHook' = NextHook
      BY <2>1 DEF NextHook
    <2> QED  BY <1>0, <2>1, <2>2 DEF Originals
  <1>7. ASSUME NEW h \in HookNames, CallHooked(h) PROVE Originals'
    <2>1. UNCHANGED <<lpc, missing, installed, code, original>>
          /\ code[h] = "hooked" /\ called' = h
      BY <1>7 DEF CallHooked
    <2>2. NextHook' = NextHook
      BY <2>1 DEF NextHook
    <2> QED  BY <1>0, <2>1, <2>2 DEF Originals
  <1>8. ASSUME UNCHANGED <<lpc, missing, installed, code, original, gpc, called>>
        PROVE  Originals'
    BY <1>0, <1>8 DEF Originals, NextHook
  <1>9. CASE PresentThread
    BY <1>8, <1>9, OthersVariables
  <1>10. ASSUME NEW h \in HookNames, CallTorn(h) PROVE Originals'
    BY <1>8, <1>10 DEF CallTorn
  <1>11. ASSUME NEW t \in Threads, BeginThread(t) PROVE Originals'
    BY <1>8, <1>11, OthersVariables
  <1>12. CASE Over \/ UNCHANGED vars
    BY <1>8, <1>12 DEF Over, vars
  <1> QED  BY <1>1, <1>2, <1>3, <1>4, <1>5, <1>6, <1>7, <1>9, <1>10, <1>11, <1>12
           DEF Next, LoadingThread, GameThread

LEMMA StepPresents ==
  ASSUME IInv, [Next]_vars
  PROVE  Presents'
  <1> USE DEF loaderVars, hookVars, gameVars, presentVars
  <1>0. Presents /\ Words /\ Flags
    BY DEF IInv
  <1>1. ASSUME UNCHANGED <<gpc, original_present, slot, ppc>> PROVE Presents'
    BY <1>0, <1>1 DEF Presents
  <1>2. CASE LoadingThread
    BY <1>1, <1>2, OthersVariables
  <1>3. CASE CopyTable \/ CreateProxyThread \/ CallOriginal
    <2>1. gpc' \notin {"slot", "threads"} /\ UNCHANGED <<original_present, slot, ppc>>
      BY <1>3 DEF CopyTable, CreateProxyThread, CallOriginal, Game
    <2> QED  BY <1>0, <2>1 DEF Presents
  <1>4. CASE KeepPresent
    BY <1>4 DEF KeepPresent, Presents
  <1>5. CASE HookPresent
    BY <1>0, <1>5 DEF HookPresent, Game, Presents
  <1>6. ASSUME NEW h \in HookNames, CallHooked(h) PROVE Presents'
    <2>1. gpc' \notin {"slot", "threads"} /\ UNCHANGED <<original_present, slot, ppc>>
      BY <1>6 DEF CallHooked
    <2> QED  BY <1>0, <2>1 DEF Presents
  <1>7. ASSUME NEW h \in HookNames, CallTorn(h) PROVE Presents'
    BY <1>1, <1>7 DEF CallTorn
  <1>8. CASE PresentThread
    <2>1. UNCHANGED <<gpc, original_present, slot>>
          /\ (ppc' # "idle" => ppc # "idle" \/ slot = "hook_present")
      BY <1>8, OthersVariables
      DEF PresentThread, CallPresent, OnPresent, CallOriginalPresent, Present
    <2> QED  BY <1>0, <2>1 DEF Presents
  <1>9. ASSUME NEW t \in Threads, BeginThread(t) PROVE Presents'
    BY <1>1, <1>9, OthersVariables
  <1>10. CASE Over \/ UNCHANGED vars
    BY <1>1, <1>10 DEF Over, vars
  <1> QED  BY <1>2, <1>3, <1>4, <1>5, <1>6, <1>7, <1>8, <1>9, <1>10
           DEF Next, GameThread, InHook

LEMMA StepNoBadCrash ==
  ASSUME IInv, [Next]_vars
  PROVE  NoBadCrash'
  <1> USE DEF loaderVars, hookVars, gameVars, presentVars
  <1>0. Originals /\ Presents /\ NoBadCrash
    BY DEF IInv
  <1>1. ASSUME UNCHANGED injected, crash' \in {crash, "missing"} PROVE NoBadCrash'
    BY <1>0, <1>1 DEF NoBadCrash
  <1>2. CASE LoadingThread
    <2>1. crash' \in {crash, "missing"}
      BY <1>2 DEF LoadingThread, ResolveAddresses, ProxyInitialize, SetOriginal, TearCode,
                  PatchCode, EndInitialize, AssignOnPresent, AssignOnUpdate, PushCallback,
                  ReturnFromDllMain, Missing
    <2> QED  BY <1>1, <1>2, <2>1, OthersVariables
  <1>3. CASE CopyTable \/ KeepPresent \/ HookPresent \/ CreateProxyThread
    BY <1>1, <1>3 DEF CopyTable, KeepPresent, HookPresent, CreateProxyThread
  <1>4. CASE CallOriginal
    <2>1. called \in original
      BY <1>0, <1>4 DEF CallOriginal, Game, Originals
    <2> QED  BY <1>1, <1>4, <2>1 DEF CallOriginal
  <1>5. ASSUME NEW h \in HookNames, CallHooked(h) PROVE NoBadCrash'
    BY <1>1, <1>5 DEF CallHooked
  <1>6. ASSUME NEW h \in HookNames, CallTorn(h) PROVE NoBadCrash'
    <2>1. lpc = "patch" /\ injected
      BY <1>0, <1>6 DEF CallTorn, GameFree, InDllMain, Originals
    <2> QED  BY <1>6, <2>1 DEF CallTorn, NoBadCrash
  <1>7. CASE CallPresent \/ OnPresent
    BY <1>1, <1>7 DEF CallPresent, OnPresent
  <1>8. CASE CallOriginalPresent
    <2>1. original_present
      BY <1>0, <1>8 DEF CallOriginalPresent, Present, Presents
    <2> QED  BY <1>1, <1>8, <2>1 DEF CallOriginalPresent
  <1>9. ASSUME NEW t \in Threads, BeginThread(t) PROVE NoBadCrash'
    BY <1>1, <1>9, OthersVariables
  <1>10. CASE Over \/ UNCHANGED vars
    BY <1>1, <1>10 DEF Over, vars
  <1> QED  BY <1>2, <1>3, <1>4, <1>5, <1>6, <1>7, <1>8, <1>9, <1>10
           DEF Next, GameThread, InHook, PresentThread

-----------------------------------------------------------------------------
(* The callbacks.                                                              *)

LEMMA StepCallbacks ==
  ASSUME IInv, [Next]_vars
  PROVE  Callbacks'
  <1> USE DEF loaderVars, hookVars, gameVars, presentVars
  <1>0. Callbacks /\ Words /\ Flags
    BY DEF IInv
  <1>1. ASSUME UNCHANGED <<lpc, callbacks, on_update, gpc, thread>> PROVE Callbacks'
    BY <1>0, <1>1 DEF Callbacks
  <1>2. CASE \/ ResolveAddresses \/ ProxyInitialize \/ SetOriginal \/ TearCode
             \/ PatchCode \/ EndInitialize \/ AssignOnPresent
    <2>1. /\ UNCHANGED <<callbacks, on_update, gpc, thread>>
          /\ lpc \notin {"callbacks", "returned"}
      BY <1>2 DEF ResolveAddresses, ProxyInitialize, SetOriginal, TearCode, PatchCode,
                  EndInitialize, AssignOnPresent, Load, Missing
    <2>2. ~on_update /\ \A t \in Threads : thread[t] = "none"
      BY <1>0, <2>1 DEF Callbacks
    <2> QED  BY <1>0, <2>1, <2>2 DEF Callbacks
  <1>3. CASE AssignOnUpdate
    <2>1. /\ lpc = "on_update" /\ lpc' = "callbacks" /\ on_update'
          /\ UNCHANGED <<callbacks, gpc, thread>>
      BY <1>3 DEF AssignOnUpdate, Load
    <2> QED  BY <1>0, <2>1 DEF Callbacks
  <1>4. CASE PushCallback
    <2>1. /\ Len(callbacks) < Len(Types) /\ lpc = "callbacks" /\ lpc' = "callbacks"
          /\ callbacks' = Append(callbacks, Types[Len(callbacks) + 1])
          /\ UNCHANGED <<on_update, gpc, thread>>
      BY <1>4 DEF PushCallback, Load
    <2>2. /\ Len(callbacks') <= Len(Types)
          /\ \A i \in 1..Len(callbacks') : callbacks'[i] = Types[i]
      <3>1. /\ Len(callbacks') = Len(callbacks) + 1 /\ Len(callbacks) \in Nat
            /\ \A i \in 1..Len(callbacks) : callbacks'[i] = callbacks[i]
            /\ callbacks'[Len(callbacks) + 1] = Types[Len(callbacks) + 1]
        BY <1>0, <2>1, Lengths, TypesNamed
      <3>2. \A i \in 1..Len(callbacks') : i \in 1..Len(callbacks) \/ i = Len(callbacks) + 1
        BY <3>1
      <3>3. Len(callbacks') <= Len(Types)
        BY <2>1, <3>1, TypesNamed
      <3>4. \A i \in 1..Len(callbacks) : callbacks[i] = Types[i]
        BY <1>0 DEF Callbacks
      <3> QED  BY <3>1, <3>2, <3>3, <3>4
    <2> QED  BY <1>0, <2>1, <2>2 DEF Callbacks
  <1>5. CASE ReturnFromDllMain
    <2>1. /\ Len(callbacks) = Len(Types) /\ lpc' = "returned"
          /\ UNCHANGED <<callbacks, on_update, gpc, thread>>
      BY <1>5 DEF ReturnFromDllMain, Load
    <2>2. callbacks = Types
      <3>1. Types \in Seq(Names) /\ callbacks \in Seq(Names)
        BY <1>0, TypesNamed, Lengths
      <3>2. \A i \in 1..Len(callbacks) : callbacks[i] = Types[i]
        BY <1>0 DEF Callbacks
      <3> QED  BY <2>1, <3>1, <3>2
    <2> QED  BY <1>0, <2>1, <2>2 DEF Callbacks
  <1>6. CASE CopyTable \/ KeepPresent \/ HookPresent \/ CallOriginal
    <2>1. /\ UNCHANGED <<lpc, callbacks, on_update, thread>>
          /\ gpc' \in {"copy table", "original_present", "slot", "threads"}
                => gpc \in {"copy table", "original_present", "slot", "threads"}
      BY <1>6 DEF CopyTable, KeepPresent, HookPresent, CallOriginal, Game
    <2> QED  BY <1>0, <2>1 DEF Callbacks
  <1>7. CASE CreateProxyThread
    <2>1. /\ UNCHANGED <<lpc, callbacks, on_update>> /\ on_update
          /\ \A t \in Threads : thread'[t] \in {thread[t], "created"}
      BY <1>0, <1>7 DEF CreateProxyThread, Game, Callbacks, Words
    <2> QED  BY <1>0, <2>1 DEF Callbacks
  <1>8. ASSUME NEW h \in HookNames, CallHooked(h) PROVE Callbacks'
    <2>1. /\ UNCHANGED <<lpc, callbacks, on_update, thread>>
          /\ gpc' \in {"copy table", "original_present", "slot", "threads"} => on_update
      BY <1>8 DEF CallHooked
    <2> QED  BY <1>0, <2>1 DEF Callbacks
  <1>9. ASSUME NEW h \in HookNames, CallTorn(h) PROVE Callbacks'
    BY <1>1, <1>9 DEF CallTorn
  <1>10. CASE PresentThread
    BY <1>1, <1>10, OthersVariables
  <1>11. ASSUME NEW t \in Threads, BeginThread(t) PROVE Callbacks'
    <2>1. /\ UNCHANGED <<lpc, callbacks, on_update, gpc>> /\ lpc = "returned"
          /\ thread[t] = "created"
          /\ \A u \in Threads : thread'[u] \in {thread[u], "created", "running"}
      BY <1>11 DEF BeginThread, InDllMain
    <2>2. on_update
      BY <1>0, <2>1 DEF Callbacks
    <2> QED  BY <1>0, <2>1, <2>2 DEF Callbacks
  <1>12. CASE Over \/ UNCHANGED vars
    BY <1>1, <1>12 DEF Over, vars
  <1> QED  BY <1>2, <1>3, <1>4, <1>5, <1>6, <1>7, <1>8, <1>9, <1>10, <1>11, <1>12
           DEF Next, LoadingThread, GameThread, InHook

-----------------------------------------------------------------------------
(* The theorems.                                                               *)

LEMMA InitIInv == Init => IInv
  <1> SUFFICES ASSUME Init PROVE IInv
    OBVIOUS
  <1>1. Flags
    BY DEF Init, Flags
  <1>2. Words
    BY DEF Init, Words
  <1>3. Originals /\ Presents /\ NoBadCrash
    BY DEF Init, Originals, Presents, NoBadCrash
  <1>4. Callbacks
    BY TypesNamed DEF Init, Callbacks
  <1> QED  BY <1>1, <1>2, <1>3, <1>4 DEF IInv

(* Every step of the start, of whichever thread, keeps the invariant. *)
THEOREM Invariant == Spec => []IInv
  <1>1. IInv /\ [Next]_vars => IInv'
    BY StepFlags, StepWords, StepOriginals, StepPresents, StepCallbacks, StepNoBadCrash
    DEF IInv
  <1> QED  BY <1>1, InitIInv, PTL DEF Spec

(* The variables of the start keep their types. *)
THEOREM TypeCorrect == Spec => []TypeOK
  <1>1. IInv => TypeOK
    BY DEF IInv, Flags, Words, Names, TypeOK
  <1> QED  BY <1>1, Invariant, PTL

(* The hooks of the game's functions and of Present are never reached before   *)
(* they know what they replace, in whatever order the threads run, and only an *)
(* injected DLL can have the game execute half-written code.                   *)
THEOREM HooksAreSafe == Spec => []HooksSafe
  <1>1. IInv => HooksSafe
    BY DEF IInv, NoBadCrash, HooksSafe
  <1> QED  BY <1>1, Invariant, PTL

(* The client thread finds every callback, although on_update, which starts    *)
(* it, is set before the first is pushed.                                      *)
THEOREM AllCallbacksFound == Spec => []CallbacksComplete
  <1>1. IInv => CallbacksComplete
    BY DEF IInv, Callbacks, CallbacksComplete, Threads
  <1> QED  BY <1>1, Invariant, PTL
=============================================================================
