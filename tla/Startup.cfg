SPECIFICATION FairSpec
INVARIANTS HooksSafe CallbacksComplete
PROPERTIES Starts
