---------------------------- MODULE SendQueueMC -----------------------------
EXTENDS SendQueue
=============================================================================
