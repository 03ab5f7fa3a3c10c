------------------------------ MODULE Session -------------------------------
(* How a session comes up and goes down: several game processes on one         *)
(* machine, each with the client and the server thread that core.h starts.     *)
(*                                                                             *)
(* Every process runs a server on port 27017 and a client that connects to     *)
(* "localhost" on the same port.  Only the first server can bind; the others   *)
(* stay without a host for ever, and their processes join the first one's      *)
(* session.  A process whose connection is lost ends in std::terminate().      *)
EXTENDS Naturals, FiniteSets

CONSTANTS Procs, Nobody
ASSUME NobodyAssumption == Nobody \notin Procs

VARIABLES
    life,        \* "off", "up", "dead"
    cpc,         \* client thread: "none", "start", "checked", "ready", "loop"
    spc,         \* server thread: the same
    initialized, \* enetpp::global_state::_is_initialized
    asserted,    \* history: initialize() was entered when already initialised
    host,        \* enetpp server's worker: "none", "starting", "bound", "failed"
    link,        \* enetpp client's worker: "none", "starting", "connecting",
                 \* "connected", "lost" (after an event), "failed" (without one)
    server,      \* the process the client is connected to
    is_host

threadVars == <<cpc, spc, initialized, asserted>>
netVars    == <<host, link, server, is_host>>
vars == <<life, threadVars, netVars>>

Init == /\ life = [p \in Procs |-> "off"]
        /\ cpc = [p \in Procs |-> "none"] /\ spc = [p \in Procs |-> "none"]
        /\ initialized = [p \in Procs |-> FALSE]
        /\ asserted = [p \in Procs |-> FALSE]
        /\ host = [p \in Procs |-> "none"] /\ link = [p \in Procs |-> "none"]
        /\ server = [p \in Procs |-> Nobody]
        /\ is_host = [p \in Procs |-> FALSE]

(* The process, if any, whose server has the port. *)
PortHolders == {p \in Procs : life[p] = "up" /\ host[p] = "bound"}

-----------------------------------------------------------------------------
(* The process and its game thread.                                            *)

Start(p) == /\ life[p] = "off"
            /\ life' = [life EXCEPT ![p] = "up"]
            /\ UNCHANGED <<threadVars, netVars>>

(* The player closes the game: the threads and the port go with the process. *)
Quit(p) == /\ life[p] = "up"
           /\ life' = [life EXCEPT ![p] = "dead"]
           /\ UNCHANGED <<threadVars, netVars>>

(* The first on_update: call_once starts proxy_thread, which starts both. *)
NetworkInit(p) == /\ life[p] = "up" /\ cpc[p] = "none"
                  /\ cpc' = [cpc EXCEPT ![p] = "start"]
                  /\ spc' = [spc EXCEPT ![p] = "start"]
                  /\ UNCHANGED <<life, initialized, asserted, netVars>>

-----------------------------------------------------------------------------
(* global_state::initialize(), by either thread: the assertion reads the flag, *)
(* enet_initialize() runs, the flag is set.  (With NDEBUG nothing more comes   *)
(* of the assertion.)                                                          *)

CheckInitialized(p) == asserted' = [asserted EXCEPT ![p] = @ \/ initialized[p]]

ClientCheck(p) == /\ life[p] = "up" /\ cpc[p] = "start"
                  /\ CheckInitialized(p)
                  /\ cpc' = [cpc EXCEPT ![p] = "checked"]
                  /\ UNCHANGED <<life, spc, initialized, netVars>>

ClientInitialized(p) == /\ life[p] = "up" /\ cpc[p] = "checked"
                        /\ initialized' = [initialized EXCEPT ![p] = TRUE]
                        /\ cpc' = [cpc EXCEPT ![p] = "ready"]
                        /\ UNCHANGED <<life, spc, asserted, netVars>>

ServerCheck(p) == /\ life[p] = "up" /\ spc[p] = "start"
                  /\ CheckInitialized(p)
                  /\ spc' = [spc EXCEPT ![p] = "checked"]
                  /\ UNCHANGED <<life, cpc, initialized, netVars>>

ServerInitialized(p) == /\ life[p] = "up" /\ spc[p] = "checked"
                        /\ initialized' = [initialized EXCEPT ![p] = TRUE]
                        /\ spc' = [spc EXCEPT ![p] = "ready"]
                        /\ UNCHANGED <<life, cpc, asserted, netVars>>

-----------------------------------------------------------------------------
(* The server: start_listening() starts the worker, which binds the port.      *)

StartListening(p) == /\ life[p] = "up" /\ spc[p] = "ready"
                     /\ spc' = [spc EXCEPT ![p] = "loop"]
                     /\ host' = [host EXCEPT ![p] = "starting"]
                     /\ UNCHANGED <<life, cpc, initialized, asserted, link, server,
                                    is_host>>

(* enet_host_create, with the port or for another reason without it: then the  *)
(* worker ends, and nobody tries again.                                        *)
BindOutcomesShared == {"bound", "failed"}     \* a mistake: as with SO_REUSEADDR
BindOutcomes == {"failed"} \union (IF PortHolders = {} THEN {"bound"} ELSE {})

CreateHost(p) == /\ life[p] = "up" /\ host[p] = "starting"
                 /\ \E outcome \in BindOutcomes : host' = [host EXCEPT ![p] = outcome]
                 /\ UNCHANGED <<life, threadVars, link, server, is_host>>

(* Server::Consume's on_connected. *)
OnConnectedOther(p) ==                  \* a mistake: its own client left out
    /\ life[p] = "up" /\ spc[p] = "loop" /\ ~is_host[p]
    /\ \E q \in Procs \ {p} : server[q] = p
    /\ is_host' = [is_host EXCEPT ![p] = TRUE]
    /\ UNCHANGED <<life, threadVars, host, link, server>>

OnConnected(p) == /\ life[p] = "up" /\ spc[p] = "loop" /\ ~is_host[p]
                  /\ \E q \in Procs : server[q] = p
                  /\ is_host' = [is_host EXCEPT ![p] = TRUE]
                  /\ UNCHANGED <<life, threadVars, host, link, server>>

-----------------------------------------------------------------------------
(* The client.                                                                 *)

Connect(p) == /\ life[p] = "up" /\ cpc[p] = "ready"
              /\ cpc' = [cpc EXCEPT ![p] = "loop"]
              /\ link' = [link EXCEPT ![p] = "starting"]
              /\ UNCHANGED <<life, spc, initialized, asserted, host, server, is_host>>

(* enet_host_create and enet_host_connect.  When one of them returns nothing   *)
(* the worker ends without an event: Client::Invoke then loops for ever.       *)
CreatePeer(p) == /\ life[p] = "up" /\ link[p] = "starting"
                 /\ \E outcome \in {"connecting", "failed"} :
                       link' = [link EXCEPT ![p] = outcome]
                 /\ UNCHANGED <<life, threadVars, host, server, is_host>>

HandshakeAny(p) == /\ life[p] = "up" /\ link[p] = "connecting"  \* a mistake
                   /\ \E q \in Procs : /\ host[q] \in {"bound", "failed"}
                                       /\ server' = [server EXCEPT ![p] = q]
                   /\ link' = [link EXCEPT ![p] = "connected"]
                   /\ UNCHANGED <<life, threadVars, host, is_host>>

Handshake(p) == /\ life[p] = "up" /\ link[p] = "connecting"
                /\ \E q \in PortHolders : server' = [server EXCEPT ![p] = q]
                /\ link' = [link EXCEPT ![p] = "connected"]
                /\ UNCHANGED <<life, threadVars, host, is_host>>

(* ENet gives up on a server that is not, or no longer, there.  (The first two *)
(* leave out one of the cases.)                                                *)
UnansweredConnected(p)  == link[p] = "connected" /\ life[server[p]] = "dead"
UnansweredConnecting(p) == link[p] = "connecting" /\ PortHolders = {}
Unanswered(p) == \/ link[p] = "connecting" /\ PortHolders = {}
                 \/ link[p] = "connected" /\ life[server[p]] = "dead"

LinkTimeout(p) == /\ life[p] = "up" /\ Unanswered(p)
                  /\ link' = [link EXCEPT ![p] = "lost"]
                  /\ UNCHANGED <<life, threadVars, host, server, is_host>>

(* The DISCONNECT event ends Client::Invoke; Client::Thread calls terminate(). *)
Terminate(p) == /\ life[p] = "up" /\ cpc[p] = "loop" /\ link[p] = "lost"
                /\ life' = [life EXCEPT ![p] = "dead"]
                /\ UNCHANGED <<threadVars, netVars>>

-----------------------------------------------------------------------------
GameThread(p)   == Start(p) \/ Quit(p) \/ NetworkInit(p)
ClientThread(p) == ClientCheck(p) \/ ClientInitialized(p) \/ Connect(p) \/ Terminate(p)
ClientWorker(p) == CreatePeer(p) \/ Handshake(p) \/ LinkTimeout(p)
ServerThread(p) == \/ ServerCheck(p) \/ ServerInitialized(p)
                   \/ StartListening(p) \/ OnConnected(p)
ServerWorker(p) == CreateHost(p)

Finished == (\A p \in Procs : life[p] = "dead") /\ UNCHANGED vars

Next == \/ \E p \in Procs : \/ GameThread(p) \/ ClientThread(p) \/ ClientWorker(p)
                            \/ ServerThread(p) \/ ServerWorker(p)
        \/ Finished

Spec == Init /\ [][Next]_vars

(* The threads run, the game updates once started, ENet answers or times out.  *)
(* Nobody has to start a game or to quit it.                                   *)
Fairness == \A p \in Procs : /\ WF_vars(NetworkInit(p)) /\ WF_vars(ClientThread(p))
                             /\ WF_vars(ClientWorker(p)) /\ WF_vars(ServerThread(p))
                             /\ WF_vars(ServerWorker(p))

FairSpec == Spec /\ Fairness

-----------------------------------------------------------------------------
(* Properties.                                                                 *)

TypeOK == /\ life \in [Procs -> {"off", "up", "dead"}]
          /\ cpc \in [Procs -> {"none", "start", "checked", "ready", "loop"}]
          /\ spc \in [Procs -> {"none", "start", "checked", "ready", "loop"}]
          /\ initialized \in [Procs -> BOOLEAN]
          /\ asserted \in [Procs -> BOOLEAN]
          /\ host \in [Procs -> {"none", "starting", "bound", "failed"}]
          /\ link \in [Procs -> {"none", "starting", "connecting", "connected",
                                 "lost", "failed"}]
          /\ server \in [Procs -> Procs \union {Nobody}]
          /\ is_host \in [Procs -> BOOLEAN]

Alive(p) == life[p] = "up"

Hosts == {p \in Procs : Alive(p) /\ is_host[p]}

(* network::is_host decides who spawns the enemies (hook_create_enemy_unit):   *)
(* however processes start and end, at most one living process believes it is. *)
OneHost == \A p, q \in Hosts : p = q

(* A process that once found the port taken never serves anybody, not even     *)
(* after the port is free again: its worker has ended.                         *)
LosersNeverHost ==
    \A p \in Procs : host[p] = "failed" =>
        (~is_host[p] /\ \A q \in Procs : server[q] # p)

(* A game that has started gets a connection, or ends, unless its client's     *)
(* worker ended before it had a peer: then the game plays on alone, for nobody *)
(* looks at a worker that ends without an event.                               *)
Joins == \A p \in Procs :
    Alive(p) ~> (link[p] \in {"connected", "failed"} \/ ~Alive(p))

(* A server that has the port becomes host, if by nobody else's client then by *)
(* its own, or ends, unless its own client's worker ended without a peer.      *)
HolderBecomesHost == \A p \in Procs :
    (host[p] = "bound") ~> (is_host[p] \/ ~Alive(p) \/ link[p] = "failed")

(* When the process that serves a client ends, so does the client's process.   *)
EndsWithItsHost ==
    \A p \in Procs : (/\ Alive(p) /\ server[p] # Nobody /\ life[server[p]] = "dead")
                        ~> ~Alive(p)

(* enetpp::global_state::initialize() asserts that it is called once.  (Both   *)
(* Client::Thread and Server::Thread call it.)                                 *)
InitializedOnce == \A p \in Procs : ~asserted[p]
=============================================================================
