---------------------------- MODULE SessionProofs ----------------------------
(* However many processes start, join and end: never two hosts, and no host    *)
(* among those that found the port taken.                                      *)
EXTENDS Session, TLAPS

(* The port has one holder.  What the other threads know of it follows the     *)
(* binding: is_host and the clients' servers name processes that bound it, and *)
(* only a server thread in its loop, started with the client's, has a worker.  *)
OnePort       == \A p, q \in PortHolders : p = q
HostsBound    == \A p \in Procs : is_host[p] => host[p] = "bound"
ServersBound  == \A p \in Procs : server[p] # Nobody => host[server[p]] = "bound"
WorkerStarted == \A p \in Procs : host[p] # "none" => spc[p] = "loop"
BothStarted   == \A p \in Procs : cpc[p] = "none" => spc[p] = "none"
OffIsNew      == \A p \in Procs : life[p] = "off" => host[p] = "none"

IInv == /\ TypeOK /\ OnePort /\ HostsBound /\ ServersBound
        /\ WorkerStarted /\ BothStarted /\ OffIsNew

(* A step of one process. *)
Step(p) == \/ GameThread(p) \/ ClientThread(p) \/ ClientWorker(p)
           \/ ServerThread(p) \/ ServerWorker(p)

LEMMA InitInvariant == Init => IInv
  BY DEF Init, IInv, TypeOK, OnePort, HostsBound, ServersBound, WorkerStarted,
         BothStarted, OffIsNew, PortHolders

(* Each variable keeps its type. *)
LEMMA StepTypeOK ==
  ASSUME TypeOK, NEW p \in Procs, Step(p)
  PROVE  TypeOK'
  <1> USE DEF TypeOK, threadVars, netVars
  <1>1. CASE GameThread(p)
    BY <1>1 DEF GameThread, Start, Quit, NetworkInit
  <1>2. CASE ClientThread(p)
    BY <1>2 DEF ClientThread, ClientCheck, ClientInitialized, CheckInitialized,
                Connect, Terminate
  <1>3. CASE ClientWorker(p)
    BY <1>3 DEF ClientWorker, CreatePeer, Handshake, LinkTimeout, PortHolders
  <1>4. CASE ServerThread(p)
    BY <1>4 DEF ServerThread, ServerCheck, ServerInitialized, CheckInitialized,
                StartListening, OnConnected
  <1>5. CASE ServerWorker(p)
    BY <1>5 DEF ServerWorker, CreateHost, BindOutcomes
  <1> QED  BY <1>1, <1>2, <1>3, <1>4, <1>5 DEF Step

(* Steps that change neither a worker, nor who is host, nor a connection keep  *)
(* the invariant when they start no process that has a worker.                 *)
LEMMA Unbound ==
  ASSUME IInv, TypeOK', BothStarted', UNCHANGED <<host, is_host, server>>,
         \A p \in Procs : /\ spc[p] = "loop" => spc'[p] = "loop"
                          /\ life'[p] = "up" => life[p] \in {"up", "off"}
                          /\ life'[p] = "off" => life[p] = "off"
  PROVE  IInv'
  <1> USE DEF IInv
  <1>1. PortHolders' \subseteq PortHolders
    BY DEF PortHolders, OffIsNew
  <1>2. OnePort'
    BY <1>1 DEF OnePort
  <1> QED
    BY <1>2 DEF HostsBound, ServersBound, WorkerStarted, OffIsNew

LEMMA StepInvariant ==
  ASSUME IInv, NEW p \in Procs, Step(p)
  PROVE  IInv'
  <1>0. TypeOK /\ TypeOK'
    BY StepTypeOK DEF IInv
  <1>B. BothStarted /\ BothStarted'
    BY <1>0 DEF Step, GameThread, Start, Quit, NetworkInit, ClientThread, ClientCheck,
       ClientInitialized, Connect, Terminate, ClientWorker, CreatePeer, Handshake, LinkTimeout,
       ServerThread, ServerCheck, ServerInitialized, StartListening, OnConnected,
       ServerWorker, CreateHost, threadVars, netVars, TypeOK, IInv, BothStarted
  <1>1. CASE GameThread(p)
    BY <1>0, <1>B, <1>1, Unbound DEF GameThread, Start, Quit, NetworkInit, TypeOK,
                                 BothStarted, threadVars, netVars
  <1>2. CASE ClientThread(p)
    BY <1>0, <1>B, <1>2, Unbound
       DEF ClientThread, ClientCheck, ClientInitialized, CheckInitialized, Connect,
           Terminate, TypeOK, threadVars, netVars
  <1>3. CASE ClientWorker(p)
    <2>1. CASE CreatePeer(p) \/ LinkTimeout(p)
      BY <1>0, <1>B, <2>1, Unbound DEF CreatePeer, LinkTimeout, threadVars
    <2>2. CASE Handshake(p)
      <3> USE <2>2, <1>0, <1>B DEF Handshake, threadVars, IInv
      <3>1. OnePort' /\ HostsBound' /\ WorkerStarted' /\ OffIsNew'
        BY DEF OnePort, HostsBound, WorkerStarted, OffIsNew, PortHolders
      <3>2. ServersBound'
        BY DEF ServersBound, PortHolders, TypeOK
      <3> QED  BY <3>1, <3>2
    <2> QED  BY <1>3, <2>1, <2>2 DEF ClientWorker
  <1>4. CASE ServerThread(p)
    <2>1. CASE ServerCheck(p) \/ ServerInitialized(p)
      BY <1>0, <1>B, <2>1, Unbound
         DEF ServerCheck, ServerInitialized, CheckInitialized, TypeOK, netVars
    <2>2. CASE StartListening(p)
      <3> USE <2>2, <1>0, <1>B DEF StartListening, IInv, TypeOK
      <3>1. host[p] = "none"
        BY DEF WorkerStarted
      <3>2. PortHolders' = PortHolders
        BY <3>1 DEF PortHolders
      <3>3. OnePort' /\ HostsBound' /\ WorkerStarted' /\ OffIsNew'
        BY <3>1, <3>2 DEF OnePort, HostsBound, WorkerStarted, OffIsNew
      <3>4. ServersBound'
        BY <3>1, NobodyAssumption DEF ServersBound
      <3> QED  BY <3>3, <3>4
    <2>3. CASE OnConnected(p)
      <3> USE <2>3, <1>0, <1>B DEF OnConnected, IInv, threadVars
      <3>1. host[p] = "bound"
        BY NobodyAssumption DEF ServersBound
      <3>2. HostsBound'
        BY <3>1 DEF HostsBound, TypeOK
      <3>3. OnePort' /\ ServersBound' /\ WorkerStarted' /\ OffIsNew'
        BY DEF OnePort, ServersBound, WorkerStarted, OffIsNew, PortHolders
      <3> QED  BY <3>2, <3>3
    <2> QED  BY <1>4, <2>1, <2>2, <2>3 DEF ServerThread
  <1>5. CASE ServerWorker(p)
    <2> USE <1>5, <1>0, <1>B DEF ServerWorker, CreateHost, IInv, TypeOK, threadVars
    <2>1. PortHolders' \subseteq PortHolders \union {p}
      BY DEF PortHolders
    <2>2. PortHolders # {} => PortHolders' \subseteq PortHolders
      BY DEF PortHolders, BindOutcomes
    <2>3. OnePort'
      BY <2>1, <2>2 DEF OnePort
    <2>4. HostsBound' /\ ServersBound' /\ WorkerStarted' /\ OffIsNew'
      BY NobodyAssumption DEF HostsBound, ServersBound, WorkerStarted, OffIsNew, BindOutcomes
    <2> QED  BY <2>3, <2>4
  <1> QED  BY <1>1, <1>2, <1>3, <1>4, <1>5 DEF Step

(* The invariant holds in every state of every behaviour. *)
THEOREM Invariant == Spec => []IInv
  <1>1. IInv /\ [Next]_vars => IInv'
    <2> SUFFICES ASSUME IInv, [Next]_vars PROVE IInv'
      OBVIOUS
    <2>1. CASE \E p \in Procs : Step(p)
      BY <2>1, StepInvariant
    <2>2. CASE UNCHANGED vars
      BY <2>2 DEF IInv, TypeOK, OnePort, HostsBound, ServersBound, WorkerStarted,
                  BothStarted, OffIsNew, PortHolders, vars, threadVars, netVars
    <2> QED  BY <2>1, <2>2 DEF Next, Step, Finished
  <1> QED  BY InitInvariant, <1>1, PTL DEF Spec

(* Every variable of the session model keeps its type. *)
THEOREM TypeCorrect == Spec => []TypeOK
  BY Invariant, PTL DEF IInv

(* network::is_host is set in at most one living process: only who bound the   *)
(* port is ever connected to, and the port has one holder.                     *)
THEOREM AtMostOneHost == Spec => []OneHost
  <1>1. IInv => OneHost
    BY DEF IInv, OneHost, Hosts, Alive, OnePort, HostsBound, PortHolders
  <1> QED  BY <1>1, Invariant, PTL

(* A process whose server found the port taken is never host and never serves  *)
(* a client, whatever becomes of the holder later.                             *)
THEOREM LoserNeverHosts == Spec => []LosersNeverHost
  <1>1. IInv => LosersNeverHost
    BY NobodyAssumption DEF IInv, LosersNeverHost, HostsBound, ServersBound
  <1> QED  BY <1>1, Invariant, PTL
=============================================================================
