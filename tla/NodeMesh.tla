------------------------------ MODULE NodeMesh ------------------------------
(***************************************************************************)
(* The node-to-node mesh of src/service/p2p/node_mesh.go, with the        *)
(* FormulatorNode as its Handler (OnConnected / OnDisconnected keep        *)
(* fr.statusMap, src/pof/formulator_node.go).                              *)
(*                                                                         *)
(* Goroutines:                                                             *)
(*  - one Run loop per seed node, which dials only when neither map holds *)
(*    the node and then blocks inside client until it returns;            *)
(*  - RequestConnect, which runs client in a new goroutine whatever the    *)
(*    maps hold;                                                           *)
(*  - one server goroutine per accepted connection;                       *)
(*  - the send loop, whose SendTo removes a peer whose Send failed.        *)
(* A connection lives in a slot; a slot is reused only once no map entry  *)
(* and no goroutine refers to it any more.  The handshake is abstracted:  *)
(* a connection that fails it never reaches a map and changes nothing.    *)
(***************************************************************************)
EXTENDS Integers, FiniteSets, TLC

CONSTANTS
  Ids,          \* remote node public hashes (all of them seeds)
  Slots,        \* connection objects
  None,         \* no entry
  MaxDrops,     \* connections the network or the remote may break
  MaxRequests,  \* RequestConnect calls (node pool manager)
  MaxAccepts    \* incoming connections accepted by server

ASSUME None \notin Slots /\ None \notin Ids
ASSUME {MaxDrops, MaxRequests, MaxAccepts} \subseteq Nat

VARIABLES
  clientPeerMap,  \* ID -> slot of the outgoing peer
  serverPeerMap,  \* ID -> slot of the incoming peer
  conn,           \* slot -> the connection and the goroutine serving it
  statusMap,      \* fr.statusMap: IDs with a status entry
  budget          \* remaining drops, RequestConnect calls and accepts

vars == <<clientPeerMap, serverPeerMap, conn, statusMap, budget>>

(* pc of a connection's goroutine: "install" (handshake done, about to    *)
(* take the lock), "replace" (removing the previous entry), "serve"       *)
(* (handleConnection), "cleanup" (the defers), "free" (slot unused).     *)
PCs == {"free", "install", "replace", "serve", "cleanup"}

Conn == [id : Ids \cup {None}, side : {"client", "server"}, open : BOOLEAN,
         pc : PCs, loop : BOOLEAN]

FreeConn == [id |-> None, side |-> "client", open |-> FALSE, pc |-> "free",
             loop |-> FALSE]

Entries == {clientPeerMap[i] : i \in Ids} \cup {serverPeerMap[i] : i \in Ids}

\* A slot nobody refers to any more: a new net.Conn may take it.
Reusable(s) == conn[s].pc = "free" /\ s \notin Entries

\* The Run loop goroutine of id is inside ms.client.
LoopBusy(id) == \E s \in Slots : conn[s].loop /\ conn[s].id = id

-----------------------------------------------------------------------------
\* The connection table after p.Close() (nothing when there is no peer).
CloseSlot(cn, p) == IF p = None THEN cn ELSE [cn EXCEPT ![p].open = FALSE]

\* A new connection to or from id, after a successful handshake.
Open(id, side, loop) ==
  \E s \in Slots :
    /\ Reusable(s)
    /\ conn' = [conn EXCEPT ![s] = [id |-> id, side |-> side, open |-> TRUE,
                                    pc |-> "install", loop |-> loop]]

\* Run: the per-seed loop dials when neither map holds the node.
RunLoop(id) ==
  /\ ~LoopBusy(id)
  /\ clientPeerMap[id] = None
  /\ serverPeerMap[id] = None
  /\ Open(id, "client", TRUE)
  /\ UNCHANGED <<clientPeerMap, serverPeerMap, statusMap, budget>>

\* RequestConnect: go ms.client(...), unconditionally.
RequestConnect(id) ==
  /\ budget.requests > 0
  /\ Open(id, "client", FALSE)
  /\ budget' = [budget EXCEPT !.requests = @ - 1]
  /\ UNCHANGED <<clientPeerMap, serverPeerMap, statusMap>>

\* server: lstn.Accept and the handshake of an incoming connection.
Accept(id) ==
  /\ budget.accepts > 0
  /\ Open(id, "server", FALSE)
  /\ budget' = [budget EXCEPT !.accepts = @ - 1]
  /\ UNCHANGED <<clientPeerMap, serverPeerMap, statusMap>>

\* Mutant: the status entry is keyed by the peer instead of p.ID().
InstallStatusByPeer(s) ==
  LET c == conn[s]
      old == IF c.side = "client" THEN clientPeerMap[c.id]
                                  ELSE serverPeerMap[c.id]
  IN
  /\ c.pc = "install"
  /\ IF c.side = "client"
       THEN /\ clientPeerMap' = [clientPeerMap EXCEPT ![c.id] = s]
            /\ UNCHANGED serverPeerMap
       ELSE /\ serverPeerMap' = [serverPeerMap EXCEPT ![c.id] = s]
            /\ UNCHANGED clientPeerMap
  /\ IF old = None
       THEN /\ conn' = [conn EXCEPT ![s].pc = "serve"]
            /\ statusMap' = statusMap \cup {s}
       ELSE /\ conn' = [conn EXCEPT ![s].pc = "replace"]
            /\ UNCHANGED statusMap
  /\ UNCHANGED budget

\* client / server after the handshake: under ms.Lock, old = map[ID] and
\* map[ID] = p.  Without an old entry handleConnection starts at once and
\* calls OnConnected (fr.statusMap[ID] = &Status{}).
Install(s) ==
  LET c == conn[s]
      old == IF c.side = "client" THEN clientPeerMap[c.id]
                                  ELSE serverPeerMap[c.id]
  IN
  /\ c.pc = "install"
  /\ IF c.side = "client"
       THEN /\ clientPeerMap' = [clientPeerMap EXCEPT ![c.id] = s]
            /\ UNCHANGED serverPeerMap
       ELSE /\ serverPeerMap' = [serverPeerMap EXCEPT ![c.id] = s]
            /\ UNCHANGED clientPeerMap
  /\ IF old = None
       THEN /\ conn' = [conn EXCEPT ![s].pc = "serve"]
            /\ statusMap' = statusMap \cup {c.id}
       ELSE /\ conn' = [conn EXCEPT ![s].pc = "replace"]
            /\ UNCHANGED statusMap
  /\ UNCHANGED budget

\* if has { ms.removePeerInMap(old.ID(), ...) }.  removePeerInMap looks up,
\* deletes and closes the clientPeerMap entry whatever map it is given, and
\* old.ID() is ID: the entry removed is whatever clientPeerMap holds now.
\* Then handleConnection calls OnConnected.
Replace(s) ==
  LET c == conn[s]
      p == clientPeerMap[c.id]
  IN
  /\ c.pc = "replace"
  /\ clientPeerMap' = [clientPeerMap EXCEPT ![c.id] = None]
  /\ conn' = [CloseSlot(conn, p) EXCEPT ![s].pc = "serve"]
  /\ statusMap' = statusMap \cup {c.id}
  /\ UNCHANGED <<serverPeerMap, budget>>

\* handleConnection returns once ReadMessageData fails on the closed
\* connection; its defer calls OnDisconnected: delete(fr.statusMap, ID).
ServeEnd(s) ==
  /\ conn[s].pc = "serve"
  /\ ~conn[s].open
  /\ conn' = [conn EXCEPT ![s].pc = "cleanup"]
  /\ statusMap' = statusMap \ {conn[s].id}
  /\ UNCHANGED <<clientPeerMap, serverPeerMap, budget>>

\* The defers of client / server, last in first out: removePeerInMap(p.ID())
\* (the clientPeerMap entry of ID, for the server goroutine too), then
\* conn.Close(); the goroutine ends and the Run loop may dial again.
Cleanup(s) ==
  LET id == conn[s].id
      p == clientPeerMap[id]
  IN
  /\ conn[s].pc = "cleanup"
  /\ clientPeerMap' = [clientPeerMap EXCEPT ![id] = None]
  /\ conn' = [CloseSlot(conn, p) EXCEPT ![s] = FreeConn]
  /\ UNCHANGED <<serverPeerMap, statusMap, budget>>

\* The remote or the network closes an open connection.
Drop(s) ==
  /\ budget.drops > 0
  /\ conn[s].pc # "free"
  /\ conn[s].open
  /\ conn' = [conn EXCEPT ![s].open = FALSE]
  /\ budget' = [budget EXCEPT !.drops = @ - 1]
  /\ UNCHANGED <<clientPeerMap, serverPeerMap, statusMap>>

\* SendTo: the client entry, else the server entry; when p.Send fails on
\* a closed peer, RemovePeer(ID) deletes and closes both entries of ID.
SendTo(id) ==
  LET p == IF clientPeerMap[id] # None THEN clientPeerMap[id]
                                       ELSE serverPeerMap[id]
  IN
  /\ p # None
  /\ ~conn[p].open
  /\ clientPeerMap' = [clientPeerMap EXCEPT ![id] = None]
  /\ serverPeerMap' = [serverPeerMap EXCEPT ![id] = None]
  /\ conn' = CloseSlot(CloseSlot(conn, clientPeerMap[id]), serverPeerMap[id])
  /\ UNCHANGED <<statusMap, budget>>

-----------------------------------------------------------------------------
Init ==
  /\ clientPeerMap = [i \in Ids |-> None]
  /\ serverPeerMap = [i \in Ids |-> None]
  /\ conn = [s \in Slots |-> FreeConn]
  /\ statusMap = {}
  /\ budget = [drops |-> MaxDrops, requests |-> MaxRequests,
               accepts |-> MaxAccepts]

Next ==
  \/ \E id \in Ids : RunLoop(id) \/ RequestConnect(id) \/ Accept(id)
                     \/ SendTo(id)
  \/ \E s \in Slots : Install(s) \/ Replace(s) \/ ServeEnd(s) \/ Cleanup(s)
                     \/ Drop(s)

(* The Run loop sleeps 30s and tries again; a connection goroutine runs   *)
(* to its end once scheduled, and a read on a closed connection fails.    *)
(* Drops, RequestConnect, accepts and sends are the environment's.        *)
Fairness ==
  /\ \A id \in Ids : WF_vars(RunLoop(id))
  /\ \A s \in Slots : WF_vars(Install(s)) /\ WF_vars(Replace(s))
                     /\ WF_vars(ServeEnd(s)) /\ WF_vars(Cleanup(s))

Spec == Init /\ [][Next]_vars /\ Fairness

-----------------------------------------------------------------------------
TypeOK ==
  /\ clientPeerMap \in [Ids -> Slots \cup {None}]
  /\ serverPeerMap \in [Ids -> Slots \cup {None}]
  /\ conn \in [Slots -> Conn]
  /\ statusMap \subseteq Ids
  /\ budget \in [drops : 0..MaxDrops, requests : 0..MaxRequests,
                 accepts : 0..MaxAccepts]

\* Every seed node eventually stays connected through one of the maps once
\* the network stops breaking connections: the Run loop redials.
SeedConnected ==
  \A id \in Ids :
    <>[](\E s \in {clientPeerMap[id], serverPeerMap[id]} \ {None} : conn[s].open)

=============================================================================
