---------------------------- MODULE ObserverLink ----------------------------
(***************************************************************************)
(* The connection between a formulator and the observers, seen from both  *)
(* ends:                                                                   *)
(*  - FormulatorNodeMesh (src/pof/formulator_mesh.go): one Run loop per    *)
(*    observer, which dials when peerMap has no entry and then blocks in   *)
(*    client until the connection is over, 1s between attempts;            *)
(*  - FormulatorService (src/pof/observer_formulator_service.go): the      *)
(*    observer's server, one goroutine per accepted connection.            *)
(* Both ends do RemovePeer(ID), install peerMap[ID] = p, defer             *)
(* RemovePeer(p.ID()); RemovePeer works by ID, not by peer.  Each end of a *)
(* TCP connection is closed on its own (Close, or a read or ping timeout); *)
(* the other end sees it later.  The handshakes are abstracted: a failed   *)
(* one never reaches a map.  One formulator is modelled.                   *)
(***************************************************************************)
EXTENDS Integers, FiniteSets, TLC

CONSTANTS
  Obs,               \* observers of the formulator's NetAddressMap
  Slots,             \* connection objects
  None,              \* no entry
  MaxDrops,          \* ends the network or a timeout may break
  RedialAfterUnwind  \* timing: the 1s redial sleep outlasts every server
                     \* goroutine that is not blocked reading an open end

ASSUME None \notin Slots /\ MaxDrops \in Nat /\ RedialAfterUnwind \in BOOLEAN

VARIABLES
  fPeerMap,     \* FormulatorNodeMesh.peerMap: observer -> slot
  oPeerMap,     \* each observer's FormulatorService.peerMap[formulator]
  conn,         \* slot -> the connection, its ends and their goroutines
  obStatusMap,  \* fr.obStatusMap: observers with a status entry
  drops         \* remaining breaks

vars == <<fPeerMap, oPeerMap, conn, obStatusMap, drops>>

(* pc of the goroutine at each end: "remove" (RemovePeer(ID) before       *)
(* installing), "install", "serve" (handleConnection), "cleanup" (the     *)
(* defers), "none" (no goroutine).                                        *)
PCs == {"none", "remove", "install", "serve", "cleanup"}

Conn == [ob : Obs \cup {None}, f : PCs, o : PCs, fOpen : BOOLEAN,
         oOpen : BOOLEAN]

FreeConn == [ob |-> None, f |-> "none", o |-> "none", fOpen |-> FALSE,
             oOpen |-> FALSE]

Entries == {fPeerMap[o] : o \in Obs} \cup {oPeerMap[o] : o \in Obs}

Reusable(s) == conn[s].f = "none" /\ conn[s].o = "none" /\ s \notin Entries

\* The table after p.Close() of one end (nothing when there is no peer).
CloseF(cn, p) == IF p = None THEN cn ELSE [cn EXCEPT ![p].fOpen = FALSE]
CloseO(cn, p) == IF p = None THEN cn ELSE [cn EXCEPT ![p].oOpen = FALSE]

-----------------------------------------------------------------------------
(* FormulatorNodeMesh.                                                     *)

\* Mutant: client runs in a new goroutine per attempt (go ms.client), so
\* the loop does not wait for the previous connection to end.
RunLoopNoWait(o) ==
  /\ fPeerMap[o] = None
  /\ RedialAfterUnwind =>
       \A s \in Slots : conn[s].ob = o =>
         \/ conn[s].o = "none"
         \/ conn[s].o = "serve" /\ conn[s].oOpen
  /\ \E s \in Slots :
       /\ Reusable(s)
       /\ conn' = [conn EXCEPT ![s] = [ob |-> o, f |-> "remove",
                                       o |-> "remove", fOpen |-> TRUE,
                                       oOpen |-> TRUE]]
  /\ UNCHANGED <<fPeerMap, oPeerMap, obStatusMap, drops>>

\* Run: the loop of observer o dials when peerMap has no entry; client's
\* dial and both handshakes succeed and the server starts its goroutine.
RunLoop(o) ==
  /\ ~\E s \in Slots : conn[s].ob = o /\ conn[s].f # "none"
  /\ fPeerMap[o] = None
  /\ RedialAfterUnwind =>
       \A s \in Slots : conn[s].ob = o =>
         \/ conn[s].o = "none"
         \/ conn[s].o = "serve" /\ conn[s].oOpen
  /\ \E s \in Slots :
       /\ Reusable(s)
       /\ conn' = [conn EXCEPT ![s] = [ob |-> o, f |-> "remove",
                                       o |-> "remove", fOpen |-> TRUE,
                                       oOpen |-> TRUE]]
  /\ UNCHANGED <<fPeerMap, oPeerMap, obStatusMap, drops>>

\* client: ms.RemovePeer(ID).
FRemove(s) ==
  LET o == conn[s].ob IN
  /\ conn[s].f = "remove"
  /\ fPeerMap' = [fPeerMap EXCEPT ![o] = None]
  /\ conn' = [CloseF(conn, fPeerMap[o]) EXCEPT ![s].f = "install"]
  /\ UNCHANGED <<oPeerMap, obStatusMap, drops>>

\* Mutant: the status entry is keyed by the peer instead of p.ID().
FInstallStatusByPeer(s) ==
  /\ conn[s].f = "install"
  /\ fPeerMap' = [fPeerMap EXCEPT ![conn[s].ob] = s]
  /\ conn' = [conn EXCEPT ![s].f = "serve"]
  /\ obStatusMap' = obStatusMap \cup {s}
  /\ UNCHANGED <<oPeerMap, drops>>

\* client: peerMap[ID] = p; handleConnection calls OnObserverConnected
\* (fr.obStatusMap[ID] = &Status{}).
FInstall(s) ==
  LET o == conn[s].ob IN
  /\ conn[s].f = "install"
  /\ fPeerMap' = [fPeerMap EXCEPT ![o] = s]
  /\ conn' = [conn EXCEPT ![s].f = "serve"]
  /\ obStatusMap' = obStatusMap \cup {o}
  /\ UNCHANGED <<oPeerMap, drops>>

\* ReadMessageData fails; the defer calls OnObserverDisconnected.
FServeEnd(s) ==
  /\ conn[s].f = "serve"
  /\ ~conn[s].fOpen
  /\ conn' = [conn EXCEPT ![s].f = "cleanup"]
  /\ obStatusMap' = obStatusMap \ {conn[s].ob}
  /\ UNCHANGED <<fPeerMap, oPeerMap, drops>>

\* Mutant: the deferred RemovePeer of client is missing.
FCleanupKeepsEntry(s) ==
  /\ conn[s].f = "cleanup"
  /\ conn' = [conn EXCEPT ![s].f = "none", ![s].fOpen = FALSE]
  /\ UNCHANGED <<fPeerMap, oPeerMap, obStatusMap, drops>>

\* The defers of client: RemovePeer(p.ID()), then conn.Close(); client
\* returns to the Run loop.
FCleanup(s) ==
  LET o == conn[s].ob IN
  /\ conn[s].f = "cleanup"
  /\ fPeerMap' = [fPeerMap EXCEPT ![o] = None]
  /\ conn' = [CloseF(conn, fPeerMap[o]) EXCEPT ![s].f = "none",
                                               ![s].fOpen = FALSE]
  /\ UNCHANGED <<oPeerMap, obStatusMap, drops>>

\* SendTo: p.Send fails on a closed peer, RemovePeer(p.ID()).
FSendFail(o) ==
  /\ fPeerMap[o] # None
  /\ ~conn[fPeerMap[o]].fOpen
  /\ fPeerMap' = [fPeerMap EXCEPT ![o] = None]
  /\ UNCHANGED <<oPeerMap, conn, obStatusMap, drops>>

-----------------------------------------------------------------------------
(* FormulatorService, the goroutine of an accepted connection.             *)

\* ms.RemovePeer(ID): the entry of this formulator, whichever it is, is
\* deleted and closed.
ORemove(s) ==
  LET o == conn[s].ob IN
  /\ conn[s].o = "remove"
  /\ oPeerMap' = [oPeerMap EXCEPT ![o] = None]
  /\ conn' = [CloseO(conn, oPeerMap[o]) EXCEPT ![s].o = "install"]
  /\ UNCHANGED <<fPeerMap, obStatusMap, drops>>

\* ms.Lock(); ms.peerMap[ID] = p; ms.Unlock(); handleConnection.
OInstall(s) ==
  /\ conn[s].o = "install"
  /\ oPeerMap' = [oPeerMap EXCEPT ![conn[s].ob] = s]
  /\ conn' = [conn EXCEPT ![s].o = "serve"]
  /\ UNCHANGED <<fPeerMap, obStatusMap, drops>>

\* ReadMessageData fails on the closed end.
OServeEnd(s) ==
  /\ conn[s].o = "serve"
  /\ ~conn[s].oOpen
  /\ conn' = [conn EXCEPT ![s].o = "cleanup"]
  /\ UNCHANGED <<fPeerMap, oPeerMap, obStatusMap, drops>>

\* The defers: ms.RemovePeer(p.ID()) by ID, then conn.Close().
OCleanup(s) ==
  LET o == conn[s].ob IN
  /\ conn[s].o = "cleanup"
  /\ oPeerMap' = [oPeerMap EXCEPT ![o] = None]
  /\ conn' = [CloseO(conn, oPeerMap[o]) EXCEPT ![s].o = "none",
                                               ![s].oOpen = FALSE]
  /\ UNCHANGED <<fPeerMap, obStatusMap, drops>>

\* FormulatorService.SendTo: p.Send fails on a closed peer, RemovePeer.
OSendFail(o) ==
  /\ oPeerMap[o] # None
  /\ ~conn[oPeerMap[o]].oOpen
  /\ oPeerMap' = [oPeerMap EXCEPT ![o] = None]
  /\ UNCHANGED <<fPeerMap, conn, obStatusMap, drops>>

-----------------------------------------------------------------------------
(* The network.                                                            *)

\* A break seen first by one end (a write error or a timeout).
Drop(s) ==
  /\ drops > 0
  /\ \/ conn[s].fOpen /\ conn' = [conn EXCEPT ![s].fOpen = FALSE]
     \/ conn[s].oOpen /\ conn' = [conn EXCEPT ![s].oOpen = FALSE]
  /\ drops' = drops - 1
  /\ UNCHANGED <<fPeerMap, oPeerMap, obStatusMap>>

\* The other end learns of a close (FIN, or its own read timeout).
Propagate(s) ==
  /\ conn[s].fOpen # conn[s].oOpen
  /\ conn' = [conn EXCEPT ![s].fOpen = FALSE, ![s].oOpen = FALSE]
  /\ UNCHANGED <<fPeerMap, oPeerMap, obStatusMap, drops>>

-----------------------------------------------------------------------------
Init ==
  /\ fPeerMap = [o \in Obs |-> None]
  /\ oPeerMap = [o \in Obs |-> None]
  /\ conn = [s \in Slots |-> FreeConn]
  /\ obStatusMap = {}
  /\ drops = MaxDrops

Next ==
  \/ \E o \in Obs : RunLoop(o) \/ FSendFail(o) \/ OSendFail(o)
  \/ \E s \in Slots :
       \/ FRemove(s) \/ FInstall(s) \/ FServeEnd(s) \/ FCleanup(s)
       \/ ORemove(s) \/ OInstall(s) \/ OServeEnd(s) \/ OCleanup(s)
       \/ Drop(s) \/ Propagate(s)

(* The Run loops retry every second; every goroutine runs to its end; a   *)
(* close reaches the other end (FIN or read timeout).  Breaks and failed   *)
(* sends are the environment's.                                           *)
Fairness ==
  /\ \A o \in Obs : WF_vars(RunLoop(o))
  /\ \A s \in Slots :
       /\ WF_vars(FRemove(s)) /\ WF_vars(FInstall(s)) /\ WF_vars(FServeEnd(s))
       /\ WF_vars(FCleanup(s)) /\ WF_vars(ORemove(s)) /\ WF_vars(OInstall(s))
       /\ WF_vars(OServeEnd(s)) /\ WF_vars(OCleanup(s)) /\ WF_vars(Propagate(s))

Spec == Init /\ [][Next]_vars /\ Fairness

-----------------------------------------------------------------------------
TypeOK ==
  /\ fPeerMap \in [Obs -> Slots \cup {None}]
  /\ oPeerMap \in [Obs -> Slots \cup {None}]
  /\ conn \in [Slots -> Conn]
  /\ obStatusMap \subseteq Obs
  /\ drops \in 0..MaxDrops

\* Open ends of connections other than s.
OthersOpen(s) == {t \in Slots \ {s} : conn[t].fOpen} \X {"f"}
                 \cup {t \in Slots \ {s} : conn[t].oOpen} \X {"o"}
OthersOpenAfter(s) == {t \in Slots \ {s} : conn'[t].fOpen} \X {"f"}
                      \cup {t \in Slots \ {s} : conn'[t].oOpen} \X {"o"}

\* The formulator's deferred RemovePeer(p.ID()), run when a connection to
\* an observer is over, never closes another connection.
FormulatorCleanupOwnOnly ==
  [][\A s \in Slots :
       conn[s].f = "cleanup" /\ conn'[s].f = "none"
         => OthersOpen(s) \subseteq OthersOpenAfter(s)]_vars

\* The observer's deferred RemovePeer(p.ID()) in FormulatorService.server
\* never closes a newer connection of the same formulator.
ObserverCleanupOwnOnly ==
  [][\A s \in Slots :
       conn[s].o = "cleanup" /\ conn'[s].o = "none"
         => OthersOpen(s) \subseteq OthersOpenAfter(s)]_vars

\* An observer peer the formulator serves has an obStatusMap entry, so its
\* StatusMessages are recorded and tryRequestNext may ask it for blocks.
ObStatusOfLivePeer ==
  \A o \in Obs :
    fPeerMap[o] # None /\ conn[fPeerMap[o]].f = "serve"
      /\ conn[fPeerMap[o]].fOpen => o \in obStatusMap

\* Once the network stops breaking connections, every observer ends up
\* linked: both peerMaps hold the same open connection.
LinkUp ==
  \A o \in Obs :
    <>[](/\ fPeerMap[o] # None
         /\ oPeerMap[o] = fPeerMap[o]
         /\ conn[fPeerMap[o]].fOpen /\ conn[fPeerMap[o]].oOpen)

=============================================================================
