------------------------------ MODULE BlockSync ------------------------------
(***************************************************************************)
(* Block synchronisation of the Formulator (src/pof/formulator_node.go):   *)
(* how the tip advances from blocks fetched from node peers and observers. *)
(*                                                                         *)
(* Threads that touch the sync state:                                      *)
(*  - the recv goroutine of Run, popping recvQueues[0] (StatusMessage,     *)
(*    BlockMessage) and running handlePeerMessage; an error return makes   *)
(*    it RemovePeer the sender;                                            *)
(*  - one connection goroutine per observer, running handleObserverMessage *)
(*    (StatusMessage, BlockMessage) on each message it reads;              *)
(*  - the 50ms blockTimer (apply blockQ) and 500ms blockRequestTimer       *)
(*    (tryRequestBlocks, tryRequestNext) cases of Run;                     *)
(*  - the requestNodeTimer and requestTimer loops, which forget expired    *)
(*    entries (neither has a handler);                                     *)
(*  - the OnDisconnected / OnObserverDisconnected callbacks of the meshes. *)
(*                                                                         *)
(* The remotes are the environment: node peers and observers have a chain *)
(* of some height, answer RequestMessage with the blocks they have (the   *)
(* RequestMessage case of the same handler), and announce their height.   *)
(* A Byzantine node peer answers with blocks of its own.  A block is the  *)
(* record [h, ok]: ok means it is the block the observers agreed on, and  *)
(* two blocks of one height have the same header hash iff they are equal. *)
(***************************************************************************)
EXTENDS Integers, Sequences, FiniteSets, TLC

CONSTANTS
  Peers,       \* node peer ids of the NodeMesh
  Byzantine,   \* node peers that answer with blocks nobody agreed on
  Obs,         \* observer ids of the FormulatorNodeMesh
  MaxHeight,   \* height of the agreed chain
  Window,      \* blocks per RequestMessage (the literal 10 of the code)
  Windows,     \* windows tryRequestBlocks walks (the literal 10)
  QueueMax,    \* bound on unread messages per queue
  MaxDrops,    \* bound on connection losses
  None

ASSUME /\ Byzantine \subseteq Peers
       /\ MaxHeight \in Nat \ {0}
       /\ Window \in Nat \ {0}
       /\ Windows \in Nat \ {0}
       /\ QueueMax \in Nat \ {0}
       /\ MaxDrops \in Nat

VARIABLES
  tip,          \* cn.Provider().Height()
  blockQ,       \* fr.blockQ: queued blocks, at most one per height
  statusMap,    \* node peer -> advertised height, None = no entry
  obStatusMap,  \* observer -> advertised height, None = no entry
  nodeTimer,    \* requestNodeTimer: height -> peer asked, None = no entry
  obTimer,      \* requestTimer: height -> observer asked, None = no entry
  link,         \* connection of a remote: "up", "closing" (closed, its
                \* disconnect callback not run yet) or "down"
  remoteH,      \* environment: height of each remote's chain
  pending,      \* environment: RequestMessages a remote has not answered
  recvQ,        \* recvQueues[0]: messages from node peers
  obIn,         \* unread messages on each observer connection
  panicked,     \* history: handleObserverMessage panicked
  drops         \* connection losses left

vars == <<tip, blockQ, statusMap, obStatusMap, nodeTimer, obTimer, link,
          remoteH, pending, recvQ, obIn, panicked, drops>>

Remotes == Peers \cup Obs
Heights == 1..MaxHeight
Block == [h : Heights, ok : BOOLEAN]
StatusMsg == [type : {"status"}, height : 0..MaxHeight, ok : BOOLEAN]
BlocksMsg == [type : {"blocks"}, blocks : Seq(Block)]
Request == [height : Heights, count : 0..Window]

MinOf(a, b) == IF a < b THEN a ELSE b

\* The block of height h a remote sends: its own when it is Byzantine.
BlockOf(r, h) == [h |-> h, ok |-> r \notin Byzantine]

Queued(h) == \E b \in blockQ : b.h = h

-----------------------------------------------------------------------------
(* Requests.  sendRequestBlockToNode and sendRequestBlockTo are not in    *)
(* this repository: by spec 4.5 they send a RequestMessage{height, count} *)
(* and track each height in the Request Timer with the peer as value.     *)
(* The send goes through sendQueues and SendTo: to a remote whose         *)
(* connection is gone it fails, and only the timer entries remain.        *)

Send(r, rq, pd) ==
  IF link[r] = "up" THEN [pd EXCEPT ![r] = @ \cup {rq}] ELSE pd

\* One window of a request loop: count-Window request when no height of
\* the window is tracked, else one count-1 request per untracked height.
\* r = [tm, pd] holds the timer and the pending requests so far.
RequestWindow(p, base, limit, r) ==
  LET hs   == {i \in base + 1..MinOf(base + Window, limit) : r.tm[i] = None}
      reqs == IF Cardinality(hs) = Window
              THEN {[height |-> base + 1, count |-> Window]}
              ELSE {[height |-> i, count |-> 1] : i \in hs}
  IN [tm |-> [i \in Heights |-> IF i \in hs THEN p ELSE r.tm[i]],
      pd |-> [x \in Remotes |-> IF x = p THEN r.pd[x] \cup
                                   (IF link[p] = "up" THEN reqs ELSE {})
                                 ELSE r.pd[x]]]

\* The q loop of tryRequestBlocks: per window, any peer whose status
\* covers the whole window, else any whose status reaches its base (the
\* first hit of a map iteration); no such peer ends the loop.  The set of
\* possible outcomes.
RECURSIVE TryRequestBlocksFrom(_, _, _, _)
TryRequestBlocksFrom(q, h, sm, r) ==
  LET base == h + q * Window
      full == {p \in Peers : sm[p] # None /\ base + Window <= sm[p]}
      part == {p \in Peers : sm[p] # None /\ base <= sm[p]}
      cands == IF full # {} THEN full ELSE part
  IN IF q >= Windows \/ cands = {} THEN {r}
     ELSE UNION {TryRequestBlocksFrom(q + 1, h, sm,
                   RequestWindow(p, base, sm[p], r)) : p \in cands}

TryRequestBlocks(h, sm, tm, pd) ==
  TryRequestBlocksFrom(0, h, sm, [tm |-> tm, pd |-> pd])

\* tryRequestNext: at the tip only, ask an observer whose status covers
\* it, unless the height is tracked or queued.  The set of outcomes.
TryRequestNext(h, osm, tm, pd, q) ==
  LET t == h + 1
      cands == {o \in Obs : osm[o] # None /\ t <= osm[o]}
  IN IF t > MaxHeight \/ tm[t] # None \/ (\E b \in q : b.h = t) \/ cands = {}
     THEN {[tm |-> tm, pd |-> pd]}
     ELSE {[tm |-> [tm EXCEPT ![t] = o],
            pd |-> Send(o, [height |-> t, count |-> 1], pd)] : o \in cands}

\* The request loop of the StatusMessage case of handlePeerMessage: every
\* window from the tip up to the advertised height, from the sender.
RECURSIVE StatusRequests(_, _, _, _, _)
StatusRequests(p, q, h, limit, r) ==
  LET base == h + q * Window
  IN IF q >= Windows \/ base > limit THEN r
     ELSE StatusRequests(p, q + 1, h, limit, RequestWindow(p, base, limit, r))

-----------------------------------------------------------------------------
(* addBlock (lines 881-902) and the blockTimer loop.                       *)

\* A block at or below the tip is compared with ours; above it,
\* blockQ.FindOrInsert keeps the first block of each height and a
\* different one is a forked block.
AddBlock(b, h, q) ==
  IF b.h <= h THEN [q |-> q, fork |-> ~b.ok]
  ELSE IF \E x \in q : x.h = b.h
       THEN [q |-> q, fork |-> \E x \in q : x.h = b.h /\ x # b]
       ELSE [q |-> q \cup {b}, fork |-> FALSE]

\* The loop over msg.Blocks: it stops at the first error.
RECURSIVE AddBlocks(_, _, _)
AddBlocks(bs, h, q) ==
  IF bs = <<>> THEN [q |-> q, fork |-> FALSE]
  ELSE LET r == AddBlock(Head(bs), h, q)
       IN IF r.fork THEN r ELSE AddBlocks(Tail(bs), h, r.q)

LastHeight(bs) == bs[Len(bs)].h

\* The status update of a BlockMessage: height only increases.
Raise(m, x, bs) ==
  IF bs # <<>> /\ m[x] # None /\ m[x] < LastHeight(bs)
  THEN [m EXCEPT ![x] = LastHeight(bs)] ELSE m

\* blockQ.PopUntil(TargetHeight): the lowest block, if it is not above.
PopUntil(q, t) == {b \in q : b.h <= t /\ \A x \in q : b.h <= x.h}

\* ConnectBlock is external: it accepts the agreed block above the tip.
RECURSIVE ApplyQueue(_, _)
ApplyQueue(h, q) ==
  IF PopUntil(q, h + 1) = {} THEN [tip |-> h, q |-> q]
  ELSE LET b == CHOOSE x \in PopUntil(q, h + 1) : TRUE
       IN IF b.h = h + 1 /\ b.ok THEN ApplyQueue(h + 1, q \ {b})
          ELSE [tip |-> h, q |-> q \ {b}]

\* nm.RemovePeer / closing an observer connection: the socket closes and
\* what the remote had not answered is lost; the disconnect callback runs
\* later, when the connection goroutine ends.
Close(r, pd) == [pd EXCEPT ![r] = {}]
CloseLink(r) ==
  IF link[r] = "up" THEN [link EXCEPT ![r] = "closing"] ELSE link

-----------------------------------------------------------------------------
(* The recv goroutine of Run (lines 185-206) with handlePeerMessage.       *)

\* StatusMessage (lines 477-521).
RecvStatus(p, m) ==
  /\ statusMap' = IF statusMap[p] # None /\ statusMap[p] < m.height
                  THEN [statusMap EXCEPT ![p] = m.height] ELSE statusMap
  /\ IF tip < m.height
     THEN LET r == StatusRequests(p, 0, tip, m.height,
                                  [tm |-> nodeTimer, pd |-> pending])
          IN /\ nodeTimer' = r.tm
             /\ pending' = r.pd
             /\ UNCHANGED link
     \* Hash(msg.Height) differs from msg.LastHash: RemovePeer.
     ELSE /\ link' = IF m.ok THEN link ELSE CloseLink(p)
          /\ pending' = IF m.ok THEN pending ELSE Close(p, pending)
          /\ UNCHANGED nodeTimer
  /\ UNCHANGED blockQ

\* BlockMessage (lines 522-543): a forked block makes the handler
\* RemovePeer the sender and return the error, on which the recv loop
\* RemovePeers it again.
RecvBlocks(p, m) ==
  LET r == AddBlocks(m.blocks, tip, blockQ)
  IN /\ blockQ' = r.q
     /\ IF r.fork
        THEN /\ link' = CloseLink(p)
             /\ pending' = Close(p, pending)
             /\ UNCHANGED statusMap
        ELSE /\ statusMap' = Raise(statusMap, p, m.blocks)
             /\ UNCHANGED <<link, pending>>
     /\ UNCHANGED nodeTimer

RecvStep ==
  /\ ~panicked
  /\ recvQ # <<>>
  /\ LET p == Head(recvQ).from
         m == Head(recvQ).msg
     IN IF m.type = "status" THEN RecvStatus(p, m) ELSE RecvBlocks(p, m)
  /\ recvQ' = Tail(recvQ)
  /\ UNCHANGED <<tip, obStatusMap, obTimer, remoteH, obIn, panicked, drops>>

-----------------------------------------------------------------------------
(* The observer connection goroutine with handleObserverMessage.           *)

\* Mutant: TargetHeight starts at the tip instead of the height above it.
ObStatusFromTip(o, m) ==
  LET ts == {t \in tip..m.height : t = 0 \/ (obTimer[t] = None /\ ~Queued(t))}
  IN /\ obStatusMap' = IF obStatusMap[o] # None /\ obStatusMap[o] < m.height
                       THEN [obStatusMap EXCEPT ![o] = m.height]
                       ELSE obStatusMap
     /\ obTimer' = [t \in Heights |-> IF t \in ts THEN o ELSE obTimer[t]]
     /\ pending' = [pending EXCEPT ![o] =
                      @ \cup {[height |-> t, count |-> 0] : t \in ts}]
     /\ UNCHANGED <<blockQ, panicked>>

\* StatusMessage (lines 841-861): ask this observer for every height up
\* to its status that is neither tracked nor queued; RequestMessage{Height}
\* leaves Count at 0.
ObStatus(o, m) ==
  LET ts == {t \in tip + 1..m.height : obTimer[t] = None /\ ~Queued(t)}
  IN /\ obStatusMap' = IF obStatusMap[o] # None /\ obStatusMap[o] < m.height
                       THEN [obStatusMap EXCEPT ![o] = m.height]
                       ELSE obStatusMap
     /\ obTimer' = [t \in Heights |-> IF t \in ts THEN o ELSE obTimer[t]]
     /\ pending' = [pending EXCEPT ![o] =
                      @ \cup {[height |-> t, count |-> 0] : t \in ts}]
     /\ UNCHANGED <<blockQ, panicked>>

\* BlockMessage (lines 809-827): a forked block panics the process.
ObBlocks(o, m) ==
  LET r == AddBlocks(m.blocks, tip, blockQ)
      osm == Raise(obStatusMap, o, m.blocks)
  IN /\ blockQ' = r.q
     /\ IF r.fork
        THEN /\ panicked' = TRUE
             /\ UNCHANGED <<obStatusMap, obTimer, pending>>
        ELSE /\ obStatusMap' = osm
             /\ \E n \in TryRequestNext(tip, osm, obTimer, pending, r.q) :
                  /\ obTimer' = n.tm
                  /\ pending' = n.pd
             /\ UNCHANGED panicked

ObRecv(o) ==
  /\ ~panicked
  /\ link[o] = "up"
  /\ obIn[o] # <<>>
  /\ LET m == Head(obIn[o])
     IN IF m.type = "status" THEN ObStatus(o, m) ELSE ObBlocks(o, m)
  /\ obIn' = [obIn EXCEPT ![o] = Tail(@)]
  /\ UNCHANGED <<tip, statusMap, nodeTimer, link, remoteH, recvQ, drops>>

-----------------------------------------------------------------------------
(* The timer cases of Run and the Request Timers.                          *)

\* blockTimer (lines 253-285): apply blockQ under fr.Lock; on progress
\* broadcastStatus (not observed here) and tryRequestBlocks.
BlockTimer ==
  /\ ~panicked
  /\ PopUntil(blockQ, tip + 1) # {}
  /\ LET a == ApplyQueue(tip, blockQ)
     IN /\ tip' = a.tip
        /\ blockQ' = a.q
        /\ IF a.tip > tip
           THEN \E r \in TryRequestBlocks(a.tip, statusMap, nodeTimer, pending) :
                  /\ nodeTimer' = r.tm
                  /\ pending' = r.pd
           ELSE UNCHANGED <<nodeTimer, pending>>
  /\ UNCHANGED <<statusMap, obStatusMap, obTimer, link, remoteH, recvQ,
                 obIn, panicked, drops>>

\* blockRequestTimer (lines 286-289): tryRequestBlocks, then tryRequestNext.
RequestTick ==
  /\ ~panicked
  /\ \E r \in TryRequestBlocks(tip, statusMap, nodeTimer, pending) :
     \E n \in TryRequestNext(tip, obStatusMap, obTimer, r.pd, blockQ) :
       /\ nodeTimer' = r.tm
       /\ obTimer' = n.tm
       /\ pending' = n.pd
  /\ UNCHANGED <<tip, blockQ, statusMap, obStatusMap, link, remoteH, recvQ,
                 obIn, panicked, drops>>

\* An entry of requestNodeTimer expires after 2s.  The timer is built by
\* NewRequestTimer(nil) (line 83): no handler is registered, so
\* OnTimerExpired (lines 363-366) never runs and the entry is only
\* forgotten; the next blockRequestTimer tick asks again.
NodeTimerExpire(h) ==
  /\ ~panicked
  /\ nodeTimer[h] # None
  /\ nodeTimer' = [nodeTimer EXCEPT ![h] = None]
  /\ UNCHANGED <<tip, blockQ, statusMap, obStatusMap, obTimer, link, remoteH,
                 pending, recvQ, obIn, panicked, drops>>

\* An entry of requestTimer expires: it has no handler either (line 82).
ObTimerExpire(h) ==
  /\ ~panicked
  /\ obTimer[h] # None
  /\ obTimer' = [obTimer EXCEPT ![h] = None]
  /\ UNCHANGED <<tip, blockQ, statusMap, obStatusMap, nodeTimer, link,
                 remoteH, pending, recvQ, obIn, panicked, drops>>

-----------------------------------------------------------------------------
(* Connections: the disconnect and connect callbacks of both meshes.       *)

\* OnDisconnected (lines 411-417): drop the status, forget the peer's
\* timer entries, tryRequestBlocks.
PeerDisconnected(p) ==
  /\ ~panicked
  /\ link[p] = "closing"
  /\ link' = [link EXCEPT ![p] = "down"]
  /\ LET sm == [statusMap EXCEPT ![p] = None]
         tm == [h \in Heights |-> IF nodeTimer[h] = p THEN None
                                  ELSE nodeTimer[h]]
     IN /\ statusMap' = sm
        /\ \E r \in TryRequestBlocks(tip, sm, tm, pending) :
             /\ nodeTimer' = r.tm
             /\ pending' = r.pd
  /\ UNCHANGED <<tip, blockQ, obStatusMap, obTimer, remoteH, recvQ, obIn,
                 panicked, drops>>

\* OnObserverDisconnected (lines 395-402): the same for observers, then
\* tryRequestNext.
ObDisconnected(o) ==
  /\ ~panicked
  /\ link[o] = "closing"
  /\ link' = [link EXCEPT ![o] = "down"]
  /\ LET osm == [obStatusMap EXCEPT ![o] = None]
         tm == [h \in Heights |-> IF obTimer[h] = o THEN None ELSE obTimer[h]]
     IN /\ obStatusMap' = osm
        /\ \E n \in TryRequestNext(tip, osm, tm, pending, blockQ) :
             /\ obTimer' = n.tm
             /\ pending' = n.pd
  /\ UNCHANGED <<tip, blockQ, statusMap, nodeTimer, remoteH, recvQ, obIn,
                 panicked, drops>>

\* OnConnected (lines 404-409): an empty Status, height 0.
PeerConnected(p) ==
  /\ ~panicked
  /\ link[p] = "down"
  /\ link' = [link EXCEPT ![p] = "up"]
  /\ statusMap' = [statusMap EXCEPT ![p] = 0]
  /\ UNCHANGED <<tip, blockQ, obStatusMap, nodeTimer, obTimer, remoteH,
                 pending, recvQ, obIn, panicked, drops>>

\* Mutant: the observer's handleConnection does not send its status.
ObConnectedNoStatus(o) ==
  /\ ~panicked
  /\ link[o] = "down"
  /\ link' = [link EXCEPT ![o] = "up"]
  /\ obStatusMap' = [obStatusMap EXCEPT ![o] = 0]
  /\ UNCHANGED <<tip, blockQ, statusMap, nodeTimer, obTimer, remoteH,
                 pending, recvQ, obIn, panicked, drops>>

\* OnObserverConnected (lines 379-393); the observer's handleConnection
\* (observer_formulator_service.go lines 229-235) sends its StatusMessage.
ObConnected(o) ==
  /\ ~panicked
  /\ link[o] = "down"
  /\ link' = [link EXCEPT ![o] = "up"]
  /\ obStatusMap' = [obStatusMap EXCEPT ![o] = 0]
  /\ obIn' = [obIn EXCEPT ![o] =
                <<[type |-> "status", height |-> remoteH[o], ok |-> TRUE]>>]
  /\ UNCHANGED <<tip, blockQ, statusMap, nodeTimer, obTimer, remoteH,
                 pending, recvQ, panicked, drops>>

\* The network or the remote closes a connection.
Drop(r) ==
  /\ ~panicked
  /\ drops > 0
  /\ link[r] = "up"
  /\ link' = [link EXCEPT ![r] = "closing"]
  /\ pending' = Close(r, pending)
  /\ obIn' = IF r \in Obs THEN [obIn EXCEPT ![r] = <<>>] ELSE obIn
  /\ drops' = drops - 1
  /\ UNCHANGED <<tip, blockQ, statusMap, obStatusMap, nodeTimer, obTimer,
                 remoteH, recvQ, panicked>>

-----------------------------------------------------------------------------
(* The remotes.                                                            *)

\* The RequestMessage case (lines 453-476, and 783-808 for observers):
\* Count 0 means 1, at most Window; nothing above the remote's height.
Answer(r, rq) ==
  LET c == IF rq.count = 0 THEN 1
           ELSE IF rq.count > Window THEN Window ELSE rq.count
  IN IF rq.height > remoteH[r] THEN <<>>
     ELSE [i \in 1..MinOf(c, remoteH[r] - rq.height + 1) |->
             BlockOf(r, rq.height + i - 1)]

\* A remote answers a request; the BlockMessage reaches recvQueues[0]
\* (OnRecv, lines 427-447) or the observer connection.
RemoteAnswer(r, rq) ==
  /\ ~panicked
  /\ link[r] = "up"
  /\ rq \in pending[r]
  /\ pending' = [pending EXCEPT ![r] = @ \ {rq}]
  /\ LET bs == Answer(r, rq)
         m == [type |-> "blocks", blocks |-> bs]
     IN IF bs = <<>> THEN UNCHANGED <<recvQ, obIn>>
        ELSE IF r \in Peers
             THEN /\ Len(recvQ) < QueueMax
                  /\ recvQ' = Append(recvQ, [from |-> r, msg |-> m])
                  /\ UNCHANGED obIn
             ELSE /\ Len(obIn[r]) < QueueMax
                  /\ obIn' = [obIn EXCEPT ![r] = Append(@, m)]
                  /\ UNCHANGED recvQ
  /\ UNCHANGED <<tip, blockQ, statusMap, obStatusMap, nodeTimer, obTimer,
                 link, remoteH, panicked, drops>>

\* A remote connects the next block and broadcasts its status.
Advance(r) ==
  /\ ~panicked
  /\ remoteH[r] < MaxHeight
  /\ remoteH' = [remoteH EXCEPT ![r] = @ + 1]
  /\ LET m == [type |-> "status", height |-> remoteH[r] + 1,
               ok |-> r \notin Byzantine]
     IN IF link[r] # "up" THEN UNCHANGED <<recvQ, obIn>>
        ELSE IF r \in Peers
             THEN /\ Len(recvQ) < QueueMax
                  /\ recvQ' = Append(recvQ, [from |-> r, msg |-> m])
                  /\ UNCHANGED obIn
             ELSE /\ Len(obIn[r]) < QueueMax
                  /\ obIn' = [obIn EXCEPT ![r] = Append(@, m)]
                  /\ UNCHANGED recvQ
  /\ UNCHANGED <<tip, blockQ, statusMap, obStatusMap, nodeTimer, obTimer,
                 link, pending, panicked, drops>>

-----------------------------------------------------------------------------
\* The formulator starts with an empty chain and no connection; the
\* observers are at the agreed height, node peers anywhere below it.
Init ==
  /\ tip = 0
  /\ blockQ = {}
  /\ statusMap = [p \in Peers |-> None]
  /\ obStatusMap = [o \in Obs |-> None]
  /\ nodeTimer = [h \in Heights |-> None]
  /\ obTimer = [h \in Heights |-> None]
  /\ link = [r \in Remotes |-> "down"]
  /\ remoteH \in {f \in [Remotes -> 0..MaxHeight] :
                    \A o \in Obs : f[o] = MaxHeight}
  /\ pending = [r \in Remotes |-> {}]
  /\ recvQ = <<>>
  /\ obIn = [o \in Obs |-> <<>>]
  /\ panicked = FALSE
  /\ drops = MaxDrops

Next ==
  \/ RecvStep \/ BlockTimer \/ RequestTick
  \/ \E o \in Obs : ObRecv(o) \/ ObDisconnected(o) \/ ObConnected(o)
  \/ \E p \in Peers : PeerDisconnected(p) \/ PeerConnected(p)
  \/ \E h \in Heights : NodeTimerExpire(h) \/ ObTimerExpire(h)
  \/ \E r \in Remotes : \/ Drop(r)
                        \/ Advance(r)
                        \/ \E rq \in pending[r] : RemoteAnswer(r, rq)

\* The timer cases of Run, the observer connection goroutines, the
\* requestTimer loop and the observer redial loop run, and observers
\* answer requests.  Nothing is assumed of node peers or of the recv
\* goroutine that serves them: catching up must not depend on them.
\* Connection losses and the remotes' progress are not forced.
Fairness ==
  /\ WF_vars(BlockTimer) /\ WF_vars(RequestTick)
  /\ \A o \in Obs : /\ WF_vars(ObRecv(o))
                    /\ WF_vars(ObDisconnected(o))
                    /\ WF_vars(ObConnected(o))
                    /\ WF_vars(\E rq \in pending[o] : RemoteAnswer(o, rq))
  /\ WF_vars(\E h \in Heights : ObTimerExpire(h))

Spec == Init /\ [][Next]_vars /\ Fairness

-----------------------------------------------------------------------------
TypeOK ==
  /\ tip \in 0..MaxHeight
  /\ blockQ \subseteq Block
  /\ statusMap \in [Peers -> {None} \cup 0..MaxHeight]
  /\ obStatusMap \in [Obs -> {None} \cup 0..MaxHeight]
  /\ nodeTimer \in [Heights -> {None} \cup Peers]
  /\ obTimer \in [Heights -> {None} \cup Obs]
  /\ link \in [Remotes -> {"up", "closing", "down"}]
  /\ remoteH \in [Remotes -> 0..MaxHeight]
  /\ pending \in [Remotes -> SUBSET Request]
  /\ recvQ \in Seq([from : Peers, msg : StatusMsg \cup BlocksMsg])
  /\ obIn \in [Obs -> Seq(StatusMsg \cup BlocksMsg)]
  /\ panicked \in BOOLEAN
  /\ drops \in 0..MaxDrops

\* The formulator catches up with the observers: whatever connections are
\* lost and whichever requests are answered by whom, the tip eventually
\* reaches the agreed height and stays there (status messages, the
\* request loops, the 2s request timers and the disconnect callbacks
\* together never leave a height that nobody will ask for again, although
\* no timer expiry requests anything itself).
CatchUp == <>[](tip = MaxHeight)

\* Spec 5: fork detection removes the peer that delivered the offending
\* block.  The BlockMessage case of handleObserverMessage panics instead
\* when addBlock reports a forked block.
NoForkPanic == ~panicked

=============================================================================
