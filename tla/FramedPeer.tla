----------------------------- MODULE FramedPeer -----------------------------
(***************************************************************************)
(* The two ends of one peer connection (src/service/p2p/tcp_peer.go and    *)
(* websocket_peer.go): message framing, the reader, the ping goroutine     *)
(* and, for websocket peers, the write queue drained by the same          *)
(* goroutine.  The connection kind is chosen once, in Init.               *)
(*                                                                         *)
(* Time is modelled by rounds of the 10s ping ticker (Lamport's explicit  *)
(* timers): each live end ticks once per round, and a round ends only     *)
(* when every idle reader has read what was sent to it and every          *)
(* websocket write queue is empty, i.e. delivery and a reader with no     *)
(* handler running are faster than 10s.  A handler (handleConnection's    *)
(* processing of one message) may run for up to StallMax rounds.          *)
(*                                                                         *)
(* An end may also stop for good (power loss or a partition): its         *)
(* goroutines stop and the other end sees no FIN, only silence.           *)
(***************************************************************************)
EXTENDS Integers, Sequences, FiniteSets

CONSTANTS
  Ends,            \* the two peers of the connection
  Sizes,           \* len(bs) of the messages SendRaw is given
  MaxMsgs,         \* messages each end sends
  PingCountLimit,  \* pingCountLimit, 3 in the code
  StallMax,        \* rounds a handler may keep the reader busy
  MaxCrashes       \* ends that may stop

ASSUME /\ Cardinality(Ends) = 2
       /\ Sizes \subseteq Nat \ {0, 1}
       /\ MaxMsgs \in Nat
       /\ PingCountLimit \in Nat
       /\ StallMax \in Nat
       /\ MaxCrashes \in 0..2

VARIABLES
  kind,       \* "tcp" (TCPPeer) or "ws" (WebsocketPeer)
  isClose,    \* p.isClose, set with conn.Close by Close
  pingCount,  \* p.pingCount
  wire,       \* frames written by an end and not yet read by the other
  writeQueue, \* WebsocketPeer.writeQueue: SendRaw'd data not yet written
  busy,       \* the handler of the last message read still runs
  stall,      \* rounds the current handler has run
  ticked,     \* the end's ticker fired in this round
  alive,      \* the end's process and network are up
  cause,      \* history: why the end closed ("none" while open)
  sent,       \* history: messages SendRaw accepted, in order
  delivered,  \* history: messages ReadMessageData returned, in order
  crashes     \* ends that may still stop

vars == <<kind, isClose, pingCount, wire, writeQueue, busy, stall, ticked,
          alive, cause, sent, delivered, crashes>>

Other(e) == CHOOSE x \in Ends : x # e

Msg == [id : 1..MaxMsgs, size : Sizes]
\* A message ReadMessageData decoded from misframed bytes.
Garbled == [id |-> 0, size |-> 0]
Ping == [type |-> "ping"]
\* A data frame: the Len field it carries and the payload bytes after it.
DataFrame == [type : {"data"}, msg : Msg, len : Int, body : Nat]

\* The gzip stream of n bytes: a header and trailer of 18 bytes around a
\* deflate body of at least 2; only its being non-empty matters.
GzipLen(n) == 18 + 2

-----------------------------------------------------------------------------
(* Framing.                                                                 *)

\* TCPPeer.SendRaw (lines 164-181): type, 4 bytes of Len, a compression
\* flag, then bs[2:] (gzipped above 1000 bytes); Len = len(wbs) - 7.
TcpPayload(n) == IF n > 1000 THEN GzipLen(n - 2) ELSE n - 2

\* Mutant: Len counts the compression flag (len(wbs) - 6, as for websocket).
TcpFrameLen6(m) ==
  LET wbs == 2 + 4 + 1 + TcpPayload(m.size)
  IN [type |-> "data", msg |-> m, len |-> wbs - 6, body |-> TcpPayload(m.size)]

TcpFrame(m) ==
  LET wbs == 2 + 4 + 1 + TcpPayload(m.size)
  IN [type |-> "data", msg |-> m, len |-> wbs - 7, body |-> TcpPayload(m.size)]

\* The writer goroutine of WebsocketPeer (lines 70-82): type, 4 bytes of
\* Len, then bs[2:] gzipped when not empty; Len = len(wbs) - 6.
WsPayload(n) == IF n > 2 THEN GzipLen(n - 2) ELSE 0

WsFrame(m) ==
  LET wbs == 2 + 4 + WsPayload(m.size)
  IN [type |-> "data", msg |-> m, len |-> wbs - 6, body |-> WsPayload(m.size)]

\* What the reader of a frame does (TCPPeer.ReadMessageData lines 109-147,
\* WebsocketPeer.ReadMessageData lines 129-164): Len 0 is
\* ErrUnknownMessage.  A websocket message carries its own length, so a
\* wrong Len is ErrInvalidLength; on the TCP stream the reader takes Len
\* bytes whatever the sender wrote, and what it decodes from them is not
\* the message sent, or does not decode at all.
ReadOutcomes(k, f) ==
  IF f.len = 0 THEN {"error"}
  ELSE IF f.len = f.body THEN {"ok"}
  ELSE IF k = "ws" THEN {"error"}
  ELSE {"garbled", "error"}

-----------------------------------------------------------------------------
(* Writes and Close.                                                        *)

\* conn.Write of a frame: it reaches the other end's socket unless that
\* end has stopped or closed its socket.  The socket buffers never fill
\* at these rates, so the 5s write deadline does not expire.
Write(e, f) ==
  IF alive[Other(e)] /\ ~isClose[Other(e)]
  THEN [wire EXCEPT ![e] = Append(@, f)] ELSE wire

\* Close (lines 87-90 / 122-125): isClose and conn.Close; the websocket
\* writer goroutine stops, so its queue is never written.
Close(e, why) ==
  /\ isClose' = [isClose EXCEPT ![e] = TRUE]
  /\ cause' = [cause EXCEPT ![e] = why]

-----------------------------------------------------------------------------
(* Actions of one end.                                                      *)

\* Send / SendRaw from any goroutine.  TCPPeer writes the frame at once
\* (an error on a closed conn is returned to the caller and nothing is
\* sent); WebsocketPeer only pushes to writeQueue and returns nil, even
\* after Close.
SendRaw(e, m) ==
  /\ alive[e]
  /\ m.id = Len(sent[e]) + 1
  /\ IF kind = "tcp"
     THEN /\ ~isClose[e]
          /\ wire' = Write(e, TcpFrame(m))
          /\ UNCHANGED writeQueue
     ELSE /\ writeQueue' = [writeQueue EXCEPT ![e] = Append(@, m)]
          /\ UNCHANGED wire
  /\ sent' = [sent EXCEPT ![e] = Append(@, m)]
  /\ UNCHANGED <<kind, isClose, pingCount, busy, stall, ticked, alive, cause,
                 delivered, crashes>>

\* The default case of the websocket goroutine's loop (lines 69-104):
\* pop writeQueue and write one frame.
WsWrite(e) ==
  /\ kind = "ws"
  /\ alive[e]
  /\ ~isClose[e]
  /\ writeQueue[e] # <<>>
  /\ wire' = Write(e, WsFrame(Head(writeQueue[e])))
  /\ writeQueue' = [writeQueue EXCEPT ![e] = Tail(@)]
  /\ UNCHANGED <<kind, isClose, pingCount, busy, stall, ticked, alive, cause,
                 sent, delivered, crashes>>

\* Mutant: the limit test is >= instead of >.
TickAtLimit(e) ==
  /\ alive[e]
  /\ ~isClose[e]
  /\ ~ticked[e]
  /\ ticked' = [ticked EXCEPT ![e] = TRUE]
  /\ wire' = Write(e, Ping)
  /\ pingCount' = [pingCount EXCEPT ![e] = @ + 1]
  /\ IF pingCount[e] + 1 >= PingCountLimit
     THEN Close(e, "keepalive")
     ELSE UNCHANGED <<isClose, cause>>
  /\ UNCHANGED <<kind, writeQueue, busy, stall, alive, sent, delivered,
                 crashes>>

\* Mutant: the ping goroutine returns past the limit without its deferred
\* Close, so it stops pinging and the peer stays open.
TickNoClose(e) ==
  /\ alive[e]
  /\ ~isClose[e]
  /\ ~ticked[e]
  /\ pingCount[e] <= PingCountLimit
  /\ ticked' = [ticked EXCEPT ![e] = TRUE]
  /\ wire' = Write(e, Ping)
  /\ pingCount' = [pingCount EXCEPT ![e] = @ + 1]
  /\ UNCHANGED <<kind, isClose, writeQueue, busy, stall, alive, cause, sent,
                 delivered, crashes>>

\* Mutant: the counter is never tested against the limit.
TickNoLimit(e) ==
  /\ alive[e]
  /\ ~isClose[e]
  /\ ~ticked[e]
  /\ ticked' = [ticked EXCEPT ![e] = TRUE]
  /\ wire' = Write(e, Ping)
  /\ pingCount' = [pingCount EXCEPT ![e] = @ + 1]
  /\ UNCHANGED <<kind, isClose, writeQueue, busy, stall, alive, cause, sent,
                 delivered, crashes>>

\* The pingTicker case (tcp lines 59-69, ws lines 61-67): write a ping,
\* count it, and return (closing the peer) past pingCountLimit.
Tick(e) ==
  /\ alive[e]
  /\ ~isClose[e]
  /\ ~ticked[e]
  /\ ticked' = [ticked EXCEPT ![e] = TRUE]
  /\ wire' = Write(e, Ping)
  /\ pingCount' = [pingCount EXCEPT ![e] = @ + 1]
  /\ IF pingCount[e] + 1 > PingCountLimit
     THEN Close(e, "keepalive")
     ELSE UNCHANGED <<isClose, cause>>
  /\ UNCHANGED <<kind, writeQueue, busy, stall, alive, sent, delivered,
                 crashes>>

\* ReadMessageData on the connection goroutine.  TCP: every type read
\* resets pingCount, a ping is skipped.  Websocket: only the ping handler
\* resets it.  A decoded message goes to the handler, which may keep
\* the goroutine busy; an error ends handleConnection, whose caller
\* closes the peer.
Read(e) ==
  LET f == Head(wire[Other(e)])
      reset == [pingCount EXCEPT ![e] = 0]
  IN /\ alive[e]
     /\ ~isClose[e]
     /\ ~busy[e]
     /\ wire[Other(e)] # <<>>
     /\ wire' = [wire EXCEPT ![Other(e)] = Tail(@)]
     /\ IF f = Ping
        THEN /\ pingCount' = reset
             /\ UNCHANGED <<isClose, cause, busy, delivered>>
        ELSE /\ pingCount' = IF kind = "tcp" THEN reset ELSE pingCount
             /\ \E out \in ReadOutcomes(kind, f) :
                  IF out = "error"
                  THEN /\ Close(e, "error")
                       /\ UNCHANGED <<busy, delivered>>
                  ELSE /\ delivered' = [delivered EXCEPT ![e] = Append(@,
                                          IF out = "ok" THEN f.msg ELSE Garbled)]
                       /\ \E b \in BOOLEAN : busy' = [busy EXCEPT ![e] = b]
                       /\ UNCHANGED <<isClose, cause>>
     /\ UNCHANGED <<kind, writeQueue, stall, ticked, alive, sent, crashes>>

\* The handler returns and handleConnection reads again.
HandlerDone(e) ==
  /\ busy[e]
  /\ busy' = [busy EXCEPT ![e] = FALSE]
  /\ stall' = [stall EXCEPT ![e] = 0]
  /\ UNCHANGED <<kind, isClose, pingCount, wire, writeQueue, ticked, alive,
                 cause, sent, delivered, crashes>>

\* The other end closed and everything it wrote has been read: the read
\* returns EOF and the caller closes the peer.
ReadEOF(e) ==
  /\ alive[e]
  /\ ~isClose[e]
  /\ ~busy[e]
  /\ isClose[Other(e)]
  /\ wire[Other(e)] = <<>>
  /\ Close(e, "remote")
  /\ UNCHANGED <<kind, pingCount, wire, writeQueue, busy, stall, ticked,
                 alive, sent, delivered, crashes>>

\* The owner closes the peer: a mesh's RemovePeer (a replaced connection,
\* a failed SendTo, shutdown) calls Close.
RemovePeer(e) ==
  /\ alive[e]
  /\ ~isClose[e]
  /\ Close(e, "removed")
  /\ UNCHANGED <<kind, pingCount, wire, writeQueue, busy, stall, ticked,
                 alive, sent, delivered, crashes>>

\* The end's host stops or is cut off: none of its goroutines runs again
\* and nothing it wrote and had not arrived does.
Crash(e) ==
  /\ crashes > 0
  /\ alive[e]
  /\ alive' = [alive EXCEPT ![e] = FALSE]
  /\ wire' = [wire EXCEPT ![e] = <<>>]
  /\ crashes' = crashes - 1
  /\ UNCHANGED <<kind, isClose, pingCount, writeQueue, busy, stall, ticked,
                 cause, sent, delivered>>

-----------------------------------------------------------------------------
(* Time.                                                                    *)

\* Before the next tick, an end whose reader is free has read everything
\* sent to it (and met EOF if the other end closed), and its websocket
\* writer has emptied writeQueue.
Settled(e) ==
  alive[e] /\ ~isClose[e] =>
    /\ ticked[e]
    /\ busy[e] \/ (wire[Other(e)] = <<>> /\ ~isClose[Other(e)])
    /\ kind = "ws" => writeQueue[e] = <<>>

\* 10s pass: every ticker fires again.  A handler runs at most StallMax
\* rounds.
NewRound ==
  /\ \A e \in Ends : Settled(e)
  /\ \A e \in Ends : busy[e] => stall[e] < StallMax
  /\ ticked' = [e \in Ends |-> FALSE]
  /\ stall' = [e \in Ends |-> IF busy[e] THEN stall[e] + 1 ELSE 0]
  /\ UNCHANGED <<kind, isClose, pingCount, wire, writeQueue, busy, alive,
                 cause, sent, delivered, crashes>>

-----------------------------------------------------------------------------
\* A new connection: NewTCPPeer or NewWebsocketPeer on both ends.
Init ==
  /\ kind \in {"tcp", "ws"}
  /\ isClose = [e \in Ends |-> FALSE]
  /\ pingCount = [e \in Ends |-> 0]
  /\ wire = [e \in Ends |-> <<>>]
  /\ writeQueue = [e \in Ends |-> <<>>]
  /\ busy = [e \in Ends |-> FALSE]
  /\ stall = [e \in Ends |-> 0]
  /\ ticked = [e \in Ends |-> FALSE]
  /\ alive = [e \in Ends |-> TRUE]
  /\ cause = [e \in Ends |-> "none"]
  /\ sent = [e \in Ends |-> <<>>]
  /\ delivered = [e \in Ends |-> <<>>]
  /\ crashes = MaxCrashes

Next ==
  \/ NewRound
  \/ \E e \in Ends :
       \/ \E m \in Msg : SendRaw(e, m)
       \/ WsWrite(e) \/ Tick(e) \/ Read(e) \/ HandlerDone(e) \/ ReadEOF(e)
       \/ RemovePeer(e) \/ Crash(e)

\* Goroutines of a live end run and time passes; sends, RemovePeer and
\* crashes are not forced.
Fairness ==
  /\ WF_vars(NewRound)
  /\ \A e \in Ends : /\ WF_vars(WsWrite(e)) /\ WF_vars(Tick(e))
                     /\ WF_vars(Read(e)) /\ WF_vars(HandlerDone(e))
                     /\ WF_vars(ReadEOF(e))

Spec == Init /\ [][Next]_vars /\ Fairness

-----------------------------------------------------------------------------
TypeOK ==
  /\ kind \in {"tcp", "ws"}
  /\ isClose \in [Ends -> BOOLEAN]
  /\ pingCount \in [Ends -> 0..PingCountLimit + 1]
  /\ wire \in [Ends -> Seq({Ping} \cup DataFrame)]
  /\ writeQueue \in [Ends -> Seq(Msg)]
  /\ busy \in [Ends -> BOOLEAN]
  /\ stall \in [Ends -> 0..StallMax]
  /\ ticked \in [Ends -> BOOLEAN]
  /\ alive \in [Ends -> BOOLEAN]
  /\ cause \in [Ends -> {"none", "keepalive", "error", "remote", "removed"}]
  /\ sent \in [Ends -> Seq(Msg)]
  /\ delivered \in [Ends -> Seq(Msg \cup {Garbled})]
  /\ crashes \in 0..MaxCrashes

\* Spec 4.1 keepalive: the ping counter closes a connection only when the
\* other end has gone silent.  While both ends run, the pings each sends
\* every 10s reset the other's counter (tcp: any type read; websocket:
\* the ping handler), also while a handler holds the reader for up to
\* StallMax ticks.
NoFalseClose ==
  \A e \in Ends : cause[e] = "keepalive" => ~alive[Other(e)]

\* The framing round trip: what ReadMessageData returns at one end is, in
\* order, a prefix of what SendRaw accepted at the other; pings between
\* frames and the compression choice never misalign the stream.
DeliveredInOrder ==
  \A e \in Ends :
    /\ Len(delivered[e]) <= Len(sent[Other(e)])
    /\ \A i \in 1..Len(delivered[e]) : delivered[e][i] = sent[Other(e)][i]

\* No connection stays half open: once one end has closed or gone
\* silent, the other eventually closes too (EOF, or the ping counter).
LinkEnds ==
  \A e \in Ends :
    (isClose[e] \/ ~alive[e]) ~> (isClose[Other(e)] \/ ~alive[Other(e)])

=============================================================================
