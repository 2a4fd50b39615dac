--------------------------- MODULE FormulatorRound ---------------------------
(***************************************************************************)
(* The round driver of the PoF Formulator (src/pof/formulator_node.go).   *)
(*                                                                         *)
(* Threads of the formulator process that touch the round state:           *)
(*  - one connection goroutine per observer, running handleObserverMessage *)
(*    on each message it reads (BlockReqMessage, BlockObSignMessage,       *)
(*    BlockMessage), each handler body atomic under fr.Lock;               *)
(*  - the 50ms retry goroutines spawned for future-height requests;        *)
(*  - the genBlock goroutine spawned by an accepted request: it takes      *)
(*    fr.Lock then genLock, emits up to RemainBlocks blocks and, between   *)
(*    blocks, sleeps with fr.Lock released but genLock still held;         *)
(*  - the 50ms block timer of Run, applying the height-sorted blockQ;      *)
(*  - block delivery from peers into blockQ (addBlock).                    *)
(*                                                                         *)
(* The observers are the environment: they keep the agreed chain obChain, *)
(* run rounds naming a formulator, send BlockReqMessage to us, commit the  *)
(* blocks we emit and send back BlockObSignMessage.  A block is a record   *)
(* whose prev field is the previous block itself, so the record is its     *)
(* own header hash and two equal blocks have equal histories.              *)
(***************************************************************************)
EXTENDS Integers, Sequences, FiniteSets, SequencesExt, TLC

CONSTANTS
  Observers,     \* observer peer ids of the FormulatorNodeMesh
  Genesis,       \* hash of the genesis header (model value)
  NoReq,         \* lastReqMessage == nil (model value)
  MaxHeight,     \* observers extend their chain up to this height
  MaxBlocks,     \* cs.maxBlocksPerFormulator
  MaxTimeout,    \* largest TimeoutCount the observers use
  RetryLimit,    \* RetryCount cap of the future-height retry (10 in code)
  InboxMax,      \* bound on unread messages per observer connection
  MaxRestarts,   \* bound on process crashes/restarts
  GenSlots,      \* bound on live genBlock goroutines
  SignWindow,    \* a signature this far above lastReqMessage is refused
                 \* (the literal 10 of the code, scaled with the heights)
  PacingBeforeNextRound \* TRUE: timing assumption that no request is
                        \* accepted while a genBlock goroutine is alive

ASSUME /\ MaxHeight \in Nat \ {0}
       /\ MaxBlocks \in Nat \ {0}
       /\ MaxTimeout \in Nat
       /\ RetryLimit \in Nat \ {0}
       /\ InboxMax \in Nat \ {0}
       /\ MaxRestarts \in Nat
       /\ GenSlots \in Nat \ {0}
       /\ SignWindow \in Nat \ {0}
       /\ PacingBeforeNextRound \in BOOLEAN

VARIABLES
  chain,                \* blocks committed by cn (persistent store)
  blockQ,               \* fr.blockQ: out-of-order blocks, one per height
  lastGenMessages,      \* emitted, not yet committed (with lastContextes)
  lastObSignMessageMap, \* height -> BlockObSignMessage
  lastReqMessage,       \* last accepted BlockReqMessage or NoReq
  lastGenHeight,
  lastGenRecent,        \* lastGenTime + 30s > now
  frLock,               \* holder of fr.Lock among gen goroutines, 0 = none
  genLock,              \* holder of fr.genLock, 0 = none
  gens,                 \* genBlock goroutines
  retries,              \* pending 50ms retry goroutines <<obs, msg, count>>
  inbox,                \* unread messages on each observer connection
  connected,            \* observer connection present in ms.peerMap
  epoch,                \* number of process starts so far
  panicked,             \* history: some handler panicked
  obChain,              \* environment: chain agreed by the observers
  obRound,              \* environment: current observer round
  genOut                \* environment: BlockGenMessages observers received

fvars == <<chain, blockQ, lastGenMessages, lastObSignMessageMap,
           lastReqMessage, lastGenHeight, lastGenRecent, frLock, genLock,
           gens, retries, inbox, connected, epoch, panicked>>
envVars == <<obChain, obRound, genOut>>
vars == <<fvars, envVars>>

-----------------------------------------------------------------------------
(* Chain helpers.  ConnectBlock and ConnectBlockWithContext are external:  *)
(* they accept exactly the block that extends the tip.                     *)

TipHash(c) == IF c = <<>> THEN Genesis ELSE Last(c)
HeightOf(hash) == IF hash = Genesis THEN 0 ELSE hash.h
Connectable(b, c) == b.h = Len(c) + 1 /\ b.prev = TipHash(c)

IsBlock(b) == /\ b.h \in 1..(MaxHeight + MaxBlocks)
              /\ b.gen \in {"me", "other"}
              /\ b.ep \in 0..MaxRestarts
              /\ HeightOf(b.prev) = b.h - 1

-----------------------------------------------------------------------------
(* The messages of src/pof/messages.go that reach the round driver, with  *)
(* the fields its handlers read.  A hash is the block itself; signatures, *)
(* addresses and public hashes are not modelled.                          *)

\* BlockReqMessage: PrevHash, TargetHeight, TimeoutCount.  The observers
\* ask for the height above the block PrevHash names.
IsBlockReqMessage(m) ==
  /\ m.type = "req"
  /\ m.target \in 1..MaxHeight
  /\ m.tc \in 0..MaxTimeout
  /\ m.prev = Genesis \/ IsBlock(m.prev)
  /\ HeightOf(m.prev) = m.target - 1

\* BlockGenMessage: the block we generated (GeneratorSignature aside).
IsBlockGenMessage(b) == IsBlock(b) /\ b.gen = "me"

\* BlockObSignMessage: TargetHeight and the header hash of BlockSign.
IsBlockObSignMessage(m) ==
  /\ m.type = "sign"
  /\ m.target \in 1..MaxHeight
  /\ IsBlockGenMessage(m.hash)
  /\ m.hash.h = m.target

NoGen == [pc |-> "none", o |-> CHOOSE o \in Observers : TRUE, tc |-> 0,
          remain |-> 0, i |-> 0, last |-> Genesis]
Alive(g) == gens[g].pc # "none"

-----------------------------------------------------------------------------
(* handleObserverMessage, case *BlockReqMessage (lines 629-708).          *)

\* The early returns before the height check.
ReqSuppressed(msg) ==
  \/ msg.target <= lastGenHeight /\ lastGenRecent
  \/ lastReqMessage # NoReq /\ msg.target <= lastReqMessage.target
  \/ msg.target <= Len(chain)

\* RemainBlocks of genBlock: maxBlocksPerFormulator, less the consensus'
\* blocksBySameFormulator (external, 0..MaxBlocks-1) when TimeoutCount = 0.
RemainChoices(tc) == IF tc = 0 THEN 1..MaxBlocks ELSE {MaxBlocks}

\* The connection goroutine after its handler returns: an error return
\* closes the connection (handleConnection returns, RemovePeer), losing
\* what was still unread; otherwise it reads the next message.
ConnReply(o, err) ==
  /\ inbox' = [inbox EXCEPT ![o] = IF err THEN <<>> ELSE Tail(@)]
  /\ connected' = [connected EXCEPT ![o] = ~err]

\* A retry goroutine discards the handler's error.
Reply(o, retry, err) ==
  IF retry = 0 THEN ConnReply(o, err) ELSE UNCHANGED <<inbox, connected>>

\* Effect of the request handler on the round state.  retry is RetryCount
\* (0 when run by the connection goroutine); rest is the set of retry
\* goroutines once the running one (if any) has finished.
ReqHandler(o, msg, retry, rest) ==
  \/ /\ ReqSuppressed(msg)
     /\ retries' = rest
     /\ Reply(o, retry, FALSE)
     /\ UNCHANGED <<lastReqMessage, gens>>
  \/ /\ ~ReqSuppressed(msg)
     /\ msg.target > Len(chain) + 1
     /\ retries' = IF retry >= RetryLimit THEN rest
                   ELSE rest \cup {<<o, msg, retry + 1>>}
     /\ Reply(o, retry, FALSE)
     /\ UNCHANGED <<lastReqMessage, gens>>
  \/ /\ ~ReqSuppressed(msg)
     /\ msg.target = Len(chain) + 1
     /\ PacingBeforeNextRound => \A s \in DOMAIN gens : ~Alive(s)
     \* TopRank(TimeoutCount) is the consensus' rank table (external): it
     \* may disagree with the observers; PrevHash must be our tip.
     /\ \E rankAgrees \in BOOLEAN :
          IF rankAgrees /\ msg.prev = TipHash(chain)
          THEN \E g \in {s \in DOMAIN gens : ~Alive(s)} :
                 /\ lastReqMessage' = msg
                 /\ gens' = [gens EXCEPT ![g] =
                               [NoGen EXCEPT !.pc = "waitLock", !.o = o,
                                             !.tc = msg.tc]]
                 /\ retries' = rest
                 /\ Reply(o, retry, FALSE)
          ELSE /\ retries' = rest
               /\ Reply(o, retry, TRUE)
               /\ UNCHANGED <<lastReqMessage, gens>>

-----------------------------------------------------------------------------
(* handleObserverMessage, case *BlockObSignMessage (lines 709-782).       *)

\* The drain loop over lastGenMessages.  T is computed once, before the
\* loop, as in the code.
\* Mutant: the header-hash comparison with the signature is dropped.
RECURSIVE DrainNoHashCheck(_, _, _, _)
DrainNoHashCheck(gen, c, T, map) ==
  IF gen = <<>> THEN [gen |-> gen, chain |-> c, err |-> FALSE]
  ELSE LET b == Head(gen) IN
       IF b.h < T THEN DrainNoHashCheck(Tail(gen), c, T, map)
       ELSE IF b.h > T \/ b.h \notin DOMAIN map
            THEN [gen |-> gen, chain |-> c, err |-> FALSE]
       ELSE IF ~Connectable(b, c)
            THEN [gen |-> gen, chain |-> c, err |-> TRUE]
       ELSE DrainNoHashCheck(Tail(gen), Append(c, b), T, map)

RECURSIVE Drain(_, _, _, _)
Drain(gen, c, T, map) ==
  IF gen = <<>> THEN [gen |-> gen, chain |-> c, err |-> FALSE]
  ELSE LET b == Head(gen) IN
       IF b.h < T THEN Drain(Tail(gen), c, T, map)
       ELSE IF b.h > T \/ b.h \notin DOMAIN map
            THEN [gen |-> gen, chain |-> c, err |-> FALSE]
       ELSE IF map[b.h].hash # b \/ ~Connectable(b, c)
            THEN [gen |-> gen, chain |-> c, err |-> TRUE]
       ELSE Drain(Tail(gen), Append(c, b), T, map)

-----------------------------------------------------------------------------
(* Crash and restart of the formulator process: everything but the chain *)
(* store is lost, and the observer connections drop.                     *)

Crash(isPanic) ==
  /\ epoch < MaxRestarts
  /\ epoch' = epoch + 1
  /\ panicked' = (panicked \/ isPanic)
  /\ blockQ' = {}
  /\ lastGenMessages' = <<>>
  /\ lastObSignMessageMap' = <<>>
  /\ lastReqMessage' = NoReq
  /\ lastGenHeight' = 0
  /\ lastGenRecent' = FALSE
  /\ frLock' = 0
  /\ genLock' = 0
  /\ gens' = [g \in DOMAIN gens |-> NoGen]
  /\ retries' = {}
  /\ inbox' = [o \in Observers |-> <<>>]
  /\ connected' = [o \in Observers |-> FALSE]
  /\ UNCHANGED <<chain, envVars>>

Restart == Crash(FALSE)

-----------------------------------------------------------------------------
(* Connection goroutine of observer o handles the message at the head of *)
(* its stream.                                                           *)


HandleBlockReq(o) ==
  /\ frLock = 0
  /\ inbox[o] # <<>>
  /\ Head(inbox[o]).type = "req"
  /\ ReqHandler(o, Head(inbox[o]), 0, retries)
  /\ UNCHANGED <<chain, blockQ, lastGenMessages, lastObSignMessageMap,
                 lastGenHeight, lastGenRecent, frLock, genLock, epoch,
                 panicked, envVars>>

HandleObSign(o) ==
  LET msg == Head(inbox[o])
      T == Len(chain) + 1
  IN
  /\ frLock = 0
  /\ inbox[o] # <<>>
  /\ msg.type = "sign"
  /\ \/ /\ msg.target < T
        /\ ConnReply(o, FALSE)
        /\ UNCHANGED <<chain, blockQ, lastGenMessages, lastObSignMessageMap,
                       lastReqMessage, lastGenHeight, lastGenRecent, frLock,
                       genLock, gens, retries, epoch, panicked, envVars>>
     \* fr.lastReqMessage.TargetHeight with lastReqMessage == nil
     \/ /\ msg.target >= T
        /\ lastReqMessage = NoReq
        /\ Crash(TRUE)
     \/ /\ msg.target >= T
        /\ lastReqMessage # NoReq
        /\ LET map == (msg.target :> msg) @@ lastObSignMessageMap
               r == Drain(lastGenMessages, chain, T, map)
           IN IF msg.target >= lastReqMessage.target + SignWindow
              THEN /\ ConnReply(o, TRUE)
                   /\ UNCHANGED <<chain, lastGenMessages,
                                  lastObSignMessageMap>>
              ELSE /\ lastObSignMessageMap' = map
                   /\ lastGenMessages' = r.gen
                   /\ chain' = r.chain
                   /\ ConnReply(o, r.err)
        /\ UNCHANGED <<blockQ, lastReqMessage, lastGenHeight, lastGenRecent,
                       frLock, genLock, gens, retries, epoch, panicked,
                       envVars>>

\* The goroutine `go func(){ time.Sleep(50ms); handleObserverMessage(ID, m,
\* RetryCount+1) }()`: its error return is discarded.
HandleRetry(r) ==
  /\ frLock = 0
  /\ r \in retries
  /\ ReqHandler(r[1], r[2], r[3], retries \ {r})
  /\ UNCHANGED <<chain, blockQ, lastGenMessages, lastObSignMessageMap,
                 lastGenHeight, lastGenRecent, frLock, genLock, epoch,
                 panicked, envVars>>

-----------------------------------------------------------------------------
(* The genBlock goroutine g (lines 696-706 and genBlock, 937-1060).       *)

Gen(g, pc) == gens[g].pc = pc
SetGen(g, r) == gens' = [gens EXCEPT ![g] = r]

\* fr.Lock() at the top of the goroutine.
GenAcquireLock(g) ==
  /\ Gen(g, "waitLock")
  /\ frLock = 0
  /\ frLock' = g
  /\ SetGen(g, [gens[g] EXCEPT !.pc = "waitGenLock"])
  /\ UNCHANGED <<chain, blockQ, lastGenMessages, lastObSignMessageMap,
                 lastReqMessage, lastGenHeight, lastGenRecent, genLock,
                 retries, inbox, connected, epoch, panicked, envVars>>

\* fr.genLock.Lock(), then the start of genBlock: reset the round state,
\* fix RemainBlocks and take ctx = NewContext() on the current tip.
GenStart(g) ==
  /\ Gen(g, "waitGenLock")
  /\ genLock = 0
  /\ genLock' = g
  /\ lastGenMessages' = <<>>
  /\ lastObSignMessageMap' = <<>>
  /\ \E rb \in RemainChoices(gens[g].tc) :
       SetGen(g, [gens[g] EXCEPT !.pc = "gen", !.remain = rb, !.i = 0,
                                 !.last = TipHash(chain)])
  /\ UNCHANGED <<chain, blockQ, lastReqMessage, lastGenHeight,
                 lastGenRecent, frLock, retries, inbox, connected, epoch,
                 panicked, envVars>>

\* Leaving genBlock: the deferred genLock.Unlock and fr.Unlock.
GenExit(g) ==
  /\ frLock' = 0
  /\ genLock' = 0
  /\ SetGen(g, NoGen)

\* One iteration of the loop: build block i on ctx (NewContext for i = 0,
\* NextContext of the previous header otherwise), send it to the
\* requesting observer, record it, then pace.
GenBlock(g) ==
  LET G == gens[g]
      b == [h |-> HeightOf(G.last) + 1, prev |-> G.last, gen |-> "me",
            ep |-> epoch]
  IN
  /\ Gen(g, "gen")
  /\ G.i < G.remain
  /\ IF ~connected[G.o]
     THEN \* fr.ms.SendTo fails with ErrNotExistObserverPeer: return err
          /\ GenExit(g)
          /\ UNCHANGED <<lastGenMessages, lastGenHeight, lastGenRecent,
                         genOut>>
     ELSE /\ genOut' = genOut \cup {b}
          /\ lastGenMessages' = Append(lastGenMessages, b)
          /\ lastGenHeight' = b.h
          /\ lastGenRecent' = TRUE
          /\ LET next == [G EXCEPT !.i = G.i + 1, !.last = b] IN
             \/ \* no pacing sleep (bNoDelay, or already late)
                IF next.i = next.remain
                THEN GenExit(g)
                ELSE /\ SetGen(g, next)
                     /\ UNCHANGED <<frLock, genLock>>
             \/ \* fr.Unlock(); time.Sleep(ExpectedTime - PastTime)
                /\ frLock' = 0
                /\ SetGen(g, [next EXCEPT !.pc = "sleep"])
                /\ UNCHANGED genLock
  /\ UNCHANGED <<chain, blockQ, lastObSignMessageMap, lastReqMessage,
                 retries, inbox, connected, epoch, panicked, obChain,
                 obRound>>

\* fr.Lock() after the pacing sleep; genBlock returns when all blocks are out.
GenWake(g) ==
  /\ Gen(g, "sleep")
  /\ frLock = 0
  /\ IF gens[g].i = gens[g].remain
     THEN GenExit(g)
     ELSE /\ frLock' = g
          /\ SetGen(g, [gens[g] EXCEPT !.pc = "gen"])
          /\ UNCHANGED genLock
  /\ UNCHANGED <<chain, blockQ, lastGenMessages, lastObSignMessageMap,
                 lastReqMessage, lastGenHeight, lastGenRecent, retries,
                 inbox, connected, epoch, panicked, envVars>>

-----------------------------------------------------------------------------
(* Block synchronisation feeding blockQ and the 50ms block timer of Run. *)

\* addBlock (lines 881-902) for a block an observer or node sends us:
\* FindOrInsert keeps the block already queued at that height.
AddBlock(b) ==
  /\ b.h > Len(chain)
  /\ ~\E q \in blockQ : q.h = b.h
  /\ blockQ' = blockQ \cup {b}
  /\ UNCHANGED <<chain, lastGenMessages, lastObSignMessageMap,
                 lastReqMessage, lastGenHeight, lastGenRecent, frLock,
                 genLock, gens, retries, inbox, connected, epoch, panicked,
                 envVars>>

\* blockQ.PopUntil(TargetHeight): pop the lowest entry if its height is at
\* most TargetHeight.
PopUntil(q, t) == {b \in q : b.h <= t /\ \A x \in q : b.h <= x.h}

\* The loop of the blockTimer case (lines 257-285): connect queued blocks
\* in height order; a block that does not connect is dropped and ends it.
\* Mutant: ConnectBlock accepts whatever it is given.
RECURSIVE ApplyQueueNoCheck(_, _)
ApplyQueueNoCheck(c, q) ==
  IF PopUntil(q, Len(c) + 1) = {} THEN [chain |-> c, q |-> q]
  ELSE LET b == CHOOSE x \in PopUntil(q, Len(c) + 1) : TRUE IN
       ApplyQueueNoCheck(Append(c, b), q \ {b})

\* Mutant: the loop pops up to the current height instead of the next.
RECURSIVE ApplyQueueOffByOne(_, _)
ApplyQueueOffByOne(c, q) ==
  IF PopUntil(q, Len(c)) = {} THEN [chain |-> c, q |-> q]
  ELSE LET b == CHOOSE x \in PopUntil(q, Len(c)) : TRUE IN
       IF Connectable(b, c) THEN ApplyQueueOffByOne(Append(c, b), q \ {b})
       ELSE [chain |-> c, q |-> q \ {b}]

RECURSIVE ApplyQueue(_, _)
ApplyQueue(c, q) ==
  IF PopUntil(q, Len(c) + 1) = {} THEN [chain |-> c, q |-> q]
  ELSE LET b == CHOOSE x \in PopUntil(q, Len(c) + 1) : TRUE IN
       IF Connectable(b, c) THEN ApplyQueue(Append(c, b), q \ {b})
       ELSE [chain |-> c, q |-> q \ {b}]

BlockTimer ==
  /\ frLock = 0
  /\ PopUntil(blockQ, Len(chain) + 1) # {}
  /\ LET r == ApplyQueue(chain, blockQ) IN
       /\ chain' = r.chain
       /\ blockQ' = r.q
  /\ UNCHANGED <<lastGenMessages, lastObSignMessageMap, lastReqMessage,
                 lastGenHeight, lastGenRecent, frLock, genLock, gens,
                 retries, inbox, connected, epoch, panicked, envVars>>

\* lastGenTime + 30s passes (never inside a round's pacing).
GenTimeExpires ==
  /\ lastGenRecent
  /\ \A g \in DOMAIN gens : ~Alive(g)
  /\ lastGenRecent' = FALSE
  /\ UNCHANGED <<chain, blockQ, lastGenMessages, lastObSignMessageMap,
                 lastReqMessage, lastGenHeight, frLock, genLock, gens,
                 retries, inbox, connected, epoch, panicked, envVars>>

\* The reconnect loop of FormulatorNodeMesh.Run redials a missing observer.
Reconnect(o) ==
  /\ ~connected[o]
  /\ connected' = [connected EXCEPT ![o] = TRUE]
  /\ UNCHANGED <<chain, blockQ, lastGenMessages, lastObSignMessageMap,
                 lastReqMessage, lastGenHeight, lastGenRecent, frLock,
                 genLock, gens, retries, inbox, epoch, panicked, envVars>>

\* The network drops a connection; unread messages are lost.
ConnLost(o) ==
  /\ connected[o]
  /\ connected' = [connected EXCEPT ![o] = FALSE]
  /\ inbox' = [inbox EXCEPT ![o] = <<>>]
  /\ UNCHANGED <<chain, blockQ, lastGenMessages, lastObSignMessageMap,
                 lastReqMessage, lastGenHeight, lastGenRecent, frLock,
                 genLock, gens, retries, epoch, panicked, envVars>>

-----------------------------------------------------------------------------
(* The observers (environment).  Their voting is out of scope; what they *)
(* do towards this formulator is: start a round naming a formulator,     *)
(* (re)send it BlockReqMessage, commit the blocks it emits that extend   *)
(* their chain, send BlockObSignMessage for those, and commit blocks of  *)
(* other formulators.  A BlockGenMessage for a height they have already  *)
(* committed is of no further use to them and is forgotten.              *)

NoRound == [f |-> "none", target |-> 1, tc |-> 0]

ObStartRound ==
  LET t == Len(obChain) + 1 IN
  /\ Len(obChain) < MaxHeight
  /\ \E f \in {"me", "other"}, tc \in 0..MaxTimeout :
       /\ \/ obRound.target < t /\ tc = 0
          \/ obRound.f = "none" /\ tc = 0
          \/ obRound.target = t /\ obRound.f # "none" /\ tc = obRound.tc + 1
       /\ obRound' = [f |-> f, target |-> t, tc |-> tc]
  /\ UNCHANGED <<fvars, obChain, genOut>>

ObSendReq(o) ==
  /\ obRound.f = "me"
  /\ obRound.target = Len(obChain) + 1
  /\ connected[o]
  /\ Len(inbox[o]) < InboxMax
  /\ inbox' = [inbox EXCEPT ![o] = Append(@,
                 [type |-> "req", target |-> obRound.target,
                  tc |-> obRound.tc, prev |-> TipHash(obChain)])]
  /\ UNCHANGED <<chain, blockQ, lastGenMessages, lastObSignMessageMap,
                 lastReqMessage, lastGenHeight, lastGenRecent, frLock,
                 genLock, gens, retries, connected, epoch, panicked, envVars>>

InRound(h) == obRound.target <= h /\ h < obRound.target + MaxBlocks

ObCommitGen ==
  /\ obRound.f = "me"
  /\ \E b \in genOut :
       /\ Connectable(b, obChain)
       /\ InRound(b.h)
       /\ b.h <= MaxHeight
       /\ obChain' = Append(obChain, b)
       /\ genOut' = {x \in genOut : x.h > b.h}
  /\ UNCHANGED <<fvars, obRound>>

ObCommitOther ==
  /\ obRound.f = "other"
  /\ Len(obChain) < MaxHeight
  /\ InRound(Len(obChain) + 1)
  /\ obChain' = Append(obChain, [h |-> Len(obChain) + 1,
                                 prev |-> TipHash(obChain),
                                 gen |-> "other", ep |-> 0])
  /\ genOut' = {x \in genOut : x.h > Len(obChain) + 1}
  /\ UNCHANGED <<fvars, obRound>>

ObSendSign(o) ==
  /\ obRound.f = "me"
  /\ connected[o]
  /\ Len(inbox[o]) < InboxMax
  /\ \E h \in obRound.target..Len(obChain) :
       /\ obChain[h].gen = "me"
       /\ inbox' = [inbox EXCEPT ![o] = Append(@,
                      [type |-> "sign", target |-> h, hash |-> obChain[h]])]
  /\ UNCHANGED <<chain, blockQ, lastGenMessages, lastObSignMessageMap,
                 lastReqMessage, lastGenHeight, lastGenRecent, frLock,
                 genLock, gens, retries, connected, epoch, panicked, envVars>>

\* A block of the observers' chain reaches us (BlockMessage answering
\* tryRequestNext / a StatusMessage, or from a node peer).
Deliver == \E h \in 1..Len(obChain) : AddBlock(obChain[h])

-----------------------------------------------------------------------------
Init ==
  /\ chain = <<>>
  /\ blockQ = {}
  /\ lastGenMessages = <<>>
  /\ lastObSignMessageMap = <<>>
  /\ lastReqMessage = NoReq
  /\ lastGenHeight = 0
  /\ lastGenRecent = FALSE
  /\ frLock = 0
  /\ genLock = 0
  /\ gens = [g \in 1..GenSlots |-> NoGen]
  /\ retries = {}
  /\ inbox = [o \in Observers |-> <<>>]
  /\ connected = [o \in Observers |-> TRUE]
  /\ epoch = 0
  /\ panicked = FALSE
  /\ obChain = <<>>
  /\ obRound = NoRound
  /\ genOut = {}

FormulatorNext ==
  \/ \E o \in Observers : HandleBlockReq(o) \/ HandleObSign(o)
  \/ \E r \in retries : HandleRetry(r)
  \/ \E g \in DOMAIN gens :
       GenAcquireLock(g) \/ GenStart(g) \/ GenBlock(g) \/ GenWake(g)
  \/ BlockTimer
  \/ Deliver
  \/ GenTimeExpires
  \/ \E o \in Observers : Reconnect(o)
  \/ Restart

EnvNext ==
  \/ ObStartRound
  \/ ObCommitGen
  \/ ObCommitOther
  \/ \E o \in Observers : ObSendReq(o) \/ ObSendSign(o) \/ ConnLost(o)

Next == FormulatorNext \/ EnvNext

\* Every goroutine of the formulator that can run eventually runs; the
\* observers, the network and crashes are not assumed to do anything.
Fairness ==
  /\ \A o \in Observers : WF_vars(HandleBlockReq(o)) /\ WF_vars(HandleObSign(o))
  /\ WF_vars(\E r \in retries : HandleRetry(r))
  /\ \A g \in 1..GenSlots : /\ WF_vars(GenAcquireLock(g))
                            /\ WF_vars(GenStart(g))
                            /\ WF_vars(GenBlock(g))
                            /\ WF_vars(GenWake(g))
  /\ WF_vars(BlockTimer)
  /\ WF_vars(Deliver)
  /\ \A o \in Observers : WF_vars(Reconnect(o))

Spec == Init /\ [][Next]_vars /\ Fairness

-----------------------------------------------------------------------------
(* Properties                                                              *)

TypeOK ==
  /\ \A i \in 1..Len(chain) : IsBlock(chain[i]) /\ chain[i].h = i
  /\ \A b \in blockQ : IsBlock(b)
  /\ \A i \in 1..Len(lastGenMessages) : IsBlockGenMessage(lastGenMessages[i])
  /\ \A b \in genOut : IsBlockGenMessage(b)
  /\ lastReqMessage = NoReq \/ IsBlockReqMessage(lastReqMessage)
  /\ \A r \in retries : IsBlockReqMessage(r[2])
  /\ \A h \in DOMAIN lastObSignMessageMap :
       IsBlockObSignMessage(lastObSignMessageMap[h]) /\ lastObSignMessageMap[h].target = h
  /\ \A o \in Observers : \A i \in 1..Len(inbox[o]) :
       IsBlockReqMessage(inbox[o][i]) \/ IsBlockObSignMessage(inbox[o][i])
  /\ lastGenHeight \in 0..(MaxHeight + MaxBlocks)
  /\ lastGenRecent \in BOOLEAN
  /\ frLock \in 0..GenSlots /\ genLock \in 0..GenSlots
  /\ \A g \in DOMAIN gens :
       gens[g].pc \in {"none", "waitLock", "waitGenLock", "gen", "sleep"}
  /\ \A o \in Observers : Len(inbox[o]) <= InboxMax
  /\ epoch \in 0..MaxRestarts

\* The round driver implements the tip advancer's promise (AgreedChain):
\* through the signature path, blockQ, restarts and retries the chain only
\* grows, by blocks the observers agreed on, and is never rolled back or
\* replaced, with the observers' chain as the agreed one.
Agreed == INSTANCE AgreedChain WITH agreed <- obChain
ImplementsAgreedChain == Agreed!Spec

\* No lock cycle: a genBlock goroutine sleeping with genLock held while a
\* second genBlock goroutine holds fr.Lock and waits for genLock would
\* block both forever (the sleeper re-locks fr.Lock after its sleep).
NoCircularWait ==
  ~\E g1, g2 \in DOMAIN gens :
     /\ Gen(g1, "sleep") /\ genLock = g1
     /\ Gen(g2, "waitGenLock") /\ frLock = g2

\* Once the observers stop extending their chain, the formulator's chain
\* catches up with it (block timer, sync and signature paths together).
CatchUp == <>[](chain = obChain)

=============================================================================
