# TLA+ models of the FLETA testnet formulator

This directory holds TLA+ models of the Go code under `src/`, the TLC
configurations that check them, and `PROJECT.json`. `PROJECT.json` records:

- the components;
- the runs and their expected outcome;
- the mutants;
- the map from every TLA+ definition to the source lines it models;
- the findings;
- the hazards of the code.

## The system

The source is a slice of the FLETA proof-of-formulation node. These parts
change state:

| Part | Source | What it does |
|---|---|---|
| Formulator round driver | `src/pof/formulator_node.go` (`handleObserverMessage`, `genBlock`) | Answers an observer's `BlockReqMessage` by generating up to `RemainBlocks` blocks in a goroutine guarded by `fr.Lock` and `genLock`, sends each as a `BlockGenMessage`, then commits each one when its `BlockObSignMessage` arrives. |
| Tip advancer / block sync | `formulator_node.go` (`Run` block timer, `addBlock`, `tryRequestBlocks`, `tryRequestNext`, `handlePeerMessage`) | Queues blocks received from observers and nodes in the height-sorted `blockQ`. Every 50ms it connects them in order. It requests missing heights and detects forks. |
| Transaction pool | `formulator_node.go` (`AddTx`, `addTx`, `cleanPool`, `OnItemExpired`, TxLoop of `genBlock`) | Admits transactions by sequence window and pool cap, removes them when included, and re-broadcasts them on expiry. |
| Formulator observer mesh | `src/pof/formulator_mesh.go` | Keeps one TCP connection per observer. It redials every second and closes a connection when a handler returns an error. |
| Observer formulator service | `src/pof/observer_formulator_service.go` | The observer-side server holding formulator connections, one `peerMap` entry per formulator. |
| Node mesh | `src/service/p2p/node_mesh.go` | The peer-to-peer mesh of full nodes: client/server peer maps, reconnects and limited broadcast. |
| Framed peers | `src/service/p2p/tcp_peer.go`, `websocket_peer.go` | Length-framed messages and keepalive pings. |
| Vault and unstaking | `src/process/vault/vault_method.go`, `src/process/formulator/tx_unstaking.go` | Balances, locked balances by unlock height, and fees. |
| Utilities | `src/core/types/util.go`, `src/core/chain/commiter.go` | Transaction IDs and the committer interface. |

How the parts interact:

- The observers are outside this repository. They run a consensus that names one formulator per round and send that formulator a `BlockReqMessage` over the formulator mesh.
- The formulator's connection goroutine runs `handleObserverMessage` for each message it reads. The handlers, the block timer and the genBlock goroutine all serialise on `fr.Lock`.
- A handler that returns an error closes the connection. The mesh's reconnect loop then redials it.
- Blocks the formulator misses reach it as `BlockMessage`s from observers or nodes, and go into `blockQ`.

## Modules

### `FormulatorRound` (with `MCFormulatorRound`)

**State.** The formulator's round state:

- `chain`, the persistent store;
- `blockQ`;
- `lastGenMessages` and `lastObSignMessageMap`;
- `lastReqMessage` (`NoReq` is nil);
- `lastGenHeight`, and `lastGenRecent` for the 30s window of `lastGenTime`;
- the two mutexes, as the id of the holding genBlock goroutine;
- the genBlock goroutines, as a function from slot to program counter;
- the pending 50ms retry goroutines;
- the unread messages and presence of each observer connection;
- the restart count.

A block is the record `[h, prev, gen, ep]`. Its `prev` field is the previous block itself, so a block is its own header hash, and a hash comparison is record equality. `ep` separates blocks generated by different process lifetimes.

**Actions.** Each action is one atomic section of the code:

| Action | Code |
|---|---|
| `HandleBlockReq`, `HandleObSign`, `HandleRetry` | One handler body under `fr.Lock`. The request body is `ReqHandler`. Its early returns are `ReqSuppressed`. The drain loop is the recursive `Drain`, with `TargetHeight` fixed before the loop as in the code. |
| `GenAcquireLock` | The goroutine's `fr.Lock()`. |
| `GenStart` | `genLock.Lock()`, the resets at the top of `genBlock`, `RemainBlocks`, and `NewContext` on the current tip. |
| `GenBlock` | One loop iteration. `SendTo` may fail: the observer is gone and the goroutine returns. Otherwise the block is appended and the loop either continues or unlocks and sleeps. |
| `GenWake` | Re-locking after the sleep, or leaving `genBlock`. |
| `BlockTimer` | The whole `blockTimer` case of `Run`: `PopUntil`, `ConnectBlock` and the drop-and-stop on failure, through `ApplyQueue`. |
| `Deliver` | `addBlock` of an agreed block. |
| `Reconnect`, `ConnLost` | The mesh redialing a connection, and the network dropping one. |
| `Restart` | The process dies and starts again. Everything except the chain store is lost. |

`HandleObSign` also has a path where the nil `lastReqMessage` is dereferenced. That path is a crash (`Crash(TRUE)`), which records `panicked`. After a restart, the sign message of the earlier lifetime can still arrive. The `round_safety` run reaches that crash, and it checks that `ImplementsAgreedChain` and `CatchUp` hold through it.

**The observers.** They are the environment, with these actions:

- `ObStartRound`: start a round naming us or another formulator at the next height, or a timeout round at the same height;
- `ObSendReq`: send a request;
- `ObCommitGen` and `ObCommitOther`: commit one of our emitted blocks that extends their chain, or another formulator's block;
- `ObSendSign`: send a signature for any of our committed blocks of the round, in any order.

The observer actions have no fairness.

**Fairness.** Every formulator goroutine gets weak fairness: the handlers, the retry goroutines, every genBlock step, the block timer, delivery of agreed blocks, and the redial. These are all goroutines or timer loops that Go schedules eventually once they are runnable. The environment, connection loss and restarts get none.

**Timing assumption.** `PacingBeforeNextRound` says that no request is accepted while a genBlock goroutine is alive. Observer rounds last longer than the remaining pacing sleep (at most 500ms). With it `FALSE` the model checks what happens without that timing.

**Properties:**

- `TypeOK`: the chain's i-th block has height i, and every message the round driver holds or has queued has the shape of its type in `messages.go`: a `BlockReqMessage` (`IsBlockReqMessage`) names a target height one past its `PrevHash`; a `BlockGenMessage` (`IsBlockGenMessage`) is a block of this formulator; a `BlockObSignMessage` (`IsBlockObSignMessage`) signs a generated block of its `TargetHeight`. This covers `lastGenMessages`, `lastReqMessage`, the retry goroutines, `lastObSignMessageMap` and the inboxes.
- `ImplementsAgreedChain` (refinement): the formulator's chain and the observers' chain together implement the abstract spec `AgreedChain` (see below). So the formulator's chain is always a prefix of the agreed chain, and it only grows. A restart or a dropped queue never rewrites or shortens the stored chain.
- `NoCircularWait`: no genBlock goroutine sleeps holding `genLock` while another holds `fr.Lock` waiting for it.
- `CatchUp` (liveness): the chain eventually equals the observers' chain for good.

### `TxPool` (with `MCTxPool`)

This module covers transaction admission and inclusion.

**State:**

- `chainSeq`: the committed `ctx.Seq` of each account;
- `included`: a history of committed transactions;
- `pool`: the txpool records;
- `txQ`: the expire queue, mapping each hash to the number of groups already expired;
- `worker`: one `addTx` in progress per transaction worker;
- `builder`: the genBlock `TxLoop`;
- `candidate`: our last built block, while it is uncommitted.

A transaction is `[from, seq, id]`. `id` tells apart two transactions of one account with the same sequence number.

**Actions.** `addTx` runs without any formulator lock and is split where other threads can interleave:

| Action | Code |
|---|---|
| `WorkerCheck` | The size check, `NewContext`, `IsExist`, the sequence window and `Validate`. |
| `WorkerPush` | `txpool.Push`, which blocks while `txpool.Lock` is held by the builder. |
| `WorkerEnqueue` | `txQ.Push`. |
| `BuildStart`, `BuildPop`, `BuildStop` | The `TxLoop`: `UnsafePop` removes a ready record; `UnsafeAddTx` may fail; the loop breaks on `Count > MaxTransactionsPerBlock`. |
| `CommitOwn` | A signed block of ours is connected, followed by `cleanPool`. |
| `CommitOther` | A block from the queue is connected, followed by `cleanPool`. |
| `DropOwn` | The environment: the observers choose another block. |
| `Expire` | `OnItemExpired`. |

`Push` and `UnsafePop` belong to the txpool package, which is outside this repository. They are modelled from spec 4.3 (`PoolPush`, `Ready`).

**Properties:**

- `PoolTracked`: every pool record is in the expire queue, or its worker is about to put it there.
- `PoolDrains` (liveness): every record that enters the pool eventually leaves it.
- `NoIncludedInPool`: spec invariant 4.

The `Count > MaxTransactionsPerBlock` break (`formulator_node.go:1015`) lets a block carry one transaction more than the limit. That is a hazard in `PROJECT.json`; a unit test reaches it, so no run checks it.

**Fairness.** Weak fairness is assumed for the worker's push and enqueue steps, the expire timer and the builder. Submissions, rounds and commits are environment steps with no fairness.

### `NodeMesh` (with `MCNodeMesh`)

This module covers the node-to-node mesh of `node_mesh.go`, with the formulator's `OnConnected`/`OnDisconnected` as its handler.

**State:**

- `clientPeerMap` and `serverPeerMap`: node ID to connection;
- `conn`: each connection slot with its node, its side, whether it is open, the program counter of the goroutine serving it, and whether that goroutine is the Run loop's;
- `statusMap`: the node IDs with an `fr.statusMap` entry;
- `budget`: the breaks, `RequestConnect` calls and accepts the environment may still make.

A slot is reused only when no goroutine and no map entry refers to it.

**Actions:**

| Action | Code |
|---|---|
| `RunLoop` | One iteration of the per-seed loop of `Run`. It dials only when neither map holds the node and the loop is not already inside `client`. |
| `RequestConnect` | `go ms.client(...)`, whatever the maps hold. |
| `Accept` | `server` accepting a connection and completing the handshake. |
| `Install` | Under `ms.Lock`: `old = map[ID]`, `map[ID] = p`. Without an old entry, `handleConnection` starts and `OnConnected` runs. |
| `Replace` | `removePeerInMap(old.ID())`, then `OnConnected`. `removePeerInMap` deletes and closes `clientPeerMap[ID]`, whichever map it is given. |
| `ServeEnd` | The read fails on the closed connection, and `OnDisconnected` deletes `statusMap[ID]`. |
| `Cleanup` | The defers: `removePeerInMap(p.ID())`, then `conn.Close()`. |
| `SendTo` | The client entry, else the server entry. When `Send` fails, `RemovePeer(ID)` deletes and closes both entries. |
| `Drop` | The network or the remote closes a connection. This includes the ping goroutine of `tcp_peer.go`. |

A failed handshake never reaches a map, so it is not an action.

**Fairness.** The Run loop and every connection goroutine get weak fairness. Drops, `RequestConnect`, accepts and sends get none.

**Properties:**

- `TypeOK` (in `mesh_safety`): the maps, the connection goroutines and `statusMap` stay well formed.
- `SeedConnected` (liveness): every seed ends up connected through a map.

Two further defects of this code are hazards in `PROJECT.json` with no run:

- a finished server goroutine leaves its `serverPeerMap` entry (`node_mesh.go:392`);
- two overlapping connections of one node share a `statusMap` entry, so the end of one deletes the status of the other (`formulator_node.go:413`).

### `ObserverLink` (with `MCObserverLink`)

This module covers the formulator–observer connection from both ends:

- `FormulatorNodeMesh.client`, run by the per-observer loop of `Run`;
- `FormulatorService.server`, with one goroutine per accepted connection.

Both ends do `RemovePeer(ID)`, install `peerMap[ID] = p`, and `defer RemovePeer(p.ID())`. `RemovePeer` works by ID.

**State:**

- `fPeerMap`: the formulator's `peerMap`;
- `oPeerMap`: each observer's `peerMap` entry for this formulator;
- `conn`: per slot, the program counter of the goroutine at each end (`f`, `o`) and whether each end is open. TCP ends close separately: a break or a `Close` is seen by the other end later, through `Propagate`;
- `obStatusMap`: the observers with an `fr.obStatusMap` entry;
- `drops`: the breaks the environment may still make.

**Actions.**

- Formulator end: `RunLoop`, `FRemove`, `FInstall` (with `OnObserverConnected`), `FServeEnd` (with `OnObserverDisconnected`), `FCleanup`, and `FSendFail` (`SendTo`, `SendRawTo` or `SendRawAnyoneExcept` failing).
- Observer end: `ORemove`, `OInstall`, `OServeEnd`, `OCleanup` and `OSendFail`.
- Network: `Drop` and `Propagate`.

**Timing assumption.** With `RedialAfterUnwind`, the formulator redials an observer only when each server goroutine left for it is either gone or blocked reading an end that is still open (a half-open connection). The loop sleeps 1s before redialing. A server goroutine that is not blocked unwinds in microseconds.

**Fairness.** The Run loop, every goroutine step, and `Propagate` (a FIN or a read timeout) get weak fairness. Breaks and failed sends get none.

**Properties:**

- `FormulatorCleanupOwnOnly` (action property): the formulator's deferred `RemovePeer` never closes another connection.
- `ObserverCleanupOwnOnly` (action property): the same for the observer's server goroutine.
- `ObStatusOfLivePeer`: an observer the formulator serves has an `obStatusMap` entry.
- `LinkUp` (liveness): once breaks stop, both peer maps hold the same open connection for every observer.

### `BlockSync` (with `MCBlockSync`)

This module covers how the tip advances from blocks fetched from node peers and observers (`formulator_node.go`).

**State:**

- `tip`: the chain height;
- `blockQ`: the queued blocks;
- `statusMap` and `obStatusMap`: the advertised heights, `None` when there is no entry;
- `nodeTimer` and `obTimer`: the two request timers, from height to the remote asked;
- `link`: each remote's connection, `up`, `closing` (closed, its disconnect callback not yet run) or `down`;
- `recvQ` and `obIn`: `recvQueues[0]` and the unread messages of each observer connection;
- the environment: `remoteH` (each remote's height), `pending` (its unanswered requests) and `drops`.

A block is `[h, ok]`. `ok` means it is the block the observers agreed on. A Byzantine node peer answers with blocks of its own.

**Actions:**

| Action | Code |
|---|---|
| `RecvStep` | The recv goroutine of `Run`: `handlePeerMessage` for a `StatusMessage` (`RecvStatus`, with its requests) or a `BlockMessage` (`RecvBlocks`: `addBlock` per block, then the status raise). An error makes it `RemovePeer` the sender. |
| `ObRecv` | The observer connection goroutine: `handleObserverMessage` for a `StatusMessage` (`ObStatus`) or a `BlockMessage` (`ObBlocks`). A forked block panics. |
| `BlockTimer` | The 50ms case of `Run`: `PopUntil`, connect in order, then `tryRequestBlocks` if anything was connected. |
| `RequestTick` | The 500ms case: `tryRequestBlocks`, then `tryRequestNext`. |
| `NodeTimerExpire`, `ObTimerExpire` | A request timer entry expires. Both timers are built with `NewRequestTimer(nil)`, so an expiry only forgets the entry. |
| `PeerConnected`, `ObConnected` | `OnConnected` and `OnObserverConnected`. The observer sends its status on connect. |
| `PeerDisconnected`, `ObDisconnected` | `OnDisconnected` and `OnObserverDisconnected`: delete the status, `RemovesByValue`, then request again. |
| `Drop`, `RemoteAnswer`, `Advance` | The environment: a connection is lost; a remote answers a `RequestMessage` as its `RequestMessage` case does; a remote connects a block and broadcasts its status. |

`p2p.RequestTimer` and `queue.SortedQueue` are outside this repository and are modelled from spec 4.6.

**Fairness.** Weak fairness is assumed for the two timer cases of `Run` and, per observer, for its connection goroutine, its connect and disconnect callbacks, its answers and the expiry of `requestTimer` entries. Nothing is assumed of node peers or of the recv goroutine: the observers are what the formulator relies on.

**Properties:**

- `CatchUp` (liveness): the tip eventually reaches the agreed height and stays there. This holds although no timer expiry requests anything itself: the 500ms loop asks again.
- `NoForkPanic`: spec 5 says a fork removes the peer that delivered it. The code panics instead.

### `FramedPeer` (with `MCFramedPeer`)

This module covers the two ends of one peer connection (`tcp_peer.go`, `websocket_peer.go`). `Init` chooses the kind once.

**State:** `isClose`, `pingCount`, `wire` (frames in flight), the websocket `writeQueue`, whether a handler holds the reader (`busy`, `stall`), whether each end has ticked this round, whether it is `alive`, why it closed (`cause`), and the `sent` and `delivered` histories.

**Actions:** `SendRaw` (TCP writes the frame at once; websocket queues it, even after `Close`), `WsWrite` (the websocket writer goroutine), `Tick` (the ping goroutine: write a ping, count it, close past `pingCountLimit`), `Read` (`ReadMessageData`: TCP resets the counter on any read, websocket only in its ping handler), `HandlerDone`, `ReadEOF`, `RemovePeer` and `Crash` (an end stops with no FIN). `NewRound` advances time.

**Time.** Time is modelled by rounds of the 10s ping ticker. Each live end ticks once per round. A round ends only when every idle reader has read what was sent to it and every write queue is empty. This assumes delivery is faster than 10s. A handler may hold the reader for up to `StallMax` rounds.

**Fairness.** Weak fairness is assumed for rounds and for every goroutine step. Sends, `RemovePeer` and crashes get none.

**Properties:**

- `NoFalseClose`: the ping counter closes a connection only when the other end has gone silent.
- `DeliveredInOrder`: what one end reads is, in order, a prefix of what the other sent.
- `LinkEnds` (liveness): once one end has closed or gone silent, the other eventually closes too.

With `StallMax = 2`, TLC finds `NoFalseClose` violated for websocket peers only. A data frame read before the remote's ping does not reset the counter (`websocket_peer.go:47`), so a handler holding the reader for two ticks lets a live link close. TCP survives the same trace. This is a hazard in `PROJECT.json`; `peer_keepalive` uses `StallMax = 1`.

### `AgreedChain`: the abstract chain

This is the promise the formulator's tip advancer makes. Its state is the observers' agreed chain `agreed` and the formulator's stored `chain`. It has two actions:

- `Agree` extends `agreed` by one block;
- `Adopt` extends `chain` to a longer prefix of `agreed`.

Nothing else happens: the chain never forks, is never shortened and never takes a block the observers did not agree on. `FormulatorRound` instantiates it with `agreed <- obChain` and checks `ImplementsAgreedChain == Agreed!Spec` as a temporal property. Every `FormulatorRound` step must then be an `Agree`, an `Adopt`, or a stutter of the pair. A restart, a dropped `blockQ` and a commit of one of our own signed blocks are therefore checked steps, not just reachable states.

### `Vault` and `Unstaking` (with `MCUnstaking`)

`Vault` models the methods of `vault_method.go` on one context record `ctx`. The record holds:

- `balance` per address;
- the `collected` fee;
- per unlock height: `locked` per address, the `number` key of an address, the `reverse` key of a number, and the `count`;
- `lockedSum` per address;
- the formulator accounts' `stake` per (hyper, address), their `total`, and `unstaking` per (hyper, address, height);
- the last transaction `seq` per address.

A method is an operator from a context to `[ok, ctx]`. `Snapshot`/`Revert` become keeping or discarding the returned context. The operators that model code are:

- `AddBalance`/`SubBalance`: the first rejects a negative amount; the second fails below the amount but does not check its sign;
- `AddCollectedFee`/`SubCollectedFee`;
- `CheckFeePayable`;
- `TakeFee` and `WithFee`: the fee is taken before the snapshot, so an error of the wrapped function reverts only that function;
- `AddLockedBalance` and `FlushLockedBalanceMap`: the three-key index and its flush.

The callers of these methods other than Unstaking are outside the repository. They are the environment actions `CallBalance`, `CallFee`, `CallAddLockedBalance` and `Flush`, with amounts of either sign.

`Unstaking` extends `Vault` with the Unstaking transaction of `tx_unstaking.go`:

- `Validate` is the transaction's `Validate`;
- `Execute` is its `Execute`, run inside `WithFee`;
- `AddTx` is the chain's add-transaction step: Validate, a snapshot, Execute, then keep or revert, with the sequence advanced on success;
- `NextBlock` advances the height.

The formulator account's staking methods (`SubStakingAmount`, `AddUnstakingAmount`) and `UnsafeAddTx` live outside `src/`, so they are modelled from the spec.

**Properties:**

- `LockIndexConsistent`: at every unlock height, the count, number keys and reverse keys stay a bijection, and every address holding a locked amount is indexed, across any sequence of locks and flushes.
- `FlushReleasesAll` (action property): a flush returns every amount locked at its height and leaves none behind.
- `ValidatedExecutes`: a transaction that passed `Validate` never fails in `Execute`. A failure would leave the fee taken while the rest is reverted.
- `CoinsConserved`: balances, collected fees, stakes and unstaking amounts sum to what the environment minted. No Unstaking, whether it succeeds, fails or is rejected, creates or destroys coins.

No fairness: every step is a call from outside.

## Runs

| Run | Configuration | Result | What it shows |
|---|---|---|---|
| `round_safety` | `MCFormulatorRound.cfg` | pass, about 585k states, under 3 min | `TypeOK`, `ImplementsAgreedChain` and `CatchUp` hold through the following: up to two restarts; a signature arriving after a restart that panics the handler; connection loss; a retry; timeout rounds; a signature for the second block of a round stored before the first and both drained by the first's arrival. |
| `lock_cycle` | `MCFormulatorRound_deadlock.cfg` | violation of `NoCircularWait` | Without the timing assumption, a stale or retried request accepted during the pacing sleep deadlocks the formulator (`formulator_node.go:1054` against `:699-703`). |
| `pool_safety` | `MCTxPool.cfg` | pass, about 48k states | With one worker, block building, both kinds of commit and expiry, every record is tracked by the expire queue. Every record also eventually leaves the pool. |
| `pool_included_race` | `MCTxPool_clean.cfg` | violation of `NoIncludedInPool` | Two workers. One worker checks a transaction; a block including it commits and cleans the pool; then the worker pushes it. An included transaction is back in the pool (`formulator_node.go:348`). |
| `mesh_safety` | `MCNodeMesh.cfg` | pass, about 62k states (symmetry over slots) | With the Run loop, two `RequestConnect`s, two accepts, three breaks and failed sends interleaved, the state stays well formed. This run fires every action; the question it asks is `seed_orphaned`'s. |
| `seed_orphaned` | `MCNodeMesh_seed.cfg` | violation of `SeedConnected` | One `RequestConnect` racing the Run loop ends as follows: `removePeerInMap(old.ID())` closes the new peer; the loop's old peer keeps running in no map; the loop stays blocked serving it. `SendTo` to the seed then fails for as long as that connection lives (`node_mesh.go:340`). The trace also contradicts spec 4.2 ("the older entry is closed"). |
| `link_safety` | `MCObserverLink.cfg` | pass, about 8k states | The formulator's loop makes one attempt at a time. Because of this, its cleanup never closes a newer connection, `obStatusMap` stays in step, and every link comes back once breaks stop. |
| `observer_stale_remove` | `MCObserverLink_stale.cfg` | violation of `ObserverCleanupOwnOnly` | The formulator reconnects while its old connection is still served at the observer. The old server goroutine's deferred `RemovePeer(ID)` runs after the new install and closes the new connection (`observer_formulator_service.go:170`). |
| `block_sync` | `MCBlockSync.cfg` | pass, about 241k states, under 3 min | One node peer, one observer and one lost connection. With fairness only for the observer, the tip reaches the agreed height through status messages, the request loops and the disconnect callbacks. |
| `fork_panic` | `MCBlockSync_fork.cfg` | violation of `NoForkPanic` | A faulty node peer's block is queued at a height first. The observer then delivers the agreed block for that height, `addBlock` reports a fork, and the handler panics (`formulator_node.go:815`). |
| `peer_keepalive` | `MCFramedPeer.cfg` | pass, about 200k states | For both kinds of peer, with one crash, pings and handlers holding the reader for a round, the counter never closes a live link, frames arrive in order, and no connection stays half open. |
| `unstake_ledger` | `MCUnstaking.cfg` | pass, about 318k states, about 1 min | Arbitrary balance, fee and lock calls are interleaved with Unstaking transactions and flushes. The lock index stays consistent, and flushes release everything. Validated transactions never fail after paying the fee, and coins are conserved. |

### Bounds

The passing runs use:

- one observer connection (a second one gives the same interleavings with a larger state space);
- a chain of 2 agreed heights;
- rounds of up to 2 blocks;
- one timeout round;
- one unread message per connection;
- two restarts, so that the panic after a restart happens;
- a retry cap of 1 in the passing run;
- one genBlock slot, which is enough because the timing assumption admits only one live goroutine.

These bounds reach every case the properties are about:

- a block regenerated after a restart at a height the observers already committed;
- a round generated on a tip moved by `blockQ`;
- a signature reordered after its successor's;
- a retry accepted late.

`SignWindow` is the code's literal 10, scaled to the bounded heights. The code's window is at least a round long, so `SignWindow = MaxBlocks = 2`: the signature for a round's second block can be stored before the first's, and the first's arrival then drains both (`formulator_node.go:715-781`). A signature two heights above the request is refused.

`TxPool` uses:

- one account, with two variants of each of sequence numbers 1 and 2;
- one worker in `pool_safety` and two in the race runs, where two workers are what the race needs;
- a pool capacity of 2, so the cap is reached;
- a sequence window of 1;
- `MaxTransactionsPerBlock` of 2;
- two expiry groups (the code has three; a third only repeats the re-broadcast).

`lock_cycle` uses two genBlock slots, which is what the deadlock needs.

`NodeMesh` uses:

- one remote node (collisions happen per node ID);
- four connection slots;
- three breaks, two `RequestConnect` calls and two accepts in `mesh_safety`.

The violation runs use the fewest events that reach their traces.

`ObserverLink` uses:

- one observer;
- three slots;
- three breaks.

These bounds are enough for a half-open connection, a reconnect and a second break during it.

`BlockSync` uses:

- one node peer and one observer (two node peers, one of them faulty, in `fork_panic`);
- an agreed chain of 2 heights, with windows of 2 blocks and one window per `tryRequestBlocks`, so that a window reaches the end of the chain;
- one unread message per queue;
- one lost connection, so that requests are lost with it and asked again.

`FramedPeer` uses:

- message sizes 3 and 1001, on both sides of the 1000-byte gzip threshold;
- one message per end;
- `PingCountLimit` of 3, as in the code;
- one crash;
- `StallMax` of 1.

`Unstaking` uses:

- two addresses, one hyper formulator and one other formulator;
- stakes of 1 or 2 coins;
- balances of 0 or one fee;
- amounts of `Coin - 1` (refused), `Coin` and `2 * Coin` (more than some stakes);
- one sequence number;
- one lock height and two block heights with `UnlockBlocks = 1`.

These bounds are enough for each of the following:

- an address indexed, flushed and indexed again at the same height;
- two addresses sharing a height;
- a fee that is or is not payable;
- an unstaking that exceeds the stake.

## Not modelled

- The observers' consensus, which is outside this repository.
- Cryptography (signatures, public hashes), block contents and the codec. Blocks are records; a hash comparison is equality.
- gzip compression in the framed peers: a compressed payload is a stream of some non-empty length.
- The write deadline of `TCPPeer.SendRaw`; a failed write is the `Drop` of the mesh models.
- Logging.
- `MarshalID`/`UnmarshalID`, `TransactionID`/`ParseTransactionID` and the other encodings of `util.go`. They are pure conversions with no state. Each would need a run of its own, and the project has none to spare.
- `Unstaking.MarshalJSON` and the encoding of the messages in `messages.go`. Their fields are record predicates of `FormulatorRound` (see `TypeOK`). The round-vote and block-vote messages belong to the observers' consensus.
- The `uint8` request count of `tryRequestBlocks` (`formulator_node.go:653`). A gap that is a multiple of 256 blocks asks for one block instead of ten. This only costs speed: the next status or timer asks again, so `CatchUp` is unaffected.
- The staking ledger of the formulator account, the vault's block hook that calls `flushLockedBalanceMap`, and `UnsafeAddTx`. They are outside `src/`: the first and the last are modelled from the spec, and the hook is an environment action.
- The handshakes (`recvHandshake`, `sendHandshake`). A failed one never reaches a map.
- `BroadcastMessage` and `ExceptCastLimit`. They only read the maps and ignore send errors.
- The node pool manager, which is outside this repository.
- `GuessHeight`/`UpdateGuessHeight` of the observer service and the framed peers. Only the observers, outside this repository, read them.
- The observer `RequestMessage` case of `handleObserverMessage`. It only reads the chain and answers. Its one state change, a failed `SendTo` closing the connection, is `ConnLost` of `FormulatorRound`.
