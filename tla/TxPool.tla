------------------------------- MODULE TxPool -------------------------------
(***************************************************************************)
(* Transaction admission and inclusion of the Formulator                  *)
(* (src/pof/formulator_node.go).                                           *)
(*                                                                         *)
(* Threads that touch the pool:                                            *)
(*  - the transaction workers of Run (and AddTx), each running addTx       *)
(*    without any formulator lock: size check, NewContext, IsExist,        *)
(*    sequence gating and Validate, then txpool.Push, then txQ.Push;       *)
(*  - the genBlock TxLoop, which holds txpool.Lock and pops ready          *)
(*    transactions into the block under construction;                     *)
(*  - block commits (ConnectBlockWithContext of our block, ConnectBlock    *)
(*    of a block from the queue), each followed by cleanPool;              *)
(*  - the expire queue calling OnItemExpired.                              *)
(*                                                                         *)
(* The txpool package is outside this repository: Push and UnsafePop are  *)
(* modelled from the spec (4.3).  A transaction is a record [from, seq,   *)
(* id]; the record is its own hash, and id tells apart two transactions   *)
(* of one account with the same sequence number.                          *)
(***************************************************************************)
EXTENDS Integers, FiniteSets, Sequences, SequencesExt, TLC

CONSTANTS
  Accounts,       \* senders
  Ids,            \* variants of a transaction with the same (from, seq)
  MaxSeq,         \* largest sequence number submitted
  Workers,        \* transaction workers (WorkerCount, plus AddTx callers)
  PoolCap,        \* the 65535 of txpool.Push, scaled
  SeqWindow,      \* the 100 of addTx's ErrTooFarSeq check, scaled
  MaxTxPerBlock,  \* Config.MaxTransactionsPerBlock
  ExpireTiers     \* the groups added to txQ (60s, 600s, 3600s)

ASSUME /\ MaxSeq \in Nat \ {0}
       /\ PoolCap \in Nat \ {0}
       /\ SeqWindow \in Nat \ {0}
       /\ MaxTxPerBlock \in Nat \ {0}
       /\ ExpireTiers \in Nat \ {0}

Txs == [from : Accounts, seq : 1..MaxSeq, id : Ids]

VARIABLES
  chainSeq,   \* ctx.Seq(addr) of the committed chain state
  included,   \* transactions in committed blocks (history)
  pool,       \* txpool records
  txQ,        \* expire queue: hash -> groups already expired
  worker,     \* addTx in progress per worker
  builder,    \* the genBlock TxLoop
  candidate   \* transactions of our generated, not yet committed block

vars == <<chainSeq, included, pool, txQ, worker, builder, candidate>>

Idle == [pc |-> "idle"]
NoBuild == [pc |-> "idle"]

-----------------------------------------------------------------------------
(* The txpool package, from spec 4.3.                                    *)

\* push: fails when the pool holds PoolCap records or the hash exists.
PoolPush(p, t) == IF Cardinality(p) >= PoolCap \/ t \in p THEN p ELSE p \cup {t}

\* unsafe_pop: the records ready under the context's sequence numbers.
Ready(p, seqs) == {t \in p : t.seq = seqs[t.from] + 1}

-----------------------------------------------------------------------------
(* addTx, run by a transaction worker.                                     *)

\* Everything before txpool.Push: the size check, ctx := NewContext(),
\* IsExist and the sequence window, then signer recovery and Validate.
\* Errors are returned to the submitter and the worker takes the next item.
WorkerCheck(w) ==
  /\ worker[w] = Idle
  /\ \E t \in Txs :
       LET seq == chainSeq[t.from] IN
       IF /\ ~(Cardinality(pool) > PoolCap)
          /\ t \notin pool
          /\ seq < t.seq /\ t.seq <= seq + SeqWindow
       THEN worker' = [worker EXCEPT ![w] = [pc |-> "push", tx |-> t]]
       ELSE UNCHANGED worker
  /\ UNCHANGED <<chainSeq, included, pool, txQ, builder, candidate>>

\* fr.txpool.Push, blocked while genBlock holds txpool.Lock; on success the
\* worker goes on to txQ.Push.
WorkerPush(w) ==
  /\ worker[w].pc = "push"
  /\ builder.pc = "idle"
  /\ LET t == worker[w].tx IN
       /\ pool' = PoolPush(pool, t)
       /\ worker' = [worker EXCEPT ![w] =
                       IF pool' = pool THEN Idle ELSE [pc |-> "enqueue", tx |-> t]]
  /\ UNCHANGED <<chainSeq, included, txQ, builder, candidate>>

\* fr.txQ.Push(TxHash, msg): the hash enters the first expiry group.
WorkerEnqueue(w) ==
  /\ worker[w].pc = "enqueue"
  /\ txQ' = (worker[w].tx :> 0) @@ txQ
  /\ worker' = [worker EXCEPT ![w] = Idle]
  /\ UNCHANGED <<chainSeq, included, pool, builder, candidate>>

-----------------------------------------------------------------------------
(* Expiry and cleaning.                                                    *)

\* Mutant: one expiry group too many before the item is dropped.
ExpireLate(t) ==
  /\ t \in DOMAIN txQ
  /\ IF txQ[t] = ExpireTiers
     THEN /\ pool' = pool \ {t}
          /\ txQ' = [x \in DOMAIN txQ \ {t} |-> txQ[x]]
     ELSE /\ txQ' = [txQ EXCEPT ![t] = @ + 1]
          /\ UNCHANGED pool
  /\ UNCHANGED <<chainSeq, included, worker, builder, candidate>>

\* Mutant: the last expiry re-broadcasts but keeps the record.
ExpireKeep(t) ==
  /\ t \in DOMAIN txQ
  /\ IF txQ[t] + 1 = ExpireTiers
     THEN txQ' = [x \in DOMAIN txQ \ {t} |-> txQ[x]]
     ELSE txQ' = [txQ EXCEPT ![t] = @ + 1]
  /\ UNCHANGED <<chainSeq, included, pool, worker, builder, candidate>>

\* OnItemExpired: re-broadcast, and on the last group drop from the pool.
\* The expire queue forgets the item after its last group.
Expire(t) ==
  /\ t \in DOMAIN txQ
  /\ IF txQ[t] + 1 = ExpireTiers
     THEN /\ pool' = pool \ {t}
          /\ txQ' = [x \in DOMAIN txQ \ {t} |-> txQ[x]]
     ELSE /\ txQ' = [txQ EXCEPT ![t] = @ + 1]
          /\ UNCHANGED pool
  /\ UNCHANGED <<chainSeq, included, worker, builder, candidate>>

\* Mutant: cleanPool forgets txpool.Remove.
CleanPoolNoRemove(txs) ==
  /\ UNCHANGED pool
  /\ txQ' = [x \in DOMAIN txQ \ txs |-> txQ[x]]

\* cleanPool(b): txpool.Remove and txQ.Remove of every transaction of b.
CleanPool(txs) ==
  /\ pool' = pool \ txs
  /\ txQ' = [x \in DOMAIN txQ \ txs |-> txQ[x]]

\* Connecting a block advances the senders' sequence numbers.
Apply(seqs, s) ==
  [a \in Accounts |->
     IF \E i \in 1..Len(s) : s[i].from = a
     THEN LET last == CHOOSE i \in 1..Len(s) :
                        s[i].from = a /\ \A j \in 1..Len(s) :
                          s[j].from = a => j <= i
          IN s[last].seq
     ELSE seqs[a]]

\* A block connects when its transactions follow the chain's sequences.
RECURSIVE ValidOn(_, _)
ValidOn(seqs, s) ==
  IF s = <<>> THEN TRUE
  ELSE /\ Head(s).seq = seqs[Head(s).from] + 1
       /\ ValidOn([seqs EXCEPT ![Head(s).from] = @ + 1], Tail(s))


-----------------------------------------------------------------------------
(* The TxLoop of genBlock (lines 994-1020), under txpool.Lock.            *)

\* fr.txpool.Lock(); the loop works on ctx := NewContext() of the tip.  A
\* new round replaces a block of ours that was never committed.
BuildStart ==
  /\ builder = NoBuild
  /\ builder' = [pc |-> "loop", seqs |-> chainSeq, txs |-> <<>>]
  /\ candidate' = <<>>
  /\ UNCHANGED <<chainSeq, included, pool, txQ, worker>>

\* The loop ends: the block is finalised and txpool.Unlock() runs.
Finish(txs) ==
  /\ builder' = NoBuild
  /\ candidate' = txs

\* One iteration: UnsafePop a ready record (it leaves the pool), then
\* bc.UnsafeAddTx, which may fail (continue) or succeed (Count++ and
\* break when Count > MaxTransactionsPerBlock).
BuildPop ==
  /\ builder.pc = "loop"
  /\ \E t \in Ready(pool, builder.seqs) :
       /\ pool' = pool \ {t}
       /\ \/ UNCHANGED <<builder, candidate>>
          \/ LET txs == Append(builder.txs, t) IN
             IF Len(txs) > MaxTxPerBlock
             THEN Finish(txs)
             ELSE /\ builder' = [builder EXCEPT !.txs = txs,
                                    !.seqs[t.from] = @ + 1]
                  /\ UNCHANGED candidate
  /\ UNCHANGED <<chainSeq, included, txQ, worker>>

\* The 600ms timer fires, or UnsafePop finds nothing ready.
BuildStop ==
  /\ builder.pc = "loop"
  /\ Finish(builder.txs)
  /\ UNCHANGED <<chainSeq, included, pool, txQ, worker>>

-----------------------------------------------------------------------------
(* Block commits, each followed by cleanPool.                              *)

\* Our block, on its BlockObSignMessage (ConnectBlockWithContext).
CommitOwn ==
  /\ builder = NoBuild
  /\ candidate # <<>>
  /\ ValidOn(chainSeq, candidate)
  /\ chainSeq' = Apply(chainSeq, candidate)
  /\ included' = included \cup ToSet(candidate)
  /\ CleanPool(ToSet(candidate))
  /\ candidate' = <<>>
  /\ UNCHANGED <<worker, builder>>

\* The observers choose another block for the round: ours is dropped.
DropOwn ==
  /\ candidate # <<>>
  /\ candidate' = <<>>
  /\ UNCHANGED <<chainSeq, included, pool, txQ, worker, builder>>

\* A block of another formulator, connected by the block timer
\* (ConnectBlock), carrying one transaction that follows the chain.
CommitOther ==
  /\ \E t \in Txs :
       /\ t.seq = chainSeq[t.from] + 1
       /\ chainSeq' = [chainSeq EXCEPT ![t.from] = t.seq]
       /\ included' = included \cup {t}
       /\ CleanPool({t})
  /\ UNCHANGED <<worker, builder, candidate>>

-----------------------------------------------------------------------------
Init ==
  /\ chainSeq = [a \in Accounts |-> 0]
  /\ included = {}
  /\ pool = {}
  /\ txQ = <<>>
  /\ worker = [w \in Workers |-> Idle]
  /\ builder = NoBuild
  /\ candidate = <<>>

Next ==
  \/ \E w \in Workers : WorkerCheck(w) \/ WorkerPush(w) \/ WorkerEnqueue(w)
  \/ \E t \in Txs : Expire(t)
  \/ BuildStart \/ BuildPop \/ BuildStop
  \/ CommitOwn \/ DropOwn \/ CommitOther

\* The worker goroutines and the expire queue's timer loop run when they
\* can; submissions, rounds and commits are the environment.
Fairness ==
  /\ \A w \in Workers : WF_vars(WorkerPush(w)) /\ WF_vars(WorkerEnqueue(w))
  /\ \A t \in Txs : WF_vars(Expire(t))
  /\ WF_vars(BuildPop \/ BuildStop)

Spec == Init /\ [][Next]_vars /\ Fairness

-----------------------------------------------------------------------------
(* Properties                                                              *)

TypeOK ==
  /\ chainSeq \in [Accounts -> 0..MaxSeq]
  /\ included \subseteq Txs
  /\ pool \subseteq Txs
  /\ DOMAIN txQ \subseteq Txs
  /\ \A t \in DOMAIN txQ : txQ[t] \in 0..(ExpireTiers - 1)
  /\ \A w \in Workers : worker[w].pc \in {"idle", "push", "enqueue"}
  /\ builder.pc \in {"idle", "loop"}

\* Every pool record is tracked by the expire queue (or is about to be by
\* the worker that pushed it), so OnItemExpired eventually drops it: the
\* pool cannot leak records through the orders of Push, txQ.Push, UnsafePop,
\* cleanPool and expiry.
PoolTracked ==
  \A t \in pool :
    t \in DOMAIN txQ \/ \E w \in Workers : worker[w] = [pc |-> "enqueue", tx |-> t]

\* Every record that enters the pool eventually leaves it (included and
\* cleaned, popped into a block, or expired).
PoolDrains == \A t \in Txs : (t \in pool) ~> (t \notin pool)

\* Spec 6 (invariant 4): once a transaction is included in a committed
\* block, cleanPool has removed it and the pool no longer contains it.
NoIncludedInPool == \A t \in included : t \notin pool

=============================================================================
