------------------------------ MODULE Unstaking ------------------------------
(***************************************************************************)
(* The Unstaking transaction (src/process/formulator/tx_unstaking.go) as   *)
(* the block builder applies it: BlockCreator.UnsafeAddTx (outside this    *)
(* repository; spec 4.4: snapshot, validate, execute, revert on failure)   *)
(* runs Validate and then Execute on the context of the block being built, *)
(* and Execute pays its fee through Vault.WithFee.                         *)
(*                                                                         *)
(* The formulator process's staking ledger (GetStakingAmount,             *)
(* subStakingAmount, addUnstakingAmount) is outside this repository: a    *)
(* per-hyper, per-address stake and unstaking amount by unlock height.    *)
(* Signatures are not modelled: every sender's account validates.         *)
(***************************************************************************)
EXTENDS Vault

CONSTANTS
  MaxSeq   \* bound on the sequence numbers transactions carry

Txs == [from : Addrs, hyper : Accounts, amount : {Coin - 1, Coin, 2 * Coin},
        seq : 1..MaxSeq]

\* GetStakingAmount / subStakingAmount: ErrInsufficientStakingAmount below
\* the amount.
SubStakingAmount(c, hy, a, am) ==
  IF c.stake[hy][a] < am THEN Result(FALSE, c)
  ELSE Result(TRUE, [c EXCEPT !.stake[hy][a] = @ - am])

\* addUnstakingAmount: the amount waits for its unlock height.
AddUnstakingAmount(c, hy, a, uh, am) ==
  Result(TRUE, [c EXCEPT !.unstaking[hy][a][uh] = @ + am])

\* Mutant: the fee is not checked.
ValidateNoFee(c, tx) ==
  /\ tx.amount >= Coin
  /\ tx.seq > c.seq[tx.from]
  /\ tx.hyper \in Hypers
  /\ c.stake[tx.hyper][tx.from] >= tx.amount
  /\ c.total[tx.hyper] >= tx.amount

\* Validate (lines 44-86), in the code's order; any failed check is an
\* error.  A non-hyper formulator account is ErrInvalidAccountType.
Validate(c, tx) ==
  /\ tx.amount >= Coin
  /\ tx.seq > c.seq[tx.from]
  /\ tx.hyper \in Hypers
  /\ c.stake[tx.hyper][tx.from] >= tx.amount
  /\ c.total[tx.hyper] >= tx.amount
  /\ CheckFeePayable(c, tx.from)

\* Mutant: the transaction is executed without the unstaked amount ever
\* leaving the stake.
ExecuteKeepStake(c, tx, h) ==
  LET t == TakeFee(c, tx.from)
  IN WithFee(t, AddUnstakingAmount([t.ctx EXCEPT !.total[tx.hyper] = @ - tx.amount],
                                   tx.hyper, tx.from, h + UnlockBlocks, tx.amount))

\* Execute (lines 88-113): inside WithFee, subStakingAmount, the hyper
\* account's StakingAmount, then the unstaking amount at TargetHeight +
\* StakingUnlockRequiredBlocks.
Execute(c, tx, h) ==
  LET t == TakeFee(c, tx.from)
      s == SubStakingAmount(t.ctx, tx.hyper, tx.from, tx.amount)
      c2 == [s.ctx EXCEPT !.total[tx.hyper] = @ - tx.amount]
      fn == IF ~s.ok THEN s
            ELSE AddUnstakingAmount(c2, tx.hyper, tx.from, h + UnlockBlocks,
                                    tx.amount)
  IN WithFee(t, fn)

\* UnsafeAddTx of an Unstaking: the context is kept only when Validate and
\* Execute both succeed, and then the sender's sequence advances.
AddTx(tx) ==
  /\ IF ~Validate(ctx, tx)
     THEN /\ lastTx' = "invalid"
          /\ UNCHANGED ctx
     ELSE LET r == Execute(ctx, tx, height)
          IN IF r.ok
             THEN /\ ctx' = [r.ctx EXCEPT !.seq[tx.from] = @ + 1]
                  /\ lastTx' = "ok"
             ELSE /\ lastTx' = "failed"
                  /\ UNCHANGED ctx
  /\ UNCHANGED <<height, minted, released>>

\* The block is finalised and the next one is built on its context.
NextBlock ==
  /\ height < MaxHeight
  /\ height' = height + 1
  /\ UNCHANGED <<ctx, lastTx, minted, released>>

StakeSum(c) ==
  SumFunction([p \in Hypers \X Addrs |-> c.stake[p[1]][p[2]]])
UnstakingSum(c) ==
  SumFunction([p \in Hypers \X Addrs \X UnstakeHeights |->
                 c.unstaking[p[1]][p[2]][p[3]]])
Coins(c) == SumFunction(c.balance) + c.collected + StakeSum(c) + UnstakingSum(c)

Init ==
  /\ \E bal \in [Addrs -> {0, Fee}], st \in [Hypers -> [Addrs -> {Coin, 2 * Coin}]] :
       /\ ctx = [balance |-> bal, collected |-> 0,
                 locked |-> [h \in LockHeights |-> [a \in Addrs |-> 0]],
                 number |-> [h \in LockHeights |-> [a \in Addrs |-> None]],
                 reverse |-> [h \in LockHeights |-> [i \in Slots |-> None]],
                 count |-> [h \in LockHeights |-> 0],
                 lockedSum |-> [a \in Addrs |-> 0],
                 seq |-> [a \in Addrs |-> 0],
                 stake |-> st,
                 total |-> [p \in Accounts |->
                              IF p \in Hypers THEN SumFunction(st[p]) ELSE 0],
                 unstaking |-> [hy \in Hypers |-> [a \in Addrs |->
                                  [u \in UnstakeHeights |-> 0]]]]
       /\ minted = SumFunction(bal) + SumFunction([p \in Hypers \X Addrs |-> st[p[1]][p[2]]])
  /\ height = 1
  /\ lastTx = "none"
  /\ released = [a \in Addrs |-> 0]

Next ==
  \/ VaultNext
  \/ \E tx \in Txs : AddTx(tx)
  \/ NextBlock

Spec == Init /\ [][Next]_vars

-----------------------------------------------------------------------------
TypeOK ==
  /\ ctx.balance \in [Addrs -> Nat]
  /\ ctx.collected \in Nat
  /\ ctx.locked \in [LockHeights -> [Addrs -> 0..MaxAmount]]
  /\ ctx.number \in [LockHeights -> [Addrs -> Slots \cup {None}]]
  /\ ctx.reverse \in [LockHeights -> [Slots -> Addrs \cup {None}]]
  /\ ctx.count \in [LockHeights -> Slots]
  /\ ctx.lockedSum \in [Addrs -> 0..MaxAmount]
  /\ ctx.seq \in [Addrs -> 0..MaxSeq]
  /\ ctx.stake \in [Hypers -> [Addrs -> Nat]]
  /\ ctx.unstaking \in [Hypers -> [Addrs -> [UnstakeHeights -> Nat]]]
  /\ height \in 1..MaxHeight
  /\ lastTx \in {"none", "invalid", "failed", "ok"}
  /\ released \in [Addrs -> 0..MaxAmount]

\* Validate checks everything Execute can fail on: an Unstaking that the
\* builder validated against a context never fails to execute on it (its
\* fee payable, the sender's stake and the hyper account's total), whatever
\* transfers, fee distribution and earlier unstakings did to that context.
ValidatedExecutes == lastTx # "failed"

\* No coin is created or lost: balances, collected fees, stakes and
\* amounts waiting to unlock always add up to the genesis supply plus what
\* the environment's calls added, through fees, failed executions and
\* their reverts.
CoinsConserved == Coins(ctx) = minted

=============================================================================
