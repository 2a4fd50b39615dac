-------------------------------- MODULE Vault --------------------------------
(***************************************************************************)
(* The vault process (src/process/vault/vault_method.go) and the          *)
(* Unstaking transaction that pays its fee through it                      *)
(* (src/process/formulator/tx_unstaking.go).                               *)
(*                                                                         *)
(* Every vault method reads and writes one context (types.ContextWrapper). *)
(* The context is the record ctx; a method is an operator from a context   *)
(* to [ok, ctx], and Snapshot/Revert keep or restore a record.  The       *)
(* callers of the balance, fee and locked-balance methods other than       *)
(* Unstaking (transfers, fee distribution, the vault's block hook) are     *)
(* outside this repository: they are the environment and call with any     *)
(* address, height and amount of small sets.  Amounts are big integers in  *)
(* the code; here they are integers with named bounds on what accumulates. *)
(***************************************************************************)
EXTENDS Integers, FiniteSets, Functions

CONSTANTS
  Addrs,        \* account addresses
  Hypers,       \* hyper formulator accounts (FormulatorType = Hyper)
  Others,       \* formulator accounts of another type
  LockHeights,  \* UnlockedHeight arguments of AddLockedBalance
  MaxHeight,    \* last block height built
  UnlockBlocks, \* HyperPolicy.StakingUnlockRequiredBlocks
  Coin,         \* amount.COIN in the model's unit
  MaxAmount,    \* bound on a balance, the fees, and all an address ever locked
  None

ASSUME /\ Hypers \cap Others = {}
       /\ MaxHeight \in Nat \ {0}
       /\ UnlockBlocks \in Nat
       /\ Coin \in Nat /\ Coin \div 10 > 0
       /\ MaxAmount \in Nat

VARIABLES
  ctx,       \* the committed state the next transaction runs on
  height,    \* ctw.TargetHeight(): the height of the block being built
  lastTx,    \* history: outcome of the last UnsafeAddTx of an Unstaking
  minted,    \* history: net amount the environment added to balances/fees
  released   \* history: amount per address returned by flushes

vars == <<ctx, height, lastTx, minted, released>>

Accounts == Hypers \cup Others
Slots == 0..Cardinality(Addrs)        \* reverse index positions
UnstakeHeights == 1..MaxHeight + UnlockBlocks

\* Fee of an Unstaking transaction: amount.COIN.DivC(10).
Fee == Coin \div 10

Result(ok, c) == [ok |-> ok, ctx |-> c]

-----------------------------------------------------------------------------
(* Balances and collected fees.                                           *)

\* Balance: the tagBalance datum, zero when absent.
Balance(c, a) == c.balance[a]

\* AddBalance: a negative amount is ErrMinusInput.
AddBalance(c, a, am) ==
  IF am < 0 THEN Result(FALSE, c)
  ELSE Result(TRUE, [c EXCEPT !.balance[a] = @ + am])

\* SubBalance: ErrMinusBalance below the amount; a zero sum is removed
\* (RemoveBalance), which Balance reads as zero.  The amount's sign is not
\* checked.
SubBalance(c, a, am) ==
  IF Balance(c, a) < am THEN Result(FALSE, c)
  ELSE Result(TRUE, [c EXCEPT !.balance[a] = @ - am])

CollectedFee(c) == c.collected

AddCollectedFee(c, am) ==
  IF am < 0 THEN Result(FALSE, c)
  ELSE Result(TRUE, [c EXCEPT !.collected = @ + am])

\* SubCollectedFee: ErrMinusCollectedFee below the amount; sign unchecked.
SubCollectedFee(c, am) ==
  IF CollectedFee(c) < am THEN Result(FALSE, c)
  ELSE Result(TRUE, [c EXCEPT !.collected = @ - am])

\* CheckFeePayable (CheckFeePayableWith with a nil amount).
CheckFeePayable(c, a) == Balance(c, a) >= Fee

\* WithFee, first part: the fee is taken from the sender and collected.
TakeFee(c, a) ==
  LET s == SubBalance(c, a, Fee)
  IN IF ~s.ok THEN s
     ELSE Result(TRUE, [s.ctx EXCEPT !.collected = @ + Fee])

\* WithFee: t is TakeFee's result and r the result of fn run on its
\* context inside a snapshot; fn's error reverts fn only, so the fee
\* stays taken on that error.
WithFee(t, r) ==
  IF ~t.ok THEN t
  ELSE IF ~r.ok THEN Result(FALSE, t.ctx)
  ELSE r

-----------------------------------------------------------------------------
(* Locked balances: per UnlockedHeight an amount per address, a number     *)
(* key per address, a reverse key per number and a count.                  *)

LockedBalance(c, h, a) == c.locked[h][a]

TotalLockedBalanceByAddress(c, a) == c.lockedSum[a]

\* Mutant: the count is not advanced, so every new address gets number 0.
AddLockedBalanceNoCount(c, a, h, am) ==
  IF am < 0 THEN Result(FALSE, c)
  ELSE LET c1 == IF c.number[h][a] # None THEN c
                 ELSE [c EXCEPT !.number[h][a] = c.count[h],
                                !.reverse[h][c.count[h]] = a]
       IN Result(TRUE, [c1 EXCEPT !.locked[h][a] = @ + am,
                                  !.lockedSum[a] = @ + am])

\* Mutant: the number-key check is lost and every call indexes again.
AddLockedBalanceReindex(c, a, h, am) ==
  IF am < 0 THEN Result(FALSE, c)
  ELSE LET n == c.count[h]
           c1 == [c EXCEPT !.number[h][a] = n, !.reverse[h][n] = a,
                           !.count[h] = n + 1]
       IN Result(TRUE, [c1 EXCEPT !.locked[h][a] = @ + am,
                                  !.lockedSum[a] = @ + am])

\* AddLockedBalance: an address without a number key at this height gets
\* the next number and a reverse key; then amount and sum grow.
AddLockedBalance(c, a, h, am) ==
  IF am < 0 THEN Result(FALSE, c)
  ELSE LET n == c.count[h]
           c1 == IF c.number[h][a] # None THEN c
                 ELSE [c EXCEPT !.number[h][a] = n, !.reverse[h][n] = a,
                                !.count[h] = n + 1]
       IN Result(TRUE, [c1 EXCEPT !.locked[h][a] = @ + am,
                                  !.lockedSum[a] = @ + am])

\* Mutant: the number keys are left behind by the flush.
FlushKeepNumber(c, h) ==
  LET idx == {c.reverse[h][i] : i \in 0..c.count[h] - 1} \ {None}
  IN [map |-> [a \in idx |-> LockedBalance(c, h, a)],
      ctx |-> [c EXCEPT !.locked[h] = [a \in Addrs |-> IF a \in idx THEN 0 ELSE @[a]],
                        !.reverse[h] = [i \in Slots |-> None],
                        !.count[h] = 0]]

\* flushLockedBalanceMap: for i below the count, the address of reverse
\* key i is returned with its locked amount and its three keys deleted;
\* then the count.  A missing reverse key is the zero address, which holds
\* nothing.  lockedSum is not touched.
FlushLockedBalanceMap(c, h) ==
  LET idx == {c.reverse[h][i] : i \in 0..c.count[h] - 1} \ {None}
  IN [map |-> [a \in idx |-> LockedBalance(c, h, a)],
      ctx |-> [c EXCEPT !.locked[h] = [a \in Addrs |-> IF a \in idx THEN 0 ELSE @[a]],
                        !.number[h] = [a \in Addrs |-> IF a \in idx THEN None ELSE @[a]],
                        !.reverse[h] = [i \in Slots |-> None],
                        !.count[h] = 0]]

-----------------------------------------------------------------------------
(* Calls from outside this repository: transfers and fee distribution     *)
(* (amounts of either sign reach the methods unchecked by the caller) and *)
(* the vault's block hook, which flushes the locked balances of a height. *)

Amounts == {-1, 1}

CallBalance(a, am) ==
  /\ \E r \in {AddBalance(ctx, a, am), SubBalance(ctx, a, am)} :
       /\ r.ok
       /\ r.ctx.balance[a] \in 0..MaxAmount
       /\ ctx' = r.ctx
       /\ minted' = minted + r.ctx.balance[a] - ctx.balance[a]
  /\ UNCHANGED <<height, lastTx, released>>

CallFee(am) ==
  /\ \E r \in {AddCollectedFee(ctx, am), SubCollectedFee(ctx, am)} :
       /\ r.ok
       /\ r.ctx.collected \in 0..MaxAmount
       /\ ctx' = r.ctx
       /\ minted' = minted + r.ctx.collected - ctx.collected
  /\ UNCHANGED <<height, lastTx, released>>

CallAddLockedBalance(a, h, am) ==
  /\ LET r == AddLockedBalance(ctx, a, h, am)
     IN /\ r.ok
        /\ r.ctx.lockedSum[a] <= MaxAmount
        /\ ctx' = r.ctx
  /\ UNCHANGED <<height, lastTx, minted, released>>

Flush(h) ==
  /\ LET f == FlushLockedBalanceMap(ctx, h)
     IN /\ ctx' = f.ctx
        /\ released' = [a \in Addrs |->
                          released[a] + IF a \in DOMAIN f.map THEN f.map[a] ELSE 0]
  /\ UNCHANGED <<height, lastTx, minted>>

VaultNext ==
  \/ \E a \in Addrs, am \in Amounts : CallBalance(a, am)
  \/ \E am \in Amounts : CallFee(am)
  \/ \E a \in Addrs, h \in LockHeights, am \in Amounts : CallAddLockedBalance(a, h, am)
  \/ \E h \in LockHeights : Flush(h)

-----------------------------------------------------------------------------
\* The locked-balance index stays a bijection: at every height the count
\* is the number of addresses with a number key, reverse key i names the
\* address whose number is i, and every address holding a locked amount
\* there is indexed (else flushLockedBalanceMap would never return it).
\* This must survive any sequence of AddLockedBalance calls and flushes.
LockIndexConsistent ==
  \A h \in LockHeights :
    /\ ctx.count[h] = Cardinality({a \in Addrs : ctx.number[h][a] # None})
    /\ \A i \in 0..ctx.count[h] - 1 :
         ctx.reverse[h][i] # None /\ ctx.number[h][ctx.reverse[h][i]] = i
    /\ \A a \in Addrs : ctx.locked[h][a] # 0 => ctx.number[h][a] # None

\* A flush of a height returns every amount locked there and leaves none
\* behind, also for amounts locked at that height after an earlier flush.
FlushReleasesAll ==
  [][\A h \in LockHeights :
       Flush(h) => \A a \in Addrs :
                     /\ ctx'.locked[h][a] = 0
                     /\ released'[a] = released[a] + ctx.locked[h][a]]_vars

=============================================================================
