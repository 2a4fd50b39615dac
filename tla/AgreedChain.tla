----------------------------- MODULE AgreedChain -----------------------------
(***************************************************************************)
(* What the tip advancer promises (spec 4.5, spec 8): the node's chain     *)
(* only ever grows, and only by adopting, in height order, blocks the      *)
(* observers agreed on.  The agreed chain itself only grows by one block   *)
(* at a time.  Several agreed blocks may be adopted in one step (the 50ms  *)
(* timer connects up to 100 queued blocks at once).                        *)
(***************************************************************************)
EXTENDS Sequences, SequencesExt

VARIABLES
  chain,   \* the node's committed chain
  agreed   \* the chain the observers agreed on

Init == chain = <<>> /\ agreed = <<>>

\* The observers commit the next block.
Agree ==
  /\ Len(agreed') = Len(agreed) + 1
  /\ IsPrefix(agreed, agreed')
  /\ UNCHANGED chain

\* The node adopts the next agreed blocks.
Adopt ==
  /\ Len(chain) < Len(chain')
  /\ IsPrefix(chain, chain')
  /\ IsPrefix(chain', agreed)
  /\ UNCHANGED agreed

Spec == Init /\ [][Agree \/ Adopt]_<<chain, agreed>>

=============================================================================
