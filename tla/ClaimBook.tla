----------------------------- MODULE ClaimBook -----------------------------
(***************************************************************************)
(* What a pool promises about the claim NFTs it buys, without their lists, *)
(* queues and vaults: an NFT that is not due yet enters the book, stays in *)
(* it until an accrual after its claim epoch, and leaves it with that      *)
(* accrual, together with every other NFT that is due; it never leaves     *)
(* early and never stays behind.                                           *)
(***************************************************************************)
EXTENDS Integers

VARIABLES held,     \* the NFTs bought and not claimed
          accrued,  \* the epoch of the last accrual
          epoch

bookVars == <<held, accrued, epoch>>

Init == held = {} /\ epoch \in Nat /\ accrued \in 0 .. epoch

Lend(nft) ==
    /\ nft.claim_epoch > epoch
    /\ held' = held \cup {nft}
    /\ UNCHANGED <<accrued, epoch>>

Accrue ==
    /\ accrued' = epoch
    /\ held' = {n \in held : n.claim_epoch > epoch}
    /\ UNCHANGED epoch

Tick ==
    /\ epoch' > epoch
    /\ UNCHANGED <<held, accrued>>

Next ==
    \/ \E nft \in held' \ held : Lend(nft)
    \/ Accrue
    \/ Tick

Spec == Init /\ [][Next]_bookVars
=============================================================================
