----------------------- MODULE MCBoundedBlockingQueue -----------------------
(***************************************************************************)
(* Instance of BoundedBlockingQueue for TLC.  Three threads of each kind   *)
(* can race for an item or a slot, two of them woken while one still       *)
(* blocks; three slots make the ring grow, fill up and wrap around.        *)
(***************************************************************************)
EXTENDS BoundedBlockingQueue, TLC

Symmetry ==
    Permutations(Producers) \union Permutations(Consumers)
        \union Permutations(Items)
=============================================================================
