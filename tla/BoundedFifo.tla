---------------------------- MODULE BoundedFifo -----------------------------
(***************************************************************************)
(* What a bounded blocking queue promises to the threads that share it,    *)
(* without its ring of slots, its lock and its conditions: a Put happens   *)
(* at one instant at which there is room, a Take at one at which there is  *)
(* something to take, and what is taken is what was put first.             *)
(* Module BoundedBlockingQueue is shown to implement this.                 *)
(***************************************************************************)
EXTENDS Naturals, Sequences

CONSTANTS
    Consumers,
    Items,
    NoItem,     \* what a consumer has before its first Take returns
    Capacity

VARIABLES
    items,      \* put and not taken yet, oldest first
    result      \* what the last Take of each consumer returned

vars == <<items, result>>

Init ==
    /\ items = <<>>
    /\ result = [c \in Consumers |-> NoItem]

Put(x) ==
    /\ Len(items) < Capacity
    /\ items' = Append(items, x)
    /\ UNCHANGED result

Take(c) ==
    /\ items # <<>>
    /\ result' = [result EXCEPT ![c] = Head(items)]
    /\ items' = Tail(items)

Next ==
    \/ \E x \in Items : Put(x)
    \/ \E c \in Consumers : Take(c)

Spec == Init /\ [][Next]_vars
=============================================================================
