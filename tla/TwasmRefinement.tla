-------------------------- MODULE TwasmRefinement --------------------------
(* TwasmPrivileges implements PrivilegeRegistry.  The list of a type is    *)
(* what the secondary index holds for it, in the order of positions; a     *)
(* call saved the lists of the index it started with.                      *)
EXTENDS TwasmPrivileges

Holders(idx) ==
    [t \in PrivilegeTypes |-> {c \in Contracts : \E p \in Positions : idx[Key(t, p)] = c}]

Order(idx) ==
    [t \in PrivilegeTypes |->
        {pair \in Contracts \X Contracts :
            \E p, q \in Positions :
                p < q /\ idx[Key(t, p)] = pair[1] /\ idx[Key(t, q)] = pair[2]}]

ListsOf(idx) == [held |-> Holders(idx), before |-> Order(idx)]

Registry == INSTANCE PrivilegeRegistry
    WITH lists <- ListsOf(index),
         saved <- [i \in 1 .. Len(stack) |-> ListsOf(stack[i].saved.index)]

(* Requests, releases, promotions, demotions with their removal loops,     *)
(* failures, panics, export and import change the lists of holders only by *)
(* appending one contract, removing one, or falling back to the lists at   *)
(* the start of a running call.                                            *)
ImplementsRegistry == Registry!Spec

=============================================================================
