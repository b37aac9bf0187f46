------------------------- MODULE PrivilegeRegistry -------------------------
(***************************************************************************)
(* What x/twasm promises about privileges, without positions, details and  *)
(* removal loops: for every privilege type a list of the contracts that    *)
(* hold it, in the order in which they registered, and nested calls that   *)
(* keep their changes or lose them as a whole.  TwasmPrivileges is shown   *)
(* to implement it.                                                        *)
(***************************************************************************)
EXTENDS Integers, Sequences

CONSTANTS Contracts, PrivilegeTypes, SingletonTypes

VARIABLES
    lists,  \* the lists of all types
    saved   \* lists at the start of every running call, the innermost last

vars == <<lists, saved>>

(* A list as the set of its members and the pairs in their order.          *)
Lists == [held   : [PrivilegeTypes -> SUBSET Contracts],
          before : [PrivilegeTypes -> SUBSET (Contracts \X Contracts)]]

Empty == [held   |-> [t \in PrivilegeTypes |-> {}],
          before |-> [t \in PrivilegeTypes |-> {}]]

Outer == [i \in 1 .. Len(saved) - 1 |-> saved[i]]

(* A member is added behind all others.                                    *)
With(l, c, t) ==
    [held   |-> [l.held EXCEPT ![t] = @ \cup {c}],
     before |-> [l.before EXCEPT ![t] = @ \cup (l.held[t] \X {c})]]

Without(l, c, t) ==
    [held   |-> [l.held EXCEPT ![t] = @ \ {c}],
     before |-> [l.before EXCEPT ![t] = {pair \in @ : pair[1] # c /\ pair[2] # c}]]

(* A contract is called.                                                   *)
Call == saved' = Append(saved, lists) /\ UNCHANGED lists

Register(c, t) ==
    /\ saved # <<>>
    /\ c \notin lists.held[t]
    /\ t \in SingletonTypes => lists.held[t] = {}
    /\ lists' = With(lists, c, t)
    /\ UNCHANGED saved

Unregister(c, t) ==
    /\ saved # <<>>
    /\ c \in lists.held[t]
    /\ lists' = Without(lists, c, t)
    /\ UNCHANGED saved

Return ==
    /\ saved # <<>>
    /\ saved' = Outer
    /\ UNCHANGED lists

Fail ==
    /\ saved # <<>>
    /\ lists' = saved[Len(saved)]
    /\ saved' = Outer

(* Nothing of the transaction remains.                                     *)
Panic ==
    /\ saved # <<>>
    /\ lists' = saved[1]
    /\ saved' = <<>>

Init == lists = Empty /\ saved = <<>>

Next ==
    \/ Call \/ Return \/ Fail \/ Panic
    \/ \E c \in Contracts, t \in PrivilegeTypes : Register(c, t) \/ Unregister(c, t)

Spec == Init /\ [][Next]_vars

=============================================================================
