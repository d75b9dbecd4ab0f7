---------------------------- MODULE DescriptorList ----------------------------
(***************************************************************************)
(* What the store of security descriptors promises: a list of names with   *)
(* a descriptor each, in which the first of a name counts, and on which    *)
(* every call of a client takes effect at one moment.  A name is added     *)
(* only if the list does not have it, a store changes one part of one      *)
(* descriptor and leaves the other parts as they are at that moment, and   *)
(* only the first of a name is removed or gets another name.               *)
(*                                                                         *)
(* SecurityStore, whose callbacks take several steps and share objects     *)
(* with the list, implements this.                                         *)
(***************************************************************************)
EXTENDS Naturals, Sequences

CONSTANTS
  Paths,   \* the names
  Parts,   \* the parts of a descriptor
  Values   \* the values of a part

VARIABLE list

\* Where the first of a name is, if the list has the name.
First(x) ==
  {i \in DOMAIN list : list[i].name = x /\ \A k \in 1..(i - 1) : list[k].name # x}

Init == list = <<>>

Add ==
  \E x \in Paths, d \in [Parts -> Values] :
    /\ \A i \in DOMAIN list : list[i].name # x
    /\ list' = Append(list, [name |-> x, sd |-> d])

Store ==
  \E i \in DOMAIN list, p \in Parts, v \in Values :
    list' = [list EXCEPT ![i].sd = [@ EXCEPT ![p] = v]]

Remove ==
  \E x \in Paths : \E i \in First(x) :
    list' = [k \in 1..(Len(list) - 1) |-> IF k < i THEN list[k] ELSE list[k + 1]]

Rename ==
  \E x, y \in Paths : \E i \in First(x) : list' = [list EXCEPT ![i].name = y]

Next == Add \/ Store \/ Remove \/ Rename

Spec == Init /\ [][Next]_list
=============================================================================
