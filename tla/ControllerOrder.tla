--------------------------- MODULE ControllerOrder ---------------------------
(***************************************************************************)
(* How the controller manager orders its controllers when one has been     *)
(* configured: who precedes and who follows whom in a chain                *)
(* (build_controllers_topology_info), the order in which they are updated  *)
(* (update_list_with_controller_chain) and the chain each belongs to       *)
(* (build_controller_full_chain_map_cache).                                *)
(*                                                                         *)
(* "commands[c]" and "reads[c]" are the controllers whose reference and    *)
(* state interfaces c uses, in the order of those interfaces.              *)
(***************************************************************************)
EXTENDS Naturals, SequencesExt

AddItem(s, e) == IF Contains(s, e) THEN s ELSE Append(s, e)
IndexOf(s, e) == CHOOSE i \in DOMAIN s : s[i] = e

-----------------------------------------------------------------------------
(* build_controllers_topology_info                                         *)

NoChains(controllers) ==
    [following |-> [c \in Range(controllers) |-> <<>>], preceding |-> [c \in Range(controllers) |-> <<>>]]

\* "before" precedes "after".
Link(chains, before, after) ==
    [following |-> [chains.following EXCEPT ![before] = AddItem(@, after)],
     preceding |-> [chains.preceding EXCEPT ![after] = AddItem(@, before)]]

build_controllers_topology_info(controllers, commands, reads) ==
    LET Commands(chains, c) == FoldLeft(LAMBDA s, d : Link(s, c, d), chains, commands[c])
        Both(chains, c) == FoldLeft(LAMBDA s, d : Link(s, d, c), Commands(chains, c), reads[c])
    IN  FoldLeft(Both, NoChains(controllers), controllers)

-----------------------------------------------------------------------------
(* update_list_with_controller_chain: c is put in at "at", or before the   *)
(* first of its followers if that is earlier, or at the last of those that *)
(* precede it if that is later, and its neighbours are put around it.      *)

Places(order, neighbours) == { IndexOf(order, d) : d \in Range(neighbours) \cap Range(order) }

Place(chains, order, c, at) ==
    LET first == Min({at} \cup Places(order, chains.following[c]))
    IN  Max({first} \cup Places(order, chains.preceding[c]))

\* Mutant: those that follow are put before it, too.
BeforeIt(place, append) == place

Insertion(place, append) == IF append THEN place + 1 ELSE place

RECURSIVE update_list_with_controller_chain(_, _, _, _, _)
update_list_with_controller_chain(chains, order, c, at, append) ==
    LET place == Place(chains, order, c, at)
        placed == InsertAt(order, Insertion(place, append), c)
        After(l, d) == update_list_with_controller_chain(chains, l, d, IndexOf(l, c), TRUE)
        Before(l, d) == update_list_with_controller_chain(chains, l, d, IndexOf(l, c), FALSE)
    IN  IF Contains(order, c) THEN order
        ELSE FoldLeft(Before, FoldLeft(After, placed, chains.following[c]), chains.preceding[c])

\* The chains are gone through in the order of a hash table, "names".
Ordered(chains, names) ==
    FoldLeft(LAMBDA l, c : update_list_with_controller_chain(chains, l, c, Len(l) + 1, FALSE),
             <<>>, names)

-----------------------------------------------------------------------------
(* get_full_chain_spec                                                     *)

\* Mutant: only those that follow.
FollowingOnly(chains, c) == chains.following[c]

Neighbours(chains, c) == chains.following[c] \o chains.preceding[c]

RECURSIVE get_full_chain_spec(_, _, _)
get_full_chain_spec(chains, c, chain) ==
    FoldLeft(LAMBDA l, d : IF Contains(l, d) THEN l ELSE get_full_chain_spec(chains, d, l),
             AddItem(chain, c), Neighbours(chains, c))

-----------------------------------------------------------------------------
(* The reference definitions.                                              *)

Precedes(chains, c, d) == Contains(chains.following[c], d)

Links(chains) ==
    LET nodes == DOMAIN chains.following
    IN  { p \in nodes \X nodes : Precedes(chains, p[1], p[2]) }

\* The sets of controllers that no link leaves.
Closed(chains) ==
    { s \in SUBSET DOMAIN chains.following : \A p \in Links(chains) : p[1] \in s <=> p[2] \in s }

InOneChain(chains, c) ==
    { d \in DOMAIN chains.following : \A s \in Closed(chains) : c \in s => d \in s }

\* The chains are trees: n nodes with k links are in n - k groups, of which the closed
\* sets are the unions.
IsForest(chains) ==
    LET n == Cardinality(DOMAIN chains.following)
        k == Cardinality(Links(chains))
    IN  k < n /\ Cardinality(Closed(chains)) = 2 ^ (n - k)

FollowsChains(chains, order) ==
    \A i, j \in DOMAIN order : Precedes(chains, order[i], order[j]) => i < j
=============================================================================
