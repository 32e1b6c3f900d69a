------------------------- MODULE ControllerSnapshots -------------------------
(***************************************************************************)
(* What the double-buffered controller list of the controller manager      *)
(* promises to its two users, without its buffers, indices or waits.       *)
(*                                                                         *)
(* The non real-time side publishes whole lists.  The real-time side takes *)
(* the list that is published at that moment and works on it, unchanged,   *)
(* until it lets it go.  RTControllerList is shown to implement this.      *)
(***************************************************************************)
CONSTANT Controllers    \* the controllers that can be loaded

VARIABLES
    published,          \* the list the manager has published last
    view                \* the list the real-time thread works on, or NoView

vars == <<published, view>>

\* A list is abstracted to the set of controllers in it.
Lists == SUBSET Controllers

\* The real-time thread holds no list.
NoView == [list |-> {}, taken |-> FALSE]
ViewOf(l) == [list |-> l, taken |-> TRUE]

Init ==
    /\ published \in Lists
    /\ view = NoView

\* The manager replaces the published list.
Publish ==
    /\ published' \in Lists
    /\ UNCHANGED view

\* The real-time thread takes the list published now, dropping any other.
Take ==
    /\ view' = ViewOf(published)
    /\ UNCHANGED published

\* The real-time thread is done with its list.
Release ==
    /\ view' = NoView
    /\ UNCHANGED published

Next == Publish \/ Take \/ Release

Spec == Init /\ [][Next]_vars
=============================================================================
