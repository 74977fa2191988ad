------------------------------ MODULE SlotPool ------------------------------
(***************************************************************************)
(* What the KV allocator promises its clients: every page is available,    *)
(* held by one owner, or given back and not yet reusable.  An allocation   *)
(* serves a whole batch or nothing.                                        *)
(***************************************************************************)
EXTENDS FiniteSets

CONSTANTS Pages, Owners

VARIABLES
  avail,     \* pages an allocation may take
  held,      \* the pages of each owner
  pending    \* pages given back while frees are grouped

poolvars == <<avail, held, pending>>

Init ==
  /\ avail = Pages
  /\ held = [o \in Owners |-> {}]
  /\ pending = {}

\* The owners of a batch take pages nobody has, each its own.
Take ==
  \E got \in [Owners -> SUBSET avail] :
    /\ \A o, p \in Owners : o # p => got[o] \cap got[p] = {}
    /\ held' = [o \in Owners |-> held[o] \cup got[o]]
    /\ avail' = avail \ UNION {got[o] : o \in Owners}
    /\ UNCHANGED pending

\* An owner gives everything back, for reuse at once or at the end of the group.
Give(o) ==
  /\ held' = [held EXCEPT ![o] = {}]
  /\ \/ avail' = avail \cup held[o] /\ UNCHANGED pending
     \/ pending' = pending \cup held[o] /\ UNCHANGED avail

Settle ==
  /\ avail' = avail \cup pending
  /\ pending' = {}
  /\ UNCHANGED held

Next == Take \/ Settle \/ \E o \in Owners : Give(o)

Spec == Init /\ [][Next]_poolvars
=============================================================================
