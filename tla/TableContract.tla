--------------------------- MODULE TableContract ---------------------------
(***************************************************************************)
(* What the slot binding table promises its clients, without records,      *)
(* check bytes, buffers or flash: a shelf of N slots with a version number *)
(* that changes by whole operations only, and what a client is shown of    *)
(* it.  An operation takes effect in one step; the view follows, at once   *)
(* or after a power cycle.  Coming up, the device may overlook its shelf   *)
(* and show an empty one: an operation then replaces the shelf by what it  *)
(* makes of the empty one, and a power cycle may bring the shelf back.     *)
(* Operations are stated on the content of the slots alone, as             *)
(* docs/ble-protocol-v0.1.md names them.                                   *)
(***************************************************************************)
EXTENDS Integers

CONSTANTS
    N,             \* slots
    Part, Qty,     \* an item is a part and a quantity
    NoItem,        \* what an empty slot shows
    SeqMod         \* versions are 1..SeqMod-1, in a circle

VARIABLES
    shelf,      \* the content of the slots, for good
    version,    \* its number
    view,       \* what clients can read: nothing, or a shelf and its number
    overlooked  \* the view does not show the shelf but an empty one

vars == <<shelf, version, view, overlooked>>

Slot == 1..N
Empty == [bound |-> FALSE, item |-> NoItem]
Holding(part, qty) == [bound |-> TRUE, item |-> <<part, qty>>]
EmptyShelf == [i \in Slot |-> Empty]

Dark == [up |-> FALSE, shelf |-> EmptyShelf, version |-> 1]
Showing(s, v) == [up |-> TRUE, shelf |-> s, version |-> v]

Following(v) == IF v = SeqMod - 1 THEN 1 ELSE v + 1

Init == shelf = EmptyShelf /\ version = 1 /\ view = Dark /\ overlooked = FALSE

-----------------------------------------------------------------------------
(* The shelf after an operation.                                           *)

Put(s, slot, content) == [s EXCEPT ![slot] = content]

\* Everything from the slot to the first gap moves up by one.
Inserted(s, slot, gap, content) ==
    [i \in Slot |-> IF i = slot THEN content
                    ELSE IF slot < i /\ i <= gap THEN s[i - 1] ELSE s[i]]

FirstGap(s, slot, gap) ==
    gap >= slot /\ ~s[gap].bound /\ \A i \in Slot : slot <= i /\ i < gap => s[i].bound

\* Everything behind the slot moves down by one.
Removed(s, slot) ==
    [i \in Slot |-> IF i < slot THEN s[i] ELSE IF i < N THEN s[i + 1] ELSE Empty]

\* The block goes to `to`; what lies between moves the other way by its length.
Rotated(s, from, to, len) ==
    [i \in Slot |-> IF to <= i /\ i < to + len THEN s[i + from - to]
                    ELSE IF from <= i /\ i < to + len THEN s[i + len]
                    ELSE IF to <= i /\ i < from + len THEN s[i - len]
                    ELSE s[i]]

\* What one operation can make of the shelf.
IsResult(s, content) ==
    \/ \E slot \in Slot, part \in Part, qty \in Qty :
          \/ content = Put(s, slot, Holding(part, qty))
          \/ \E gap \in Slot :
                FirstGap(s, slot, gap) /\ content = Inserted(s, slot, gap, Holding(part, qty))
    \/ \E slot \in Slot :
          \/ content = Put(s, slot, Empty)
          \/ content = Removed(s, slot)
          \/ \E qty \in Qty :
                s[slot].bound /\ content = Put(s, slot, Holding(s[slot].item[1], qty))
    \/ \E from \in Slot, to \in Slot, len \in Slot :
          /\ from # to /\ from + len - 1 <= N /\ to + len - 1 <= N
          /\ content = Rotated(s, from, to, len)
    \/ content = EmptyShelf

-----------------------------------------------------------------------------
\* An operation starts from what clients see and takes effect as a whole.
Operate ==
    /\ view.up
    /\ view = Showing(shelf, version) \/ overlooked
    /\ version' = Following(view.version)
    /\ \E old \in {view.shelf}, new \in {shelf'} : IsResult(old, new)
    /\ overlooked' = FALSE
    /\ UNCHANGED view

\* The answer, or the end of a boot.
Show == ~overlooked /\ view' = Showing(shelf, version) /\ UNCHANGED <<shelf, version, overlooked>>

\* The end of a boot that did not find the shelf.
Overlook ==
    /\ view = Dark
    /\ view' = Showing(EmptyShelf, 1) /\ overlooked' = TRUE
    /\ UNCHANGED <<shelf, version>>

PowerLoss == view' = Dark /\ overlooked' = FALSE /\ UNCHANGED <<shelf, version>>

\* Only damage to the stored shelf undoes anything, and it undoes everything.
Damage ==
    /\ view = Dark
    /\ shelf' = EmptyShelf /\ version' = 1
    /\ UNCHANGED <<view, overlooked>>

Next == Show \/ Overlook \/ PowerLoss \/ Damage \/ Operate

Spec == Init /\ [][Next]_vars
=============================================================================
