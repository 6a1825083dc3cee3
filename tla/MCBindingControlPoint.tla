----------------------- MODULE MCBindingControlPoint -----------------------
(* TLC instances of BindingControlPoint: sizes are given in the .cfg files. *)
EXTENDS BindingControlPoint

\* A record for the slot, and one whose check byte does not fit.
Sealed(slot) == CHOOSE r \in Table!Frame : r.slot = slot /\ Table!RecordCrcOk(r)
Broken(slot) == CHOOSE r \in Table!Frame : r.slot = slot /\ ~Table!RecordCrcOk(r)

Move(from, to, len) == [op |-> "move", from |-> from, to |-> to, len |-> len]

\* Every operation, with every kind of answer it can have: each check it may fail,
\* a full table, a gap in front of and behind the slot, a block in both directions
\* and onto itself.
ClientCommands ==
    {Malformed, Move(1, 2, 2), Move(3, 1, 1), Move(2, 2, 1), Move(1, 3, 2)}
    \cup [op : {"read"}, slot : {0, 1}]
    \cup [op : {"clear"}, slot : {0, 2}]
    \cup [op : {"remove"}, slot : {1, N + 1}]
    \cup [op : {"write"}, record : {Sealed(1), Sealed(3), Broken(1), Sealed(0)}]
    \cup [op : {"insert"}, slot : {1, 2}, record : {Sealed(1), Broken(1)}]
    \cup [op : {"qty"}, slot : {0, 1}, qty : {0}]
    \cup [op : {"reset"}, magicOk : BOOLEAN]

\* Another phone puts a record in or takes one out.
OtherCommands ==
    [op : {"remove"}, slot : {1}] \cup [op : {"insert"}, slot : {1}, record : {Sealed(1)}]

\* What the client must not repeat.
OneInsertion == [op : {"insert"}, slot : {1}, record : {Sealed(1)}]
=============================================================================
