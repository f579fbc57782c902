------------------------------ MODULE MCOutbox ------------------------------
(* Small instances of Outbox.                                              *)
EXTENDS Outbox

\* Two posts, then the key's rotation with a post behind it.
MCOp == <<"post", "post", "rotate", "post">>
MCBody == <<"b", "d", "c", "b">>
MCDirect == {[id |-> 9, body |-> "b"]}
=============================================================================
