----------------------------- MODULE MCMsgStore -----------------------------
(* Constant values for model checking MsgStore.                            *)
EXTENDS MsgStore, TLC
MCAmount == [p \in Producer |-> 2]
MCSize == [p \in Producer \cup {End} |-> IF p = Forwarder THEN 2 ELSE 1]
=============================================================================
