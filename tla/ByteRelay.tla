------------------------------ MODULE ByteRelay ------------------------------
(***************************************************************************)
(* What a TCP proxy promises about data: in each direction the receiver's  *)
(* socket is handed the chunks that were sent, in order, none twice and    *)
(* none skipped, up to wherever the connection ends.                       *)
(***************************************************************************)
EXTENDS Integers, Sequences

VARIABLES sent, got

Ends == {"ce", "pop"}
Other(e) == IF e = "ce" THEN "pop" ELSE "ce"

Init == sent = [e \in Ends |-> 0] /\ got = [e \in Ends |-> <<>>]

Send(e) == sent' = [sent EXCEPT ![e] = @ + 1] /\ UNCHANGED got

Deliver(e) ==
    /\ Len(got[e]) < sent[Other(e)]
    /\ got' = [got EXCEPT ![e] = Append(@, Len(@) + 1)]
    /\ UNCHANGED sent

Next == \E e \in Ends : Send(e) \/ Deliver(e)

Spec == Init /\ [][Next]_<<sent, got>>
=============================================================================
