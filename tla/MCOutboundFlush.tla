--------------------------- MODULE MCOutboundFlush ---------------------------
(***************************************************************************)
(* OutboundFlush with interchangeable devices and flush() calls.           *)
(***************************************************************************)
EXTENDS OutboundFlush, TLC

MCSymmetry == {p @@ q : p \in Permutations(Device), q \in Permutations(Flush)}

\* Select is SelectSeq, for every choice of positions of short queues.
ASSUME SelectIsSelectSeq ==
    \A n \in 0..4 : \A kept \in SUBSET (1..n) :
        LET q == [i \in 1..n |-> i]
        IN  Select(q, kept) = SelectSeq(q, LAMBDA i : i \in kept)
=============================================================================
