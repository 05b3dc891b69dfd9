---------------------------- MODULE MCHigherOrder ----------------------------
(***************************************************************************)
(* HigherOrder on three lists of up to three integers, one of which is no  *)
(* octet, one blob of two octets, in widths up to one that is too large,    *)
(* and a buffer of four items: the longest list and one more fill it, two  *)
(* of them do not fit.                                                     *)
(***************************************************************************)
EXTENDS HigherOrder

MCInts == {0, 3}
MCLists == {<< >>, <<3>>, <<3, 0, 3>>}
MCFirstOctets == [b \in Blobs |-> <<0, 1>>]
MCWidths == {-1, 0, 1, 2, 3}
==============================================================================
