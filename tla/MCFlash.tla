------------------------------ MODULE MCFlash ------------------------------
(* Two regions: two sectors of one byte, and one of four pages, of which a *)
(* sync can program some and fail.                                         *)
EXTENDS Flash

MCRegs == <<[size |-> 1, count |-> 2], [size |-> 4, count |-> 1]>>
=============================================================================
