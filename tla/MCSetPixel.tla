------------------------------ MODULE MCSetPixel ------------------------------
(* Four pixels of three words, the first of its word and others, and         *)
(* operands that light one bit, or eight that are words of the program, too. *)
EXTENDS SetPixel

MCOperands == {[cx |-> 0, cy |-> 0, x |-> 0, y |-> 0],
               [cx |-> 4, cy |-> 2, x |-> 3, y |-> 1]}
MCPixels == {<<0, 8>>, <<0, 13>>, <<8, 0>>, <<15, 9>>}
=============================================================================
