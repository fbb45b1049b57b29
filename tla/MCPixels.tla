------------------------------ MODULE MCPixels ------------------------------
(* Ints of 10 bits: sizes of 20 by 20 pixels wrap, and those of 3 by 3 with *)
(* pixels of four bytes do not.                                             *)
EXTENDS Pixels

PixelBytes == [t \in {"Byte", "Int16", "Float32", "CInt16", "Unknown"} |->
  CASE t = "Byte" -> 1 [] t = "Int16" -> 2 [] t = "Float32" -> 4 [] t = "CInt16" -> 4
    [] t = "Unknown" -> 0]
BufferSizes == {-1, 0, 1, 2, 3, 20}
PixelSpaces == {-3, 1, 3, 5, 60}
BlockSizes == {<<1, 1>>, <<2, 3>>, <<9, 8>>, <<20, 20>>, <<30, 30>>, <<40, 32>>}
ArrayCounts == {0, 1, 2, 3, 4, 5, 6, 9, 12, 18, 60}
===============================================================================
