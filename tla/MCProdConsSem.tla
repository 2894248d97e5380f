--------------------------- MODULE MCProdConsSem ----------------------------
(* Instances of ProdConsSem for TLC: short files whose chunks fall on        *)
(* both sides of the search.                                                 *)
EXTENDS ProdConsSem

\* strlen of the chunks: with StringLength 2, lines of 2, 3, 2 and 1
\* characters, and of 1, 3 and 1, with their newlines
FourLines  == <<3, 4, 3, 2>>
ThreeLines == <<2, 4, 2>>
=============================================================================
