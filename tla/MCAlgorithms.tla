---------------------------- MODULE MCAlgorithms ----------------------------
(***************************************************************************)
(* Small instances of Algorithms.                                          *)
(***************************************************************************)
EXTENDS Algorithms

\* A message of every kind, with numbers at the ends of their ranges and beyond.
Hash1  == <<1, 2>>
Hash2  == <<0, 255>>
Small  == {0, 255, 256}
Pieces == {<<>>, <<7>>, <<0, 255>>}
Trees  == {<<>>, <<Hash1>>, <<Hash1, Hash2>>}

Contents ==
  {[tag |-> tag, p2 |-> p, s |-> s, rh |-> Hash1, mb |-> mb, sig |-> sig] :
     tag \in {"e"}, p \in Small, s \in Pieces, mb \in Trees, sig \in Pieces}
  \cup {[tag |-> "i", p2 |-> 0, s |-> s, rh |-> Hash2, mb |-> mb, sig |-> sig] :
     s \in Pieces, mb \in Trees, sig \in Pieces}
  \cup [tag : {"A", "B"}, p1 : Small, p2 : {1}, p3 : {0, 1}]
  \cup [tag : {"C"}, p1 : Small, r : {0, 255, 256, 65535, 65536}, sig : {<<9>>, <<9, 0, 9>>}]
  \cup [tag : {"r"}, p1 : Small, sig : {Hash1, Hash2}]
  \cup [tag : {"O"}, p1 : Small, sig : {<<1, 2, 3>>}]

MCCodes == {<<mc, f, t, c>> : mc \in {0, 70000}, f \in {0, 255}, t \in {3, 256}, c \in Contents}
=============================================================================
