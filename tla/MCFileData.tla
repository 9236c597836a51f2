----------------------------- MODULE MCFileData -----------------------------
(* Small instances of FileData: stores ranked by a fixed order per block, as
   rendezvous hashing does, and the best R of the live ones picked. *)
EXTENDS FileCommits, SequencesExt

CONSTANTS m1, m2, w1, w2, r1, s1, s2, R

OneBlockRanges == {<<0, 1>>, <<1, 1>>}
SingleCells == {<<0, 1>>, <<1, 1>>, <<2, 1>>}
OneCell == {<<0, 1>>}
Straddle == {<<1, 2>>}

TwoMounts == w1 :> m1 @@ w2 :> m2 @@ r1 :> m1
OneEach == w1 :> m1 @@ w2 :> m2
Alone == w1 :> m1

Ranked(i) == IF i % 2 = 0 THEN <<s1, s2>> ELSE <<s2, s1>>

Picked(i, live) ==
  LET q == SelectSeq(Ranked(i), LAMBDA n : n \in live)
  IN  SubSeq(q, 1, IF Len(q) < R THEN Len(q) ELSE R)
=============================================================================
