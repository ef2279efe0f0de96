----------------------------- MODULE MCReactive -----------------------------
(* Small graphs for the reactive core: values 0 and 1, closures of two reads. *)
EXTENDS Reactive

Bit == {0, 1}
NoBit == 2

\* A conditional diamond.  a reads x (dedup).  b reads a and, while a is 0, y.
\* e reads a and then b only while a is 0; f reads b.
DiamondState == {"x", "y"}
DiamondScan == {"a", "b"}
DiamondEffect == {"e"}
DiamondRank == [n \in {"x", "y", "a", "b", "e", "f"} |->
    CASE n \in {"x", "y"} -> 0 [] n = "a" -> 1 [] n = "b" -> 2 [] OTHER -> 3]
DiamondNextRead(n, r) ==
    CASE n = "a" /\ Len(r) = 0 -> "x"
      [] n = "b" /\ Len(r) = 0 -> "a"
      [] n = "b" /\ Len(r) = 1 /\ r[1] = 0 -> "y"
      [] n = "e" /\ Len(r) = 0 -> "a"
      [] n = "e" /\ Len(r) = 1 /\ r[1] = 0 -> "b"
      [] n = "f" /\ Len(r) = 0 -> "b"
      [] OTHER -> "done"
DiamondResult(n, r) ==
    IF Len(r) = 0 THEN 0 ELSE IF Len(r) = 2 THEN r[2] ELSE r[1]


\* Two effects over one state, of different reach.  a reads x (dedup), b reads a and
\* then x; e reads a and then b; f reads x and, while x is 1, b.
PairState == {"x"}
PairEffect == {"e", "f"}
PairRank == [n \in {"x", "a", "b", "e", "f"} |->
    CASE n = "x" -> 0 [] n = "a" -> 1 [] n = "b" -> 2 [] OTHER -> 3]
PairNextRead(n, r) ==
    CASE n = "a" /\ Len(r) = 0 -> "x"
      [] n = "b" /\ Len(r) = 0 -> "a"
      [] n = "b" /\ Len(r) = 1 -> "x"
      [] n = "e" /\ Len(r) = 0 -> "a"
      [] n = "e" /\ Len(r) = 1 -> "b"
      [] n = "f" /\ Len(r) = 0 -> "x"
      [] n = "f" /\ Len(r) = 1 /\ r[1] = 1 -> "b"
      [] OTHER -> "done"

=============================================================================
