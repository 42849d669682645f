------------------------------ MODULE Drawings -------------------------------
(* Boards drawn row by row: # is a wall, @ the keeper, a small letter a    *)
(* box, a capital the goal of its label, * a box on its goal.              *)
EXTENDS Floor

Drawn(rows, labels) ==
  LET Cells(marks) == {c \in (1 .. Len(rows)) \X (1 .. Len(rows[1])) : rows[c[1]][c[2]] \in marks}
      small == [A |-> "a", B |-> "b"]
      boxes(l) == RowMajor(Cells({l} \cup (IF l = "a" THEN {"*"} ELSE {})))
      goals == Cells({"A", "B", "*"})
  IN  [open   |-> Cells({".", "@", "a", "b", "A", "B", "*"}),
       goals  |-> [c \in goals |-> IF c \in Cells({"B"}) THEN "b" ELSE "a"],
       labels |-> labels,
       start  |-> [player |-> RowMajor(Cells({"@"}))[1],
                   boxes  |-> [i \in DOMAIN labels |->
                     boxes(labels[i])[Cardinality({k \in 1 .. i : labels[k] = labels[i]})]]]]

=============================================================================
