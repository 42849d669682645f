------------------------------- MODULE Optimal -------------------------------
(***************************************************************************)
(* The cache of proven optima (web/src/optimal.ts): for a board, the least *)
(* count recorded.  A board stands for a room's id with its rows.          *)
(***************************************************************************)
EXTENDS Rules

(* The records once a count, if any, is recorded for a board.              *)
Recorded(records, board, count) ==
  LET beaten(m) == \E r \in records : r.board = board /\ r.moves <= m
      news      == {m \in count : ~beaten(m)}
  IN {r \in records : news = {} \/ r.board # board}
       \cup {[board |-> board, moves |-> m] : m \in news}

=============================================================================
