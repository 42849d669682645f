--------------------------- MODULE MCArenaClient ---------------------------
(* Small arenas: chunks of four records, as in the crate's unit tests, and *)
(* limits on both sides of one chunk and of the first table.               *)
EXTENDS ArenaClient, TLC

PowerOfTwoFrom(n) == CHOOSE p \in {2, 4, 8, 16, 32} : p >= n /\ \A q \in {2, 4, 8, 16, 32} : q >= n => p <= q

MCFinalTable == [n \in 1 .. MaxLimit + 1 |-> PowerOfTwoFrom(2 * n)]

(* Every estimate is 0, so that positions stay interchangeable; a requeued *)
(* entry carries 1.                                                        *)
MCEstimate == [s \in States |-> 0]

(* Positions are interchangeable: nothing compares two but for equality.   *)
Positions == Permutations(States)

=============================================================================
