------------------------------ MODULE MCTraining ------------------------------
\* Three trainers, one with fewer batches, on a ring of four nodes.
EXTENDS Training
CONSTANTS a, b, c
MCNodes == 0..3
Ring == [n \in MCNodes |-> {(n + 1) % 4}]
Uneven == [t \in {a, b, c} |-> IF t = a THEN 1 ELSE 2]
Shares == [t \in {a, b, c} |-> IF t = a THEN <<{0}, {1}>> ELSE IF t = b THEN <<{2}>> ELSE <<{3}>>]
ValAndTest == [t \in {a, b, c} |-> IF t = a THEN {0, 2} ELSE IF t = b THEN {1, 3} ELSE {}]
===============================================================================
