------------------------- MODULE MCCommandPublisher -------------------------
(* CommandPublisher on small instances: an estimate, a direct output and two *)
(* push-tests, one of them without a state or told to start at 2.            *)
EXTENDS CommandPublisher

CONSTANTS job, direct, test, odd

Everyone == {job, direct, test, odd}
OneJob == {job}
Tests == {test, odd}
OddOne == {odd}
Nobody == {}
StartSeqs == [p \in Testers |-> IF p = odd THEN {0, 2} ELSE {0}]
Sizes == [p \in Producers |-> IF p = job THEN 2 ELSE 1]
=============================================================================
