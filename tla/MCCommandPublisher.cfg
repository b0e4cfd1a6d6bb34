\* Four requests to one queue, failing anywhere.
SPECIFICATION Spec
CONSTANTS
    job = job
    direct = direct
    test = test
    odd = odd
    Producers <- Everyone
    Jobs <- OneJob
    Testers <- Tests
    Options <- StartSeqs
    Stateless <- OddOne
    Size <- Sizes
INVARIANTS
    TypeOK
    RangesDisjoint
    CommandsImmutable
    JobsAppend
\* Every producer may be done.
CHECK_DEADLOCK FALSE
