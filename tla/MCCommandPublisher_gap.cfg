\* One estimate leaves a gap.
SPECIFICATION Spec
CONSTANTS
    job = job
    direct = direct
    test = test
    odd = odd
    Producers <- OneJob
    Jobs <- OneJob
    Testers <- Nobody
    Options <- StartSeqs
    Stateless <- Nobody
    Size <- Sizes
INVARIANT SequenceContiguous
\* Every producer may be done.
CHECK_DEADLOCK FALSE
