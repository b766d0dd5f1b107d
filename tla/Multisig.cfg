SPECIFICATION FairSpec
CONSTANTS
    s1 = s1
    s2 = s2
    s3 = s3
    m1 = m1
    m2 = m2
    Signers = {s1, s2, s3}
    Threshold = 2
    Messages = {m1, m2}
    Manager <- Mixed
    Enrolled = {s1, s2}
    Runtime <- OneThreadS1
    MaxFaults = 2
INVARIANTS
    TypeOK
    ExecutedWereApproved
PROPERTIES
    ProposalsExecute
CHECK_DEADLOCK FALSE
