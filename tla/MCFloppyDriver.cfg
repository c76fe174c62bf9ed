\* Tracks of three sectors: a read up to the end of the first track, and one of
\* the whole second track of head 1.  Three threads overfill a queue of one
\* while a job is in hand.
CONSTANTS
    Clients = {c1, c2, c3}
    Requests <- MCRequests
    SECTORS_PER_TRACK = 3
    FDD_JOB_ITEM_Q_SIZE = 1
    NoData = NoData
SPECIFICATION FairSpec
INVARIANTS WaitingHasJob ReadDelivers
PROPERTY ReadsReturn
