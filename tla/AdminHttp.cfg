\* One client with requests around every limit, one that falls silent after
\* its request line, and a stop of the server at any time.
SPECIFICATION FairSpec
CONSTANTS
    Conns = {1, 2}
    HeaderMax = 6
    BodyMax = 2
    Requests <- MCRequests
\* The server may be stopped with every connection closed.
CHECK_DEADLOCK FALSE
INVARIANTS
    AnswerDeserved
PROPERTIES
    EveryConnectionEnds
    StopEnds
