\* Four conversations and every stream of up to five bytes, in chunks of up to
\* three bytes through kernel buffers that hold three bytes one way and one
\* write the other.
SPECIFICATION FairSpec
CONSTANTS
    Streams <- MCStreams
    MaxLen = 5
    Chunk = 3
    Inbound = 3
    Outbound = 1
CHECK_DEADLOCK FALSE
INVARIANTS
    TypeOK
    AnsweredBeforeWaiting
    CutsObjects
PROPERTIES
    InOrder
    EveryAnswered
