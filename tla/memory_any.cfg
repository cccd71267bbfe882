SPECIFICATION OrderlySpec
CONSTANTS
    Frames <- MCFrames
    SharedPages <- MCSharedPages
    PrivatePages <- MCPrivatePages
    Image <- MCImage
    ArgPages = 1
INVARIANTS
    TypeOK
    
    
CHECK_DEADLOCK FALSE
