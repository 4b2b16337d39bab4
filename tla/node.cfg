CONSTANTS
    u = u
    v = v
    p1 = p1
    Units = {u}
    Peers = {p1}
    Settings <- MCSettings
SPECIFICATION FairSpec
INVARIANTS
    TypeOK
    IndexesFollowSettings
    NothingForgotten
    
    
PROPERTIES
    CommandsEnd
