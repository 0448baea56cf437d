SPECIFICATION FairSpec
CONSTANTS
    Clients = {"a", "b"}
    Nodes = {"n1", "n2"}
    Nil = "nil"
INVARIANTS TypeOK ListedLive TouchesRegistered OneReceiver KeysAtMostOnce
PROPERTIES CloseHonoured DesktopEnds
