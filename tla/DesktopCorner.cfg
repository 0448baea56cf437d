SPECIFICATION Spec
CONSTANTS
    Clients = {"a", "b"}
    Nodes = {"n1", "n2"}
    Nil = "nil"
PROPERTY ExitNeedsButton
