\* Every graph over three nodes (512 of them), every start node.
SPECIFICATION FairSpec
CONSTANT Nodes = {a, b, c}
INVARIANT TypeOK
INVARIANT LoopInvariant
INVARIANT ReturnsDescendants
PROPERTY Terminates
