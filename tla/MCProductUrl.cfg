\* Depth, nodes, redirects and addresses are cut from 15, 10000, 5 and 3.
CONSTANTS
    MaxDepth = 1
    MaxNodes = 3
    NoSource = NoSource
    MaxRedirects = 2
    MaxAddresses = 2
    Lookups = {1, 3}
    Pages <- MCPages
SPECIFICATION LiveSpec
INVARIANTS
    DispatcherClosed
    ProductIsFirst
PROPERTIES
    EveryCallAnswered
