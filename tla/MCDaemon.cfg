CONSTANTS
    c1 = c1
    c2 = c2
    c3 = c3
    NoClient = NoClient
    Clients <- ThreeClients
    Catalogs <- TwoCatalogs
    NoCatalog = "no catalog"
    NumberOf <- NumberOfTwo
SPECIFICATION FairSpec
INVARIANT PluginOutlivesDevice
PROPERTY IdsAreFresh
PROPERTY CommandsEnd
CHECK_DEADLOCK FALSE
