CONSTANTS
    c1 = c1
    c2 = c2
    c3 = c3
    NoClient = NoClient
    Clients <- TwoClients
    Catalogs <- SomeCatalogs
    NoCatalog = "no catalog"
    NumberOf <- NumberOfSome
SPECIFICATION FairSpec
PROPERTY Recovers
CHECK_DEADLOCK FALSE
