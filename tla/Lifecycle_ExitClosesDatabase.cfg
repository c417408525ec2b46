SPECIFICATION FairSpec
CONSTANTS
    Serves = {TRUE, FALSE}
    MaxConns = 2
PROPERTIES ExitClosesDatabase
