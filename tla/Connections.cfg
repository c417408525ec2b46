SPECIFICATION FairSpec
CONSTANTS
    Conn = {c1, c2}
    Key = {k1, k2}
    NoConn = NoConn
    Worker = Worker
    Boot = Boot
    Self = Self
    MaxPeers = 1
    MaxBusy = 2
INVARIANTS ConnTypeOK EntriesAlive ListedUnlessShared StopClosesListed
PROPERTIES LoopsEnd StopCompletes
