SPECIFICATION LeaseSpec
CONSTANTS
    Instances = {i1, i2}
    Nobody = Nobody
    MaxLease = 2
    MaxFaults = 1
    MaxCrashes = 1
INVARIANTS LeaseTypeOK WatchersCaughtUp
PROPERTIES LoserStops SomebodyWatches
