CONSTANTS
    Batches = {cron, request}
    Assets = {a1, a2, a3}
    Concurrencies = {0, 2}
    Nobody = Nobody
SPECIFICATION FairSpec
INVARIANTS TypeOK ParallelismIsBounded ResultAddsUp NoAssetIsScannedTwice
PROPERTIES BatchesReturn
CHECK_DEADLOCK FALSE
