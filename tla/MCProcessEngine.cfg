CONSTANTS
    Asset = {a1, a2}
    Worker = {w1, w2}
    NoAsset = NoAsset
SPECIFICATION Spec
INVARIANTS TypeOK NoLoss OneOwner DoneMeansDrained
PROPERTIES NothingAfterDone HandsOn Drains Joins
