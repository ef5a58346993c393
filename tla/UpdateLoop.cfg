SPECIFICATION FairSpec
CONSTANT UpdateIds = {1, 2, 4}
INVARIANT TypeOK
INVARIANT NothingLost
INVARIANT ReplayWindow
INVARIANT ConfirmedIsDurable
PROPERTY DeliversAtLeastOnce
PROPERTY EveryUpdateHandled
