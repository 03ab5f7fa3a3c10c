SPECIFICATION FairSpec
CONSTANT MaxSends = 4
INVARIANTS NoDuplicate LostOnlyIfOverlapped OrderedUnlessOverlapped
PROPERTIES EventuallySent ImplementsChannel
