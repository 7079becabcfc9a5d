SPECIFICATION CatalogSpec
CONSTANTS
    None = None
    Users = {u1}
    Admins = {u1}
    Workers = {w1, w2}
    VenueIds = {v1, v2, v3}
    ItemIds = {i1, i2}
    SectionIds = {s1, s2}
    OrderIds = {o1}
    oracle = oracle
    head1 = head1
    Words <- MCWords
    Heads <- MCHeads
    Slugs <- MCSlugs
    SeedSlug <- MCSeedSlug
    Codes = {c1, c2}
    Prices = {1, 2}
    SeedPrices = {1}
    Qtys = {3}
    MaxWrites = 2
    MaxReaders = 1
    MaxPatch = 1
SYMMETRY Symmetry
INVARIANTS OrdersFitTheirVenue QuietAnswersAreCurrent
PROPERTIES LostOnlyByOverlap RefusedOnlyByOverlap
