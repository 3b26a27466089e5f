SPECIFICATION PublishedSpec
CONSTANTS
    s1 = s1
    s2 = s2
    h1 = h1
    h3 = h3
    c1 = c1
    q1 = q1
    q2 = q2
    q3 = q3
    p = p
    local = local
    inA = inA
    inB = inB
    A = A
    B = B
    d1 = d1
    d2 = d2
    Stores <- MCStores
    Hosts <- MCHosts
    Captures <- MCCaptures
    Deleters <- MCDeleters
    Ids <- MCCaptures
    Payloads <- MCPayloads
    Images <- MCImages
    Repositories <- MCRepositories
    StoreOf <- MCStoreOf
    HostsOf <- MCHostsOf
    AssetsOf <- MCAssetsOf
    DigestOf <- MCDigestOf
    IdOf <- MCIdOf
    RemoteOf <- MCRemoteOf
    Publications <- MCPublications
    OriginOf <- MCOriginOf
    Clusters <- MCClusters
    Keep = 2
    MaxDeletions = 2
    None = None
CONSTRAINT Bounded
SYMMETRY Symmetric
INVARIANTS
    SharedKept
    NoOrphan
    PullableIsWhole
    PublishedIsListed
CHECK_DEADLOCK FALSE
