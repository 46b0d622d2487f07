SPECIFICATION MCSpec
CONSTANTS
    a1 = a1
    a2 = a2
    b1 = b1
    ka = ka
    kb = kb
    node = node
    mainUrl = mainUrl
    testUrl = testUrl
    site = site
    www = www
    r1 = r1
    r2 = r2
    r3 = r3
    Codes = {a1, a2, b1}
    Keys = {ka, kb}
    KeyOf <- MCKeyOf
    Ids = {node}
    Urls = {mainUrl, testUrl}
    NetOf <- MCNetOf
    Versions <- MCVersions
    Minimum <- MCMinimum
    Sites = {site, www}
    Pastes <- MCPastes
    Docs <- MCDocs
    Trusted = a1
    Pools <- MCPools
    Names = {site, www}
    ZoneOf <- MCZoneOf
    Typings <- MCTypings
    Resolvers = {r1, r2, r3}
    Wanted = {r1, r2, r3}
    Agreement = 2
    Liars = {r3}
    MaxEdits = 1
    Words = {w1, w2}
    Owner = owner
    PersonalCode <- MCPersonal
    AddressType = Absent
    LastIndex = 1
    MaxMishaps = 1
    Absent = Absent
    None = None
INVARIANTS
    ListingsVerify
    ClaimsOwned
    PoolSound
    PaymentsArrive
PROPERTIES
    AuditNeverLost
    LookupsHonest
