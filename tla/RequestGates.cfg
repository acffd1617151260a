SPECIFICATION GateSpec
CONSTANTS
    modern = modern
    legacy = legacy
    other = other
    plain = plain
    unicode = unicode
    surrogate = surrogate
    json = json
    deep = deep
    guarded = guarded
    isolated = isolated
    low = low
    Low = Low
    in = in
    tenantId = tenantId
    f1 = f1
    f2 = f2
    f3 = f3
    h1 = h1
    h2 = h2
    me = me
    they = they
    org = org
    Families <- MCFamilies
    Supported = {modern}
    LegacyVersions = {legacy}
    NoVersion = NoVersion
    MalformedVersion = MalformedVersion
    Texts <- MCTexts
    Plain = {plain, json, deep, guarded, isolated, org, they}
    Unencodable = {surrogate}
    Decodes <- MCDecodes
    TooDeep = {deep}
    Absent = Absent
    Policies <- MCPolicies
    TenantId = tenantId
    Unrenderable = Unrenderable
    Names = {low, Low, in, tenantId}
    Fold <- MCFold
    Params = {h1, h2}
    ArgumentDepth = 2
    MetaDepth = 2
    SelfReportedDepth = 3
    MaxItems = 1
INVARIANTS RoutedAsRun NoClaimSurvives ConformingServed ListsWhatIsServed
CHECK_DEADLOCK FALSE
