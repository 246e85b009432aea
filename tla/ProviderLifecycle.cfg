SPECIFICATION FairSpec
CONSTANTS
    Request = {r1}
    Instance = {i1, i2}
    Config = {c1}
    InitialConfig = c1
    MaxGeneration = 3
    ProviderID = {p1}
    Fingerprint = {f1}
    NoFingerprint = NoFingerprint
    Disabled = Disabled
    Unbuilt = Unbuilt
    None = None
INVARIANTS
    RetirementCoversOlder
    NoUseAfterClose
    EffectiveIsDesired
PROPERTIES
    LeaseIsFresh
    RetiredDrains
    
    UseSpec
