SPECIFICATION Spec
CONSTANTS
    Configs <- MCConfigs
    Headers <- MCHeaders
    ModelNames <- MCModelNames
    Upstreams <- MCUpstreams
    Unsafe = {"?", "#", "blank"}
INVARIANTS
    ServesAsConfigured
    KeysExact
    NamesResolve
    UrlStaysInside
