SPECIFICATION FairSpec
CONSTANTS
    Handle = {c1, c2}
    Token = {t1}
    Links = {"login", "interstitial", c1, c2}
    None = None
    Typed = Typed
    Urls = {"internal", "external"}
    MaxCalls = 2
INVARIANTS LogoutSticks HeaderIsStored ShownIsSelected
PROPERTY LogoutEnds
