SPECIFICATION Spec
CONSTANTS
    None = None  Revoked = Revoked
    Child = {c1}
    Key = {k1}
    KeysOf <- MCKeysOf
    Resource = {1, 2}
    MaxCerts = 1
    MaxKeys = 2
    MaxClasses = 2
INVARIANT EventsApply
