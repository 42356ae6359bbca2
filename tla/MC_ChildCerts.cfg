SPECIFICATION Spec
CONSTANTS
    None = None  Revoked = Revoked
    Child = {c1}
    Key = {k1}
    KeysOf <- MCKeysOf
    Resource = {x1, x2}
    MaxCerts = 3
    MaxKeys = 2
    MaxClasses = 2
SYMMETRY MCSymmetry
INVARIANTS PublishedIsIssued NoneOverclaims PublishedNotRevoked CertsFollowChild
 
