SPECIFICATION MCSpec
CONSTANTS
    p1 = p1  p3 = p3  u1 = u1  u3 = u3  h1 = h1  h2 = h2  g1 = g1  g2 = g2
    r1 = r1  NoHash = NoHash
    Publisher = {p1, p2, p3}
    KrillCa = {p1, p2}
    Uri = {u1, u2, u3}
    Content = {h1, h2, k2, g1, g2}
    Handler = {r1, r2}
    Jail <- MCJail
    ContentOf <- MCContentOf
    MinNr = 0
    MaxNr = 2
    MaxSerial = 3
SYMMETRY MCSymmetry
INVARIANTS RrdpFollowsPublishers DeltasLeadToSnapshot DeltasAcceptable
