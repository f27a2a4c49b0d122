SPECIFICATION FairSpec
CONSTANTS
 w1 = w1 w2 = w2 w3 = w3 x1 = x1 g1 = g1 o1 = o1 h1 = h1 y1 = y1 z1 = z1
 a1 = a1 a2 = a2 a3 = a3 b1 = b1 ours = ours theirs = theirs
 None = None
 OrgOf <- MCOrgOf
 ProviderOf <- MCProviderOf
 Workflows = {w1, w2, w3, x1}
 Accounts = {g1, o1, y1}
 Agents = {a1, a2, a3, b1}
 Setup <- Mixed
 Clicks = {c1, c2}
 Messages = {m1}
 Ops = {"activate"}
 Disconnectable = {}
 Removable = {}
 Faults = FALSE
INVARIANT HandledAtHome
INVARIANT SpecificFirst
PROPERTY SlotStaysServed
