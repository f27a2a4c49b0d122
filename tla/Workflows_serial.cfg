SPECIFICATION Spec
CONSTANTS
 w1 = w1 w2 = w2 w3 = w3 x1 = x1 g1 = g1 o1 = o1 h1 = h1 y1 = y1 z1 = z1
 a1 = a1 a2 = a2 a3 = a3 b1 = b1 ours = ours theirs = theirs
 None = None
 OrgOf <- MCOrgOf
 ProviderOf <- MCProviderOf
 Workflows = {w1, w3}
 Accounts = {g1, h1, z1}
 Agents = {a1, a2, b1}
 Setup <- Webhook
 Clicks = {c1}
 Messages = {}
 Ops = {"activate", "deactivate", "add", "create"}
 Disconnectable = {g1}
 Removable = {a1, a2}
 Faults = TRUE
INVARIANT TypeOK
INVARIANT ScopesKept
INVARIANT OneActivePerSlot
 
