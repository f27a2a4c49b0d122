SPECIFICATION Spec
CONSTANTS
 g1 = g1 g2 = g2 o1 = o1 h1 = h1 h2 = h2 k1 = k1 t1 = t1 c1 = c1 d1 = d1 p1 = p1
 quote = quote support = support
 None = None
 Names = {g1, g2, o1, h1, h2, k1, t1, c1, d1, p1}
 ProviderOf <- MCProviderOf
 Rotating = {"outlook"}
 Rows <- MCRows
 Tabs = {"tab1", "tab2"}
 Creators = {"new1", "new2"}
 Users = {"check1", "check2", "send1", "note1", "mail1", "file1", "file2"}
 Casts <- MCCasts
 MaxRows = 9
 MaxIssued = 3
 Faults = TRUE
 Mails = {1, 2, 3, 4}
 BoxOf <- MCBoxOf
 Posts = {9}
 Deliveries = {"try1", "try2"}
 PostOf <- MCPostOf
 After <- MCAfter
 Checks = {"check1", "check2"}
 Callers = {"send1", "note1", "mail1"}
 Calls <- MCCalls
 Attachments = {"file1", "file2"}
 AttachedTo <- MCAttachedTo
 StorageOf <- MCStorageOf
 Pins <- MCPins
 Agents = {quote, support}
 Mentions <- MCMentions
 Servings <- MCServings
 PageSize = 2
 
INVARIANT LatestStored
INVARIANT ActsAsChosen
INVARIANT SentWhole
INVARIANT Handled
INVARIANT EndedMeansSettled
PROPERTY DefaultsHold
CHECK_DEADLOCK FALSE
