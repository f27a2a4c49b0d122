SPECIFICATION Spec
CONSTANTS
 s1 = s1 s2 = s2 s3 = s3 a1 = a1 a2 = a2 a3 = a3 p1 = p1 g1 = g1
 f1 = f1 f2 = f2 f3 = f3 form = form filled = filled
 Types = {"Job", "Client"}
 Fields = {"key", "status", "client"}
 Texts = {"k1", "k2", "k3", "new", "ready", "r1", "r2", "r3", "r4"}
 Names = {"k1", "k2", "k3", "new", "ready", "letters", "photo", "r1", "r2", "r3", "r4"}
 Options = {"new", "ready"}
 Ids = {"r1", "r2", "r3"}
 RecordType = "Job" KeyField = "key" StatusField = "status"
 RootField = "key" ToField = "client"
 Subfolder = "letters" Correspondence = "letters"
 Defined <- MCDefined
 Definitions <- MoreDefinitions
 Stored <- OneJob
 Agents = {g1}
 Pages = {p1}
 Pipelines = {s1}
 Requests = {s1}
 Contents = {s1, form, filled}
 Templates = {form}
 Populated = filled
 Shelf <- NoShelf
 Fill <- NoFill
 Casts <- OnlySignal
 Asks <- MCAsks
 Typed = {"ready"}
 Changes = {"define", "drop", "delete"}
 Faults = TRUE
 StoreFaults = FALSE
 Provider = "sharepoint"
 Transitions <- NoticeOnly
 Signal <- OneSignal
 Mail <- NoMail
 AtOnce = 2
INVARIANT WellTyped
INVARIANT WritesMerge
CHECK_DEADLOCK FALSE
