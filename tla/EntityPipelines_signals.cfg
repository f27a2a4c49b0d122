SPECIFICATION Spec
CONSTANTS
 s1 = s1 s2 = s2 s3 = s3 a1 = a1 a2 = a2 a3 = a3 p1 = p1 g1 = g1
 f1 = f1 f2 = f2 f3 = f3 form = form filled = filled
 Types = {"Job", "Client"}
 Fields = {"key", "status", "client"}
 Texts = {"k1", "k2", "k3", "new", "ready", "r1", "r2", "r3"}
 Names = {"k1", "k2", "k3", "new", "ready", "letters", "photo", "r1", "r2", "r3", "mail", "form", "offer",
          "offers"}
 Options = {"new", "ready"}
 Ids = {"r1", "r2", "r3"}
 RecordType = "Job" KeyField = "key" StatusField = "status"
 RootField = "key" ToField = "client"
 Subfolder = "letters" Correspondence = "mail"
 Defined <- ClientsOnly
 Definitions <- MCDefinitions
 Stored <- Fixture
 Agents = {}
 Pages = {}
 Pipelines = {s1, s2, s3, a1, a2, a3}
 Requests = {s1, s2, s3, a1, a2, a3, f1, f2, f3}
 Contents = {s1, s2, s3, a1, a2, a3, form, filled}
 Templates = {form}
 Populated = filled
 Shelf <- OneTemplate
 Fill <- ThreeFills
 Casts <- MCCasts
 Asks = {}
 Typed = {}
 Changes = {"create"}
 Faults = FALSE
 StoreFaults = TRUE
 Provider = "google-drive"
 Transitions <- MCTransitions
 Signal <- AllSignals
 Mail <- AllMails
 AtOnce = 2
INVARIANT OneRecordUnlessContested
 
INVARIANT FilesKept
CHECK_DEADLOCK FALSE
