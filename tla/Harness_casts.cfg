SPECIFICATION Spec
CONSTANTS
 template = template totals = totals triage = triage answer = answer bare = bare
 quote = quote reply = reply odd = odd
 u1 = u1 u2 = u2 s1 = s1 s2 = s2 s3 = s3 ours = ours theirs = theirs
 None = None
 Jobs = {template, totals, triage, answer, bare, quote, reply, odd}
 Orgs = {ours, theirs}
 Saves = {s1, s2, s3}
 Uploads = {u1, u2}
 TargetChars = 6 OverlapChars = 2 MaxChars = 8
 DocumentLimit = 24
 DefaultLimit = 1 OverFetch = 3 K = 60
 Form <- MCForm
 Connected <- MCConnected
 UploadOrg <- MCUploadOrg
 Documents <- AllDocuments
 OrgOf <- MCOrgOf
 Pipeline <- MCPipeline
 Programme <- MCProgramme
 Fields <- MCFields
 Granted <- MCGranted
 ActionTool <- MCActionTool
 NeverSay <- MCNeverSay
 Sender <- Unknown
 Mentioned <- MCMentioned
 Answered <- MCAnswered
 Drafts <- MCDrafts
 Lower <- MCLower
 Locales = {"en-GB"}
 Stored <- MCStored
 Gated = {"send_email"}
 Faults = TRUE
 Casts <- MCCasts
INVARIANT ProgrammeFollowed
INVARIANT DocumentsSound
INVARIANT ChunksSound
INVARIANT RepliesSafe
 
PROPERTY RetrievalSound
PROPERTY SecretKept
CHECK_DEADLOCK FALSE
