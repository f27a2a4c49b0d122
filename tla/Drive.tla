-------------------------------- MODULE Drive --------------------------------
(***************************************************************************)
(* The folders and files the tools create_folder, save_file and            *)
(* populate_template keep in a business's Google Drive or SharePoint, with *)
(* the requests that may run at once.  One HTTP request is one action.     *)
(* The store itself is external and is modelled by what the clients rely   *)
(* on: a folder or file is known by its id, Google Drive allows two of the *)
(* same name in one folder, SharePoint renames a new folder whose name is  *)
(* taken and addresses a file by its path.                                 *)
(***************************************************************************)
EXTENDS Naturals, Sequences, FiniteSets

CONSTANTS
    Provider,       \* "google-drive" or "sharepoint"
    Requests,       \* the tool calls that may run at once
    Names,          \* the names of folders and files
    Contents,       \* what files hold
    Templates,      \* the contents that are templates
    Populated,      \* the content of a document made from one
    Shelf,          \* the files the business has put in the root itself
    StoreFaults     \* may a request to the store fail?

ASSUME DriveAssumption ==
    /\ Provider \in {"google-drive", "sharepoint"}
    /\ "" \notin Names /\ "" \notin Contents
    /\ StoreFaults \in BOOLEAN
    /\ Templates \cup {Populated} \subseteq Contents
    /\ Shelf \in Seq([name : Names, folder : {0}, content : Contents])

VARIABLES
    folders,    \* the folders in the order they were made; 0 is the root
    files,      \* the files in the order they were made
    requests,   \* the local state of each tool call
    \* What the properties need to know of the past:
    homes,      \* which folder each path has led to
    raced       \* the names that two requests at once were about to create

driveVars == <<folders, files, requests, homes, raced>>

Folder == [name : Names, renamed : BOOLEAN, parent : Nat]
File == [name : Names, folder : Nat, content : Contents]
\* source is what is left of a template's path.
Request == [pc : {"idle", "access", "seek", "download", "walk", "mkdir", "findFile", "patch",
                  "upload", "saved", "refused"},
            op : {"folder", "file", "template"}, path : Seq(Names),
            left : Seq(Names), source : Seq(Names), at : Nat, name : Names \cup {""},
            content : Contents \cup {""}, replace : BOOLEAN]
NoRequest == [pc |-> "idle", op |-> "folder", path |-> <<>>, left |-> <<>>,
              source |-> <<>>, at |-> 0, name |-> "", content |-> "", replace |-> FALSE]

DriveTypeOK ==
    /\ folders \in Seq(Folder)
    /\ files \in Seq(File)
    /\ requests \in [Requests -> Request]
    /\ homes \subseteq Seq(Names) \X Nat
    /\ raced \subseteq Names

DriveInit ==
    /\ folders = <<>> /\ files = Shelf
    /\ requests = [r \in Requests |-> NoRequest]
    /\ homes = {} /\ raced = {}

Turns(r, request) == requests' = [requests EXCEPT ![r] = request]
Answers(r, how) == Turns(r, [requests[r] EXCEPT !.pc = how])

FoldersNamed_never(name, parent) == {}

\* What a find for a folder or a file may return.
FoldersNamed(name, parent) ==
    {k \in DOMAIN folders : /\ folders[k].name = name /\ folders[k].parent = parent
                            /\ ~folders[k].renamed}
FilesNamed(name, folder) ==
    {k \in DOMAIN files : files[k].name = name /\ files[k].folder = folder}

\* The tools' handlers; their input schema refuses an empty path segment.
Ask(r, request) ==
    Turns(r, IF \A k \in DOMAIN request.path : request.path[k] \in Names
             THEN [request EXCEPT !.pc = "access", !.left = request.path]
             ELSE [request EXCEPT !.pc = "refused", !.path = <<>>])

FirstOf_walks(op) == "walk"

\* A template is read before anything is written.
FirstOf(op) == IF op = "template" THEN "seek" ELSE "walk"

\* The access token, and for SharePoint the site and its drive.
Reach(r) ==
    /\ requests[r].pc = "access"
    /\ Answers(r, FirstOf(requests[r].op))
    /\ UNCHANGED <<folders, files, homes, raced>>

\* resolveAndDownloadFile: each folder of the template's path is looked for, and
\* none is made,
SeekFolder(r) ==
    /\ requests[r].pc = "seek" /\ Len(requests[r].source) > 1
    /\ LET hits == FoldersNamed(Head(requests[r].source), requests[r].at)
       IN  \/ \E k \in hits :
                 Turns(r, [requests[r] EXCEPT !.at = k, !.source = Tail(@)])
           \/ hits = {} /\ Answers(r, "refused")
    /\ UNCHANGED <<folders, files, homes, raced>>

\* then its file in the last: at is the file from here.
SeekFile(r) ==
    /\ requests[r].pc = "seek" /\ Len(requests[r].source) = 1
    /\ LET hits == FilesNamed(Head(requests[r].source), requests[r].at)
       IN  \/ \E k \in hits :
                 Turns(r, [requests[r] EXCEPT !.at = k, !.source = <<>>,
                                              !.pc = "download"])
           \/ hits = {} /\ Answers(r, "refused")
    /\ UNCHANGED <<folders, files, homes, raced>>

\* renderDocxTemplate throws at what is no template.
Rendered(content) == IF content \in Templates THEN {Populated} ELSE {}

\* The template is downloaded and populated, before any folder is made.
Download(r) ==
    /\ requests[r].pc = "download"
    /\ LET result == Rendered(files[requests[r].at].content)
       IN  \/ \E c \in result :
                 Turns(r, [requests[r] EXCEPT !.pc = "walk", !.at = 0, !.content = c])
           \/ result = {} /\ Answers(r, "refused")
    /\ UNCHANGED <<folders, files, homes, raced>>

Enters(r, folder) ==
    Turns(r, [requests[r] EXCEPT !.pc = "walk", !.at = folder, !.left = Tail(@)])

\* ensureFolderPath: each segment is looked for under the one before.
FindFolder(r) ==
    /\ requests[r].pc = "walk" /\ requests[r].left # <<>>
    /\ LET name == Head(requests[r].left)
           hits == FoldersNamed(name, requests[r].at)
       IN  \/ /\ \E k \in hits : Enters(r, k)
              /\ UNCHANGED raced
           \/ /\ hits = {} /\ Answers(r, "mkdir")
              /\ raced' = raced \cup
                   {n \in {name} : \E q \in Requests \ {r} :
                       /\ requests[q].pc = "mkdir" /\ Head(requests[q].left) = name
                       /\ requests[q].at = requests[r].at}
    /\ UNCHANGED <<folders, files, homes>>

MakeFolder(r) ==
    /\ requests[r].pc = "mkdir"
    /\ LET name == Head(requests[r].left)
           taken == FoldersNamed(name, requests[r].at) # {}
       IN  folders' = Append(folders,
               [name |-> name, renamed |-> taken /\ Provider = "sharepoint",
                parent |-> requests[r].at])
    /\ Enters(r, Len(folders) + 1)
    /\ UNCHANGED <<files, homes, raced>>

AfterWalk_neverReplaces(request) ==
    IF request.op = "folder" THEN "saved" ELSE "upload"
AfterWalk(request) ==
    CASE request.op = "folder" -> "saved"
      [] /\ request.op # "folder" /\ request.replace
         /\ Provider = "google-drive" -> "findFile"
      [] OTHER -> "upload"

\* The folder at the end of the path.
ReachFolder(r) ==
    /\ requests[r].pc = "walk" /\ requests[r].left = <<>>
    /\ homes' = homes \cup {<<requests[r].path, requests[r].at>>}
    /\ Answers(r, AfterWalk(requests[r]))
    /\ UNCHANGED <<folders, files, raced>>

\* uploadOrReplaceFile of Google Drive, with replace.
FindFile(r) ==
    /\ requests[r].pc = "findFile"
    /\ LET hits == FilesNamed(requests[r].name, requests[r].at)
       IN  \/ /\ \E k \in hits : Turns(r, [requests[r] EXCEPT !.pc = "patch", !.at = k])
              /\ UNCHANGED raced
           \/ /\ hits = {} /\ Answers(r, "upload")
              /\ raced' = raced \cup
                   {n \in {requests[r].name} : \E q \in Requests \ {r} :
                       /\ requests[q].pc = "upload" /\ requests[q].replace
                       /\ requests[q].name = n /\ requests[q].at = requests[r].at}
    /\ UNCHANGED <<folders, files, homes>>

\* updateFileContent: at is the file here.
UpdateFile(r) ==
    /\ requests[r].pc = "patch"
    /\ files' = [files EXCEPT ![requests[r].at].content = requests[r].content]
    /\ Answers(r, "saved")
    /\ UNCHANGED <<folders, homes, raced>>

\* Google Drive makes a file whatever the folder holds; SharePoint's PUT writes
\* to the path.
Posted(file) == Append(files, file)
PutAtPath(file) ==
    LET same == FilesNamed(file.name, file.folder)
    IN  IF same = {} THEN Append(files, file)
        ELSE [k \in DOMAIN files |-> IF k \in same THEN file ELSE files[k]]

Upload(r) ==
    /\ requests[r].pc = "upload"
    /\ LET file == [name |-> requests[r].name, folder |-> requests[r].at,
                    content |-> requests[r].content]
       IN  files' = IF Provider = "sharepoint" THEN PutAtPath(file) ELSE Posted(file)
    /\ Answers(r, "saved")
    /\ UNCHANGED <<folders, homes, raced>>

\* A request is refused, or its answer is lost: the tool answers with an error.
StoreFails(r) ==
    /\ StoreFaults
    /\ requests[r].pc \notin {"idle", "saved", "refused"}
    /\ Answers(r, "refused")
    /\ UNCHANGED <<folders, files, homes, raced>>

DriveSteps(r) ==
    \/ Reach(r) \/ SeekFolder(r) \/ SeekFile(r) \/ Download(r)
    \/ FindFolder(r) \/ MakeFolder(r) \/ ReachFolder(r) \/ FindFile(r) \/ UpdateFile(r) \/ Upload(r) \/ StoreFails(r)
=============================================================================
