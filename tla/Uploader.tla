------------------------------ MODULE Uploader ------------------------------
(***************************************************************************)
(* The Uploaders (sftpclient/sftpclient.go): SFTP clients that send the    *)
(* files of Clean to remote servers and then move them to the archive,     *)
(* while FileWatcher goes on moving files into Clean (StagingPipeline has  *)
(* that move in detail).                                                   *)
(*                                                                         *)
(* A member of Moves is one move of a file into Clean.  It also names the  *)
(* file object the move creates and the content it leaves there; Partial   *)
(* is content that is not whole.                                           *)
(***************************************************************************)
EXTENDS Sequences, Faults

CONSTANTS
  Uploaders,
  CleanDirs, CleanNames,  \* directories below Clean; names of files in them
  LocalDirs,              \* the directories each Uploader walks
  OverridingRemote,       \* Uploaders with OverrideRemoteExistingFile
  Moves,                  \* bound: moves into Clean, each performed at most once
  NoFile, Partial

CleanPaths == CleanDirs \X CleanNames
Contents == Moves \cup {Partial}

ASSUME UploaderAssumptions ==
  /\ NoFile \notin Contents /\ NoFile \notin CleanPaths /\ Partial \notin Moves
  /\ LocalDirs \in [Uploaders -> SUBSET CleanDirs]

VARIABLES
  clean,       \* the file object at each path of Clean, or NoFile
  data,        \* content of each file object
  mover,       \* FileWatcher's move in progress, or NoFile
  begun,       \* history: the moves that have begun
  at,          \* history: the path of each move
  settled,     \* history: the moves that have ended well
  replaced,    \* history: what later moves have overwritten in Clean
  overlapped,  \* history: moves that met an Uploader working on their path
  up,          \* the goroutine of each Uploader
  target,      \* the remote directory of each Uploader, by name
  archive,     \* content at each path of the archive, or NoFile
  sent         \* history: <<uploader, content>> copied to the remote server as a whole

upRest == <<clean, data, mover, begun, at, settled, replaced, overlapped,
            target, archive, sent>>
upVars == <<up, upRest>>

\* pc: "off", "start", "next", "create", "copy", "src", "dest", "archive",
\* "remove", "end".  files: what the walk found; path: the file being sent, file: the
\* object opened for sending, src: the one opened for the archive.
OffUp == [pc |-> "off", files |-> {}, path |-> NoFile, file |-> NoFile, src |-> NoFile]

UploaderInit ==
  /\ clean = [p \in CleanPaths |-> NoFile]
  /\ data = [m \in Moves |-> Partial]
  /\ mover = NoFile
  /\ begun = {} /\ settled = {} /\ replaced = {} /\ overlapped = {}
  /\ at \in [Moves -> CleanPaths]
  /\ up = [u \in Uploaders |-> OffUp]
  /\ target = [u \in Uploaders |-> [n \in CleanNames |-> NoFile]]
  /\ archive = [p \in CleanPaths |-> NoFile]
  /\ sent = {}

Working(p) == \E u \in Uploaders : up[u].path = p

-----------------------------------------------------------------------------
(* FileWatcher moves a file into Clean: moveFileBetweenDrives.             *)

\* os.Create truncates a file that is there.
MoveBegins(m) ==
  LET p == at[m]
      f == IF clean[p] = NoFile THEN m ELSE clean[p]
  IN /\ mover = NoFile /\ m \notin begun
     /\ begun' = begun \cup {m}
     /\ clean' = [clean EXCEPT ![p] = f]
     /\ replaced' = IF clean[p] = NoFile THEN replaced ELSE replaced \cup {data[f]}
     /\ data' = [data EXCEPT ![f] = Partial]
     /\ mover' = [move |-> m, file |-> f]
     /\ overlapped' = IF Working(p) THEN overlapped \cup {m} ELSE overlapped
     /\ UNCHANGED <<at, settled, up, target, archive, sent, faults>>

\* io.Copy to the file that was created, at its path or not.
MoveEnds ==
  /\ mover # NoFile
  /\ LET m == mover.move
     IN /\ data' = [data EXCEPT ![mover.file] = m]
        /\ settled' = settled \cup {m}
        /\ overlapped' = IF Working(at[m]) THEN overlapped \cup {m} ELSE overlapped
  /\ mover' = NoFile
  /\ UNCHANGED <<clean, begun, at, replaced, up, target, archive, sent, faults>>

\* The copy fails.  The source stays in Staging and will be moved again.
MoveFails ==
  /\ mover # NoFile /\ Fault
  /\ mover' = NoFile
  /\ UNCHANGED <<clean, data, begun, at, settled, replaced, overlapped, up,
                 target, archive, sent>>

-----------------------------------------------------------------------------
(* UploadFilesRecursive.                                                   *)

PathKept == <<clean, data, mover, begun, at, settled, replaced>>

GotoUp(u, pc) == up' = [up EXCEPT ![u].pc = pc]

\* The next file, after this one has been dealt with or given up.
NextUpload(u) ==
  up' = [up EXCEPT ![u].pc = "next", ![u].path = NoFile, ![u].file = NoFile, ![u].src = NoFile]

StartUpload(u) == up' = [up EXCEPT ![u] = [OffUp EXCEPT !.pc = "start"]]

\* MkdirAll, which may fail, and the walk.
WalkClean(u) ==
  /\ up[u].pc = "start"
  /\ \/ /\ up' = [up EXCEPT ![u].pc = "next",
                           ![u].files = {p \in CleanPaths : p[1] \in LocalDirs[u] /\ clean[p] # NoFile}]
        /\ UNCHANGED faults
     \/ Fault /\ GotoUp(u, "end")
  /\ UNCHANGED <<PathKept, overlapped, target, archive, sent>>

\* os.Open; a file that is gone is passed over.
OpenLocal(u, p) ==
  /\ up[u].pc = "next" /\ p \in up[u].files
  /\ IF clean[p] = NoFile
     THEN up' = [up EXCEPT ![u].files = @ \ {p}] /\ UNCHANGED overlapped
     ELSE /\ up' = [up EXCEPT ![u].pc = "create", ![u].files = @ \ {p}, ![u].path = p,
                              ![u].file = clean[p]]
          /\ overlapped' = IF mover # NoFile /\ at[mover.move] = p
                           THEN overlapped \cup {mover.move} ELSE overlapped
  /\ UNCHANGED <<PathKept, target, archive, sent, faults>>

\* Mutant: OverrideRemoteExistingFile is not looked at.
CreateNever(u) ==
  LET n == up[u].path[2]
      Truncated == target' = [target EXCEPT ![u][n] = Partial]
  IN /\ up[u].pc = "create"
     /\ \/ target[u][n] # NoFile /\ NextUpload(u) /\ UNCHANGED <<target, faults>>
        \/ /\ target[u][n] = NoFile
           /\ Truncated /\ GotoUp(u, "copy") /\ UNCHANGED faults
     /\ UNCHANGED <<PathKept, overlapped, archive, sent>>

\* isRemoteFileExist, which takes a failing Stat for "not there"; then Create and OpenFile,
\* both of which truncate.  Only this Uploader looks at its remote directory.
CreateRemote(u) ==
  LET n == up[u].path[2]
      Truncated == target' = [target EXCEPT ![u][n] = Partial]
  IN /\ up[u].pc = "create"
     /\ \/ /\ target[u][n] # NoFile /\ u \notin OverridingRemote
           /\ NextUpload(u) /\ UNCHANGED <<target, faults>>
        \/ /\ target[u][n] = NoFile \/ u \in OverridingRemote
           /\ Truncated /\ GotoUp(u, "copy") /\ UNCHANGED faults
        \/ Fault /\ Truncated /\ GotoUp(u, "copy")
        \/ Fault /\ (Truncated \/ UNCHANGED target) /\ NextUpload(u)
     /\ UNCHANGED <<PathKept, overlapped, archive, sent>>

\* Mutant: the error of io.Copy is ignored.
CopyUnchecked(u) ==
  /\ up[u].pc = "copy"
  /\ \/ /\ target' = [target EXCEPT ![u][up[u].path[2]] = data[up[u].file]]
        /\ sent' = sent \cup {<<u, data[up[u].file]>>}
        /\ GotoUp(u, "src") /\ UNCHANGED faults
     \/ Fault /\ GotoUp(u, "src") /\ UNCHANGED <<target, sent>>
  /\ UNCHANGED <<PathKept, overlapped, archive>>

\* io.Copy to the remote file.
CopyToRemote(u) ==
  /\ up[u].pc = "copy"
  /\ \/ /\ target' = [target EXCEPT ![u][up[u].path[2]] = data[up[u].file]]
        /\ sent' = sent \cup {<<u, data[up[u].file]>>}
        /\ GotoUp(u, "src") /\ UNCHANGED faults
     \/ Fault /\ NextUpload(u) /\ UNCHANGED <<target, sent>>
  /\ UNCHANGED <<PathKept, overlapped, archive>>

\* moveUploadedFileFromCleanToArchive: the file is opened again.  If it is gone another
\* goroutine has moved it.
OpenForArchive(u) ==
  /\ up[u].pc = "src"
  /\ \/ clean[up[u].path] = NoFile /\ NextUpload(u) /\ UNCHANGED faults
     \/ /\ clean[up[u].path] # NoFile
        /\ up' = [up EXCEPT ![u].pc = "dest", ![u].src = clean[up[u].path]]
        /\ UNCHANGED faults
     \/ Fault /\ NextUpload(u)
  /\ UNCHANGED <<PathKept, overlapped, target, archive, sent>>

CreateArchive(u) ==
  /\ up[u].pc = "dest"
  /\ \/ /\ archive' = [archive EXCEPT ![up[u].path] = Partial]
        /\ GotoUp(u, "archive") /\ UNCHANGED faults
     \/ Fault /\ NextUpload(u) /\ UNCHANGED archive
  /\ UNCHANGED <<PathKept, overlapped, target, sent>>

CopyToArchive(u) ==
  /\ up[u].pc = "archive"
  /\ \/ /\ archive' = [archive EXCEPT ![up[u].path] = data[up[u].src]]
        /\ GotoUp(u, "remove") /\ UNCHANGED faults
     \/ Fault /\ NextUpload(u) /\ UNCHANGED archive
  /\ UNCHANGED <<PathKept, overlapped, target, sent>>

\* os.Remove removes whatever is at the path, if anything.
RemoveFromClean(u) ==
  /\ up[u].pc = "remove"
  /\ \/ clean' = [clean EXCEPT ![up[u].path] = NoFile] /\ UNCHANGED faults
     \/ Fault /\ UNCHANGED clean
  /\ NextUpload(u)
  /\ UNCHANGED <<data, mover, begun, at, settled, replaced, overlapped,
                 target, archive, sent>>

EndUpload(u) ==
  /\ up[u].pc = "next" /\ up[u].files = {}
  /\ GotoUp(u, "end")
  /\ UNCHANGED <<PathKept, overlapped, target, archive, sent, faults>>

UploadStep(u) ==
  \/ WalkClean(u) \/ (\E p \in CleanPaths : OpenLocal(u, p)) \/ CreateRemote(u)
  \/ CopyToRemote(u) \/ OpenForArchive(u) \/ CreateArchive(u)
  \/ CopyToArchive(u) \/ RemoveFromClean(u) \/ EndUpload(u)

UploadersCrash ==
  /\ up' = [u \in Uploaders |-> OffUp]
  /\ mover' = NoFile
  /\ UNCHANGED <<clean, data, begun, at, settled, replaced, overlapped,
                 target, archive, sent>>

-----------------------------------------------------------------------------
\* A file that FileWatcher has moved into Clean is still there, or an Uploader has sent the
\* whole of it (sftpclient.go:233-276), with several Uploaders on one directory, failures and
\* crashes; except what a later move has overwritten and what was moved in while an Uploader
\* was working on the path.
SentBeforeGone ==
  \A m \in settled :
    \/ clean[at[m]] # NoFile /\ data[clean[at[m]]] = m
    \/ \E u \in Uploaders : <<u, m>> \in sent
    \/ m \in replaced \/ m \in overlapped

\* What is whole in the archive has been sent (sftpclient.go:271 follows :265), with the same
\* exception.
ArchivedWasSent ==
  \A p \in CleanPaths :
    archive[p] \in Moves \ overlapped => \E u \in Uploaders : <<u, archive[p]>> \in sent
=============================================================================
