----------------------------- MODULE Downloader -----------------------------
(***************************************************************************)
(* The Downloaders (sftpclient/sftpclient.go): SFTP clients that fetch the *)
(* files of remote servers into Staging.  A file is fetched under its name *)
(* with ".download" appended, which FileWatcher skips, and is renamed at   *)
(* the end of the round.  All files go into one local directory per        *)
(* Downloader, whatever their remote directory; the validator makes these  *)
(* local directories distinct.                                             *)
(*                                                                         *)
(* The content of a remote file is its version.  Others write and replace  *)
(* remote files as a whole, at any time.  What is renamed is FileWatcher's:*)
(* from there on it is the Deposit of SftpSessions.                        *)
(***************************************************************************)
EXTENDS Sequences, Faults

CONSTANTS
  Downloaders,
  RemoteDirs, Names,   \* directories of a remote server; names of files in them
  MarkedNames,         \* the names that contain ".download" themselves
  MaxWrites            \* bound: files that others write to remote servers

None == <<>>
RemotePaths == RemoteDirs \X Names
Base(p) == p[2]

ASSUME DownloaderAssumptions ==
  MaxWrites \in Nat /\ MarkedNames \subseteq Names

VARIABLES
  overriding,  \* Downloaders with OverrideExistingFile; does not change
  deleting,    \* Downloaders with DeleteRemoteFileAfterDownload; does not change
  writes,      \* number of files others have written to remote servers
  remote,      \* version of the file at each remote path; 0: no file
  version,     \* history: the newest version there has been at each path
  part,        \* the ".download" files: None, or <<path, version>>, 0 for partial content
  dl,          \* the goroutine of each Downloader
  deposited,   \* history: <<downloader, path, version>> renamed to its final name
  deleted,     \* history: what Downloaders have deleted from remote servers
  raced        \* history: versions that replaced a file while it was being fetched

dlOptions == <<overriding, deleting>>
dlRest == <<dlOptions, writes, remote, version, part, deposited, deleted, raced>>
dlVars == <<dl, dlRest>>

\* pc: "off", "walk", "create", "copy", "delete", "return".  dirs and todo: the walker's
\* directories and files to visit; cur and ver: the open remote file and its content;
\* defers: the names to be renamed when the function returns.
Off == [pc |-> "off", dirs |-> {}, todo |-> {}, cur |-> None, ver |-> 0, defers |-> <<>>]

DownloaderInit ==
  /\ overriding \in SUBSET Downloaders /\ deleting \in SUBSET Downloaders
  /\ writes = 0
  /\ remote = [d \in Downloaders |-> [p \in RemotePaths |-> 0]]
  /\ version = [d \in Downloaders |-> [p \in RemotePaths |-> 0]]
  /\ part = [d \in Downloaders |-> [n \in Names |-> None]]
  /\ dl = [d \in Downloaders |-> Off]
  /\ deposited = {} /\ deleted = {} /\ raced = {}

\* Someone puts a new version of a file on the remote server.
RemoteWrite(d, p) ==
  /\ writes < MaxWrites
  /\ writes' = writes + 1
  /\ version' = [version EXCEPT ![d][p] = writes + 1]
  /\ remote' = [remote EXCEPT ![d][p] = writes + 1]
  /\ raced' = IF dl[d].cur = p THEN raced \cup {<<d, p, writes + 1>>} ELSE raced
  /\ UNCHANGED <<dlOptions, part, dl, deposited, deleted, faults>>

Goto(d, pc) == dl' = [dl EXCEPT ![d].pc = pc]

\* An error is returned, after the deferred calls.
Return(d) == dl' = [dl EXCEPT ![d].pc = "return", ![d].cur = None]

NextFile(d) == dl' = [dl EXCEPT ![d].pc = "walk", ![d].cur = None]

\* The beginning of DownloadFilesRecursive: the walker is set up.
StartWalk(d) == dl' = [dl EXCEPT ![d] = [Off EXCEPT !.pc = "walk", !.dirs = RemoteDirs]]

\* The walker reads a directory; an error is logged and the directory left out.
ListDir(d, dir) ==
  /\ dl[d].pc = "walk" /\ dir \in dl[d].dirs
  /\ \/ /\ dl' = [dl EXCEPT ![d].dirs = @ \ {dir},
                            ![d].todo = @ \cup {p \in RemotePaths : p[1] = dir /\ remote[d][p] # 0}]
        /\ UNCHANGED faults
     \/ Fault /\ dl' = [dl EXCEPT ![d].dirs = @ \ {dir}]
  /\ UNCHANGED dlRest

\* Without OverrideExistingFile the first file ends the round.  Otherwise the remote
\* file is opened.
Visit(d, p) ==
  /\ dl[d].pc = "walk" /\ p \in dl[d].todo
  /\ \/ d \notin overriding /\ Return(d) /\ UNCHANGED faults
     \/ d \in overriding /\ Fault /\ Return(d)
     \/ /\ d \in overriding
        /\ dl' = [dl EXCEPT ![d].pc = "create", ![d].todo = @ \ {p}, ![d].cur = p,
                            ![d].ver = remote[d][p]]
        /\ UNCHANGED faults
  /\ UNCHANGED dlRest

\* createLocalFile: a ".download" file of that name is removed first.
createLocalFile(d) ==
  LET p == dl[d].cur
  IN /\ dl[d].pc = "create"
     /\ \/ /\ part' = [part EXCEPT ![d][Base(p)] = <<p, 0>>]
           /\ Goto(d, "copy") /\ UNCHANGED faults
        \/ /\ Fault /\ Return(d)
           /\ \/ UNCHANGED part
              \/ part' = [part EXCEPT ![d][Base(p)] = None]
     /\ UNCHANGED <<dlOptions, writes, remote, version, deposited, deleted, raced>>

\* Mutant: the rename is deferred before the copy.
DeferFirst(d) ==
  LET p == dl[d].cur
  IN /\ dl[d].pc = "copy"
     /\ \/ /\ part' = [part EXCEPT ![d][Base(p)] = <<p, dl[d].ver>>]
           /\ dl' = [dl EXCEPT ![d].defers = Append(@, Base(p)),
                               ![d].pc = IF d \in deleting THEN "delete" ELSE "walk",
                               ![d].cur = IF d \in deleting THEN p ELSE None]
           /\ UNCHANGED faults
        \/ /\ Fault
           /\ dl' = [dl EXCEPT ![d].defers = Append(@, Base(p)), ![d].pc = "return", ![d].cur = None]
           /\ UNCHANGED part
     /\ UNCHANGED <<dlOptions, writes, remote, version, deposited, deleted, raced>>

\* Mutant: an error of io.Copy does not end the round.
CopyErrorIgnored(d) ==
  LET p == dl[d].cur
  IN /\ dl[d].pc = "copy"
     /\ \/ /\ part' = [part EXCEPT ![d][Base(p)] = <<p, dl[d].ver>>] /\ UNCHANGED faults
        \/ Fault /\ UNCHANGED part
     /\ dl' = [dl EXCEPT ![d].defers = Append(@, Base(p)),
                         ![d].pc = IF d \in deleting THEN "delete" ELSE "walk",
                         ![d].cur = IF d \in deleting THEN p ELSE None]
     /\ UNCHANGED <<dlOptions, writes, remote, version, deposited, deleted, raced>>

\* io.Copy, and the deferred rename.  A failed copy leaves a partial ".download" file.
CopyFile(d) ==
  LET p == dl[d].cur
  IN /\ dl[d].pc = "copy"
     /\ \/ /\ part' = [part EXCEPT ![d][Base(p)] = <<p, dl[d].ver>>]
           /\ dl' = [dl EXCEPT ![d].defers = Append(@, Base(p)),
                               ![d].pc = IF d \in deleting THEN "delete" ELSE "walk",
                               ![d].cur = IF d \in deleting THEN p ELSE None]
           /\ UNCHANGED faults
        \/ Fault /\ Return(d) /\ UNCHANGED part
     /\ UNCHANGED <<dlOptions, writes, remote, version, deposited, deleted, raced>>

\* Remove: whatever is at the remote path is deleted.
DeleteRemote(d) ==
  LET p == dl[d].cur
  IN /\ dl[d].pc = "delete"
     /\ \/ /\ remote' = [remote EXCEPT ![d][p] = 0]
           /\ deleted' = deleted \cup {<<d, p, remote[d][p]>>}
           /\ NextFile(d) /\ UNCHANGED faults
        \/ Fault /\ Return(d) /\ UNCHANGED <<remote, deleted>>
     /\ UNCHANGED <<dlOptions, writes, version, part, deposited, raced>>

EndWalk(d) ==
  /\ dl[d].pc = "walk" /\ dl[d].dirs = {} /\ dl[d].todo = {}
  /\ Return(d)
  /\ UNCHANGED <<dlRest, faults>>

\* Mutant: the deferred renames are dropped.
NoRename(d) ==
  /\ dl[d].pc = "return" /\ dl[d].defers # <<>>
  /\ dl' = [dl EXCEPT ![d].defers = <<>>]
  /\ UNCHANGED <<dlRest, faults>>

\* A deferred call, the last one first.  The first ".download" in the path is cut out:
\* for a name that has one of its own the result still ends in ".download".
unMarkFileInDownloadingState(d) ==
  LET n == dl[d].defers[Len(dl[d].defers)]
      f == part[d][n]
  IN /\ dl[d].pc = "return" /\ dl[d].defers # <<>>
     /\ dl' = [dl EXCEPT ![d].defers = SubSeq(@, 1, Len(@) - 1)]
     /\ \/ /\ part' = [part EXCEPT ![d][n] = None]
           /\ deposited' = IF f = None \/ n \in MarkedNames THEN deposited
                           ELSE deposited \cup {<<d, f[1], f[2]>>}
           /\ UNCHANGED faults
        \/ Fault /\ UNCHANGED <<part, deposited>>
     /\ UNCHANGED <<dlOptions, writes, remote, version, deleted, raced>>

DownloadStep(d) ==
  \/ \E dir \in RemoteDirs : ListDir(d, dir)
  \/ \E p \in RemotePaths : Visit(d, p)
  \/ createLocalFile(d) \/ CopyFile(d) \/ DeleteRemote(d) \/ EndWalk(d)
  \/ unMarkFileInDownloadingState(d)

\* The process is lost.  Files stay.
DownloadersCrash ==
  /\ dl' = [d \in Downloaders |-> Off]
  /\ UNCHANGED dlRest

-----------------------------------------------------------------------------
\* What has been deleted from a remote server is in Staging, or complete in its ".download"
\* file (sftpclient.go:125-166), across failures and rounds; except what a later
\* version has replaced and what was put there while the Downloader was fetching the file
\* before it.
DownloadedKept ==
  \A x \in deleted :
    \/ x \in deposited
    \/ part[x[1]][Base(x[2])] = <<x[2], x[3]>>
    \/ x[3] < version[x[1]][x[2]]
    \/ x \in raced

\* FileWatcher only ever sees files that were downloaded completely (the ".download" name
\* at sftpclient.go:133 and the rename at :151).
DepositsWhole == \A x \in deposited : x[3] > 0
=============================================================================
