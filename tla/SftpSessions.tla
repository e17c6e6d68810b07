---------------------------- MODULE SftpSessions ----------------------------
(***************************************************************************)
(* The clients' side of the Staging directory: SFTP sessions that open,    *)
(* write, close, rename and remove files in Staging (pkgsftp/server.go),   *)
(* the list of servers and the OpenFiles map of each, which FileWatcher    *)
(* reads (ssftp/sftpservice.go), and the Downloader, which puts a complete *)
(* file into Staging by renaming it (sftpclient/sftpclient.go).            *)
(*                                                                         *)
(* Data is abstracted to what the properties tell apart.  An element of    *)
(* Uploads is one act of transferring a file.  It is also the name of the  *)
(* file object (the inode) that the transfer creates and the name of the   *)
(* content a completed transfer leaves behind; Partial is the content of a *)
(* file whose transfer has begun and is not complete.  A path of Staging   *)
(* refers to a file object, and so does an open handle: a handle survives  *)
(* the removal of its path.                                                *)
(***************************************************************************)
EXTENDS Naturals, Sequences

CONSTANTS
  Paths,      \* names of files below StagingPath, without the ".download" ones
  Sessions,   \* SFTP sessions; each one connects at most once
  Uploads,    \* transfers into Staging, each performed at most once
  None,       \* no file, no handle, no transfer
  Partial,    \* content of a file whose transfer is not complete
  ClientOps   \* the operations on files that clients perform in this instance

AllClientOps == {"upload", "read", "rename", "remove", "deposit"}

Content == Uploads \cup {Partial}

\* An *os.File of OpenFiles.  "opening": os.OpenFile has returned and nextHandle
\* has not yet stored it; "open": stored; "closed": stored, but Close was called.
\* The claim is history: it is dropped when a client removes or replaces the file.
Handle == [path : Paths, file : Uploads, upload : Uploads \cup {None},
           written : BOOLEAN, state : {"opening", "open", "closed"},
           claim : {"kept", "dropped"}]

ASSUME SessionAssumptions ==
  /\ None \notin Uploads /\ Partial \notin Uploads /\ None # Partial
  /\ None \notin Paths /\ None \notin Handle
  /\ ClientOps \subseteq AllClientOps

VARIABLES
  staging,    \* the Staging directory: the file object at each path, or None
  data,       \* content of each file object
  old,        \* file objects last modified UploadTimeLimitMin minutes ago or more
  used,       \* the transfers that have begun
  session,    \* "new", "up", "exited" (its stream ended) or "gone" (any other end)
  handle,     \* the entry of each session's OpenFiles map, or None
  servers,    \* SFTPService.servers
  latest      \* history: the transfer last completed at each path, until a
              \* client begins to overwrite, rename or remove that file

fsVars == <<staging, data, old, used, latest>>
sessionVars == <<session, handle, servers>>
clientVars == <<staging, data, old, used, latest, session, handle, servers>>

SessionsTypeOK ==
  /\ staging \in [Paths -> Uploads \cup {None}]
  /\ data \in [Uploads -> Content]
  /\ old \in SUBSET Uploads
  /\ used \in SUBSET Uploads
  /\ session \in [Sessions -> {"new", "up", "exited", "gone"}]
  /\ handle \in [Sessions -> Handle \cup {None}]
  /\ servers \in Seq(Sessions)
  /\ latest \in [Paths -> Uploads \cup {None}]

SessionsInit ==
  /\ staging = [p \in Paths |-> None]
  /\ data = [u \in Uploads |-> Partial]
  /\ old = {}
  /\ used = {}
  /\ session = [s \in Sessions |-> "new"]
  /\ handle = [s \in Sessions |-> None]
  /\ servers = <<>>
  /\ latest = [p \in Paths |-> None]

-----------------------------------------------------------------------------
(* SFTPService: sessions come and go.                                      *)

Connect(s) ==
  /\ session[s] = "new"
  /\ session' = [session EXCEPT ![s] = "up"]
  /\ servers' = Append(servers, s)
  /\ UNCHANGED <<fsVars, handle>>

\* The loop of removeServer counts down to index 1: the server at index 0 (the
\* head of the sequence) is never removed.
removeServer(s) ==
  IF \E i \in 2..Len(servers) : servers[i] = s
  THEN LET k == CHOOSE i \in 2..Len(servers) : servers[i] = s
       IN  SubSeq(servers, 1, k - 1) \o SubSeq(servers, k + 1, Len(servers))
  ELSE servers

\* Mutant: the entry loses the name of its file.
CloseFileForgets(h) == IF h = None THEN None ELSE [state |-> "closed"]

CloseFile(h) == IF h = None THEN None ELSE [h EXCEPT !.state = "closed"]

\* Serve returns once its workers are done, closing the files left in OpenFiles
\* without deleting them from the map.  After io.EOF the server is removed from
\* the list; after any other error (a reset, the read deadline) it stays there.
\* The map of a server that is on the list no more cannot be seen by anyone.
Disconnect(s, eof) ==
  /\ session[s] = "up"
  /\ handle[s] # None => handle[s].state # "opening"
  /\ session' = [session EXCEPT ![s] = IF eof THEN "exited" ELSE "gone"]
  /\ servers' = IF eof THEN removeServer(s) ELSE servers
  /\ handle' = [handle EXCEPT ![s] = IF \E i \in DOMAIN servers' : servers'[i] = s
                                     THEN CloseFile(@) ELSE None]
  /\ UNCHANGED fsVars

-----------------------------------------------------------------------------
(* Requests on files.                                                      *)

NewHandle(p, f, u) ==
  [path |-> p, file |-> f, upload |-> u, written |-> FALSE, state |-> "opening",
   claim |-> "kept"]

\* The os.OpenFile call of sshFxpOpenPacket with write, create and truncate.
OpenForWrite(s, p, u) ==
  LET f == IF staging[p] = None THEN u ELSE staging[p]
  IN /\ "upload" \in ClientOps
     /\ session[s] = "up" /\ handle[s] = None
     /\ u \notin used
     /\ used' = used \cup {u}
     /\ staging' = [staging EXCEPT ![p] = f]
     /\ data' = [data EXCEPT ![f] = Partial]
     /\ old' = old \ {f}
     /\ handle' = [handle EXCEPT ![s] = NewHandle(p, f, u)]
     /\ latest' = [latest EXCEPT ![p] = None]
     /\ UNCHANGED <<session, servers>>

OpenForRead(s, p) ==
  /\ "read" \in ClientOps
  /\ session[s] = "up" /\ handle[s] = None
  /\ staging[p] # None
  /\ handle' = [handle EXCEPT ![s] = NewHandle(p, staging[p], None)]
  /\ UNCHANGED <<fsVars, session, servers>>

\* Second half of sshFxpOpenPacket.respond: the file enters OpenFiles.
nextHandle(s) ==
  /\ handle[s] # None /\ handle[s].state = "opening"
  /\ handle' = [handle EXCEPT ![s].state = "open"]
  /\ UNCHANGED <<fsVars, session, servers>>

\* The write that completes the transfer; the ones before it leave the content
\* Partial.  A write through a handle that FileWatcher has closed fails.
Write(s) ==
  /\ session[s] = "up"
  /\ handle[s] # None /\ handle[s].state = "open" /\ handle[s].upload # None
  /\ ~handle[s].written
  /\ LET h == handle[s]
     IN /\ data' = [data EXCEPT ![h.file] = h.upload]
        /\ old' = old \ {h.file}
        /\ latest' = [p \in Paths |-> IF staging[p] = h.file THEN None ELSE latest[p]]
  /\ handle' = [handle EXCEPT ![s].written = TRUE]
  /\ UNCHANGED <<staging, used, session, servers>>

\* The client is told OK when the file was still open.
closeHandle(s) ==
  /\ session[s] = "up"
  /\ handle[s] # None /\ handle[s].state # "opening"
  /\ LET h == handle[s]
         Done == /\ h.state = "open" /\ h.written /\ data[h.file] = h.upload
                 /\ h.claim = "kept"
         At(p) == IF \E q \in Paths : staging[q] = h.file
                  THEN staging[p] = h.file
                  ELSE p = h.path
     IN latest' = [p \in Paths |-> IF Done /\ At(p) THEN h.upload ELSE latest[p]]
  /\ handle' = [handle EXCEPT ![s] = None]
  /\ UNCHANGED <<staging, data, old, used, session, servers>>

Completed(f) == IF data[f] \in Uploads THEN data[f] ELSE None

\* Handles on a file whose path a client has removed or given to another file:
\* what is written through them is nobody's upload any more.
Abandon(f) ==
  [s \in Sessions |-> IF handle[s] # None /\ handle[s].file = f
                      THEN [handle[s] EXCEPT !.claim = "dropped"]
                      ELSE handle[s]]

RenameFile(s, p, q) ==
  /\ "rename" \in ClientOps
  /\ session[s] = "up"
  /\ p # q /\ staging[p] # None
  /\ staging' = [staging EXCEPT ![p] = None, ![q] = staging[p]]
  /\ handle' = Abandon(staging[q])
  /\ latest' = [latest EXCEPT ![p] = None, ![q] = Completed(staging[p])]
  /\ UNCHANGED <<data, old, used, session, servers>>

RemoveFile(s, p) ==
  /\ "remove" \in ClientOps
  /\ session[s] = "up"
  /\ staging[p] # None
  /\ staging' = [staging EXCEPT ![p] = None]
  /\ handle' = Abandon(staging[p])
  /\ latest' = [latest EXCEPT ![p] = None]
  /\ UNCHANGED <<data, old, used, session, servers>>

\* unMarkFileInDownloadingState: a downloaded file appears under its final name,
\* in place of a file of that name.
Deposit(p, u) ==
  /\ "deposit" \in ClientOps
  /\ u \notin used
  /\ used' = used \cup {u}
  /\ staging' = [staging EXCEPT ![p] = u]
  /\ data' = [data EXCEPT ![u] = u]
  /\ old' = old \ {u}
  /\ handle' = Abandon(staging[p])
  /\ latest' = [latest EXCEPT ![p] = u]
  /\ UNCHANGED <<session, servers>>

\* UploadTimeLimitMin minutes go by without a write to file f.  It matters only
\* for a file that is at the path of an entry of OpenFiles.
Age(f) ==
  /\ f \notin old
  /\ \E s \in Sessions : handle[s] # None /\ staging[handle[s].path] = f
  /\ old' = old \cup {f}
  /\ UNCHANGED <<staging, data, used, latest, sessionVars>>

ClientStep ==
  \/ \E s \in Sessions :
       \/ Connect(s)
       \/ \E eof \in BOOLEAN : Disconnect(s, eof)
       \/ \E p \in Paths : \/ \E u \in Uploads : OpenForWrite(s, p, u)
                           \/ OpenForRead(s, p)
                           \/ RemoveFile(s, p)
                           \/ \E q \in Paths : RenameFile(s, p, q)
       \/ nextHandle(s) \/ Write(s) \/ closeHandle(s)
  \/ \E p \in Paths, u \in Uploads : Deposit(p, u)
  \/ \E f \in Uploads : Age(f)

\* The process stops: every session and every list in memory is gone.  Files stay.
SessionsCrash ==
  /\ session' = [s \in Sessions |-> IF session[s] = "up" THEN "gone" ELSE session[s]]
  /\ handle' = [s \in Sessions |-> None]
  /\ servers' = <<>>
  /\ UNCHANGED fsVars

\* A client that ended its session is off the list of servers, as its log line
\* ("Removed sftp.Server connection", sftpservice.go:230) says: FileWatcher no
\* longer takes the files it left open for files being uploaded.
ExitedServerUnlisted ==
  \A s \in Sessions : session[s] = "exited" => \A i \in DOMAIN servers : servers[i] # s
=============================================================================
