--------------------------- MODULE StagingPipeline ---------------------------
(***************************************************************************)
(* How a file leaves Staging.  FileWatcher lists Staging, leaves out the   *)
(* files that SFTP sessions have open and hands the rest, one at a time,   *)
(* to Overlord; Overlord has ClamAV scan each file and moves it to Clean   *)
(* or Quarantine.  Four goroutines meet on unbuffered channels:            *)
(*                                                                         *)
(*   fw        ScavengeUploadedFiles                                       *)
(*   notifier  notifyOverlordProcessScavengedFiles, started for a batch    *)
(*   scans     ClamAv.ScanFile, one goroutine per file handed over         *)
(*   ol        the select loop of Overlord.Start                           *)
(*                                                                         *)
(* A send and its receive are one step.  The clients of SftpSessions run   *)
(* beside them, and the process may crash between any two steps.           *)
(***************************************************************************)
EXTENDS SftpSessions

CONSTANTS
  Infected,         \* the transfers whose content ClamAV finds a virus in
  EnableVirusScan,  \* config.EnableVirusScan
  ClamdReplies,     \* how clamd may answer in this instance
  IoFails,          \* the file operations of a move that may fail
  MaxCrashes        \* bound on the number of crashes

ASSUME PipelineAssumptions ==
  /\ Infected \subseteq Uploads
  /\ EnableVirusScan \in BOOLEAN
  /\ ClamdReplies \subseteq {"verdict", "ERROR", "unreachable"}
  /\ IoFails \subseteq {"create", "copy", "remove"}
  /\ MaxCrashes \in Nat

VARIABLES
  fw,          \* FileWatcher's loop
  notifier,    \* the goroutine that hands a batch over
  scans,       \* the running ScanFile goroutines
  ol,          \* Overlord's loop
  dest,        \* the Clean and Quarantine directories: content at each path
  alerted,     \* paths reported to the virusFound webhook
  crashes,
  overlapped   \* history: transfers under way at a path FileWatcher was handling

pipelineVars == <<fw, notifier, scans, ol, dest, alerted>>
vars == <<clientVars, pipelineVars, crashes, overlapped>>

Dirs == {"clean", "quarantine"}

\* A ScanFile goroutine, with the result it is about to send on scanEvent.
Scan == [path : Paths, result : {"running", "error", "clean", "virus"}]

\* Overlord's loop: waiting in select, or handling a scan result, with the source
\* file open in the middle of a move.
OverlordState ==
  [pc : {"select"}, path : {None}, dir : {"clean"}, src : {None}]
  \cup [pc : {"open", "webhook", "ack"}, path : Paths, dir : Dirs, src : {None}]
  \cup [pc : {"create", "copy", "remove"}, path : Paths, dir : Dirs, src : Uploads]

TypeOK ==
  /\ SessionsTypeOK
  /\ fw \in [pc : {"walk", "check", "wait"}, files : SUBSET Paths]
  /\ notifier \in [pc : {"idle", "send", "await"}, batch : SUBSET Paths,
                   cur : Paths \cup {None}]
  /\ scans \in SUBSET Scan
  /\ ol \in OverlordState
  /\ dest \in [Dirs -> [Paths -> Content \cup {None}]]
  /\ alerted \in SUBSET Paths
  /\ crashes \in 0..MaxCrashes
  /\ overlapped \in SUBSET Uploads

fwStart == [pc |-> "walk", files |-> {}]
notifierIdle == [pc |-> "idle", batch |-> {}, cur |-> None]
olSelect == [pc |-> "select", path |-> None, dir |-> "clean", src |-> None]

Init ==
  /\ SessionsInit
  /\ fw = fwStart
  /\ notifier = notifierIdle
  /\ scans = {}
  /\ ol = olSelect
  /\ dest = [d \in Dirs |-> [p \in Paths |-> None]]
  /\ alerted = {}
  /\ crashes = 0
  /\ overlapped = {}

-----------------------------------------------------------------------------
(* FileWatcher                                                             *)

\* filepath.Walk over Staging; with no file there the loop starts again.
ScavengeUploadedFiles ==
  LET files == {p \in Paths : staging[p] # None}
  IN /\ fw.pc = "walk"
     /\ fw' = IF files = {} THEN fwStart ELSE [pc |-> "check", files |-> files]
     /\ UNCHANGED <<clientVars, notifier, scans, ol, dest, alerted>>

\* The indices of the servers whose OpenFiles map holds a file named p.
OpenAt(p) ==
  {i \in 1..Len(servers) :
     LET h == handle[servers[i]]
     IN h # None /\ h.state # "opening" /\ h.path = p}

isScavengedFileInOpenFileList(p) == OpenAt(p) # {}

\* Mutant: a file in OpenFiles is never timed out.
NoTimeup(p) == FALSE

\* The file at p has been idle for UploadTimeLimitMin minutes (os.Stat on the
\* path: an error, when it is gone, counts as not timed out).
isSFTPOpenFileTimeup(p) == staging[p] # None /\ staging[p] \in old

\* isSFTPOpenFileTimeup returns the first open file named p: only that one is closed.
ClosedByTimeout(s) ==
  \E p \in fw.files :
    /\ isSFTPOpenFileTimeup(p)
    /\ \E i \in OpenAt(p) : servers[i] = s /\ \A j \in OpenAt(p) : i <= j

checkScavengedFilesUploadState ==
  LET closeds == {p \in fw.files :
                    isScavengedFileInOpenFileList(p) => isSFTPOpenFileTimeup(p)}
  IN /\ fw.pc = "check"
     /\ handle' = [s \in Sessions |-> IF ClosedByTimeout(s) THEN CloseFile(handle[s])
                                                           ELSE handle[s]]
     /\ \/ /\ closeds = {}
           /\ fw' = fwStart
           /\ UNCHANGED notifier
        \/ /\ closeds # {}
           /\ fw' = [pc |-> "wait", files |-> {}]
           /\ notifier' = [pc |-> "send", batch |-> closeds, cur |-> None]
     /\ UNCHANGED <<fsVars, session, servers, scans, ol, dest, alerted>>

\* notifyOverlordProcessScavengedFiles sends a file on fileCreateChangeEvent and
\* Overlord's select receives it and starts ScanFile.
SendFile(p) ==
  /\ notifier.pc = "send" /\ p \in notifier.batch
  /\ ol.pc = "select"
  /\ notifier' = [pc |-> "await", batch |-> notifier.batch \ {p}, cur |-> p]
  /\ scans' = scans \cup {[path |-> p, result |-> "running"]}
  /\ UNCHANGED <<clientVars, fw, ol, dest, alerted>>

\* The batch is done: BatchedScavengedFilesProcessDone.
FinishBatch ==
  /\ notifier.pc = "send" /\ notifier.batch = {}
  /\ fw.pc = "wait"
  /\ notifier' = notifierIdle
  /\ fw' = fwStart
  /\ UNCHANGED <<clientVars, scans, ol, dest, alerted>>

-----------------------------------------------------------------------------
(* ClamAV                                                                  *)

\* clamd (external) on the file at path p; a path that is gone is no finding.
Verdict(p) ==
  IF staging[p] # None /\ data[staging[p]] \in Infected THEN "virus" ELSE "clean"

\* Mutant: a call to clamd that fails counts as a scan without a finding.
FailedScanIsClean(reply, p) ==
  IF reply = "verdict" THEN Verdict(p) ELSE "clean"

\* A call that fails is an error.  A reply is none, whatever its status, and only
\* the status FOUND makes it a virus (convertClamdStatusToLocalEnum).
ScanResult(reply, p) ==
  CASE reply = "unreachable" -> "error"
    [] reply = "ERROR" -> "clean"
    [] reply = "verdict" -> Verdict(p)

ScanFile(r) ==
  /\ r \in scans /\ r.result = "running"
  /\ \E res \in IF EnableVirusScan THEN {ScanResult(reply, r.path) : reply \in ClamdReplies}
                                   ELSE {"clean"} :
       scans' = (scans \ {r}) \cup {[path |-> r.path, result |-> res]}
  /\ UNCHANGED <<clientVars, fw, notifier, ol, dest, alerted>>

-----------------------------------------------------------------------------
(* Overlord                                                                *)

\* Overlord takes on the file of scan r; an error leaves nothing to do but ScanDone.
HandleResult(r) ==
  [pc |-> IF r.result = "error" THEN "ack" ELSE "open", path |-> r.path,
   dir |-> IF r.result = "virus" THEN "quarantine" ELSE "clean", src |-> None]

\* Mutant: the branch for a failed scan breaks out without sending on ScanDone.
ErrorWithoutScanDone(r) ==
  /\ ol.pc = "select"
  /\ r \in scans /\ r.result # "running"
  /\ scans' = scans \ {r}
  /\ ol' = IF r.result = "error" THEN olSelect ELSE HandleResult(r)
  /\ UNCHANGED <<clientVars, fw, notifier, dest, alerted>>

ReceiveScanResult(r) ==
  /\ ol.pc = "select"
  /\ r \in scans /\ r.result # "running"
  /\ scans' = scans \ {r}
  /\ ol' = HandleResult(r)
  /\ UNCHANGED <<clientVars, fw, notifier, dest, alerted>>

\* Mutant: the webhook is not called.
ReturnsWithoutReport == ol' = [ol EXCEPT !.pc = "ack", !.src = None]

\* moveFileByStatus ignores the outcome of the move: an infected file is
\* reported next, for any other the scan is done.
MoveReturns ==
  ol' = [ol EXCEPT !.pc = IF ol.dir = "quarantine" THEN "webhook" ELSE "ack", !.src = None]

\* moveFileBetweenDrives, call by call.
OpenSource ==
  /\ ol.pc = "open"
  /\ IF staging[ol.path] = None
     THEN MoveReturns
     ELSE ol' = [ol EXCEPT !.pc = "create", !.src = staging[ol.path]]
  /\ UNCHANGED <<clientVars, fw, notifier, scans, dest, alerted>>

CreateDest ==
  /\ ol.pc = "create"
  /\ dest' = [dest EXCEPT ![ol.dir][ol.path] = Partial]
  /\ ol' = [ol EXCEPT !.pc = "copy"]
  /\ UNCHANGED <<clientVars, fw, notifier, scans, alerted>>

CopyToDest ==
  /\ ol.pc = "copy"
  /\ dest' = [dest EXCEPT ![ol.dir][ol.path] = data[ol.src]]
  /\ ol' = [ol EXCEPT !.pc = "remove"]
  /\ UNCHANGED <<clientVars, fw, notifier, scans, alerted>>

RemoveSource ==
  /\ ol.pc = "remove"
  /\ staging' = [staging EXCEPT ![ol.path] = None]
  /\ MoveReturns
  /\ UNCHANGED <<data, old, used, latest, sessionVars, fw, notifier, scans, dest, alerted>>

\* Mutant: the error of io.Copy is ignored and the source removed all the same.
RemoveAfterFailedCopy ==
  /\ ol.pc \in IoFails
  /\ IF ol.pc = "copy" THEN ol' = [ol EXCEPT !.pc = "remove"] ELSE MoveReturns
  /\ UNCHANGED <<clientVars, fw, notifier, scans, dest, alerted>>

\* os.Create, io.Copy or os.Remove returns an error, and the move with it.
MoveFails ==
  /\ ol.pc \in IoFails
  /\ MoveReturns
  /\ UNCHANGED <<clientVars, fw, notifier, scans, dest, alerted>>

CallVirusFoundWebhook ==
  /\ ol.pc = "webhook"
  /\ alerted' = alerted \cup {ol.path}
  /\ ol' = [ol EXCEPT !.pc = "ack"]
  /\ UNCHANGED <<clientVars, fw, notifier, scans, dest>>

\* Overlord sends on ScanDone and the notifier goes on to the next file.
ScanDone ==
  /\ ol.pc = "ack" /\ notifier.pc = "await"
  /\ ol' = olSelect
  /\ notifier' = [notifier EXCEPT !.pc = "send", !.cur = None]
  /\ UNCHANGED <<clientVars, fw, scans, dest, alerted>>

-----------------------------------------------------------------------------
\* The process stops and is started again.
Crash ==
  /\ crashes < MaxCrashes
  /\ crashes' = crashes + 1
  /\ SessionsCrash
  /\ fw' = fwStart
  /\ notifier' = notifierIdle
  /\ scans' = {}
  /\ ol' = olSelect
  /\ UNCHANGED <<dest, alerted>>

FileWatcherStep ==
  \/ ScavengeUploadedFiles
  \/ checkScavengedFilesUploadState
  \/ \E p \in Paths : SendFile(p)
  \/ FinishBatch

OverlordStep ==
  \/ \E r \in scans : ScanFile(r) \/ ReceiveScanResult(r)
  \/ OpenSource \/ CreateDest \/ CopyToDest \/ RemoveSource \/ MoveFails
  \/ CallVirusFoundWebhook
  \/ ScanDone

\* The paths FileWatcher has decided to process and has not finished moving.
InFlight ==
  notifier.batch \cup
  {p \in Paths : p = notifier.cur /\ ol.pc \notin {"webhook", "ack"}}

\* Transfers that are open on a file FileWatcher is about to move or is moving.
Overlapping ==
  {u \in Uploads : \E s \in Sessions :
     /\ handle[s] # None /\ handle[s].state # "closed" /\ handle[s].upload = u
     /\ handle[s].file \in {ol.src} \cup {staging[p] : p \in InFlight}}

\* Files that the step puts at a path FileWatcher is handling.
PutInFlight ==
  {u \in Uploads : \E p \in InFlight :
     staging'[p] \notin {None, staging[p]} /\ u = data'[staging'[p]]}

RecordOverlap == overlapped' = overlapped \cup Overlapping' \cup PutInFlight

Client == ClientStep /\ UNCHANGED <<pipelineVars, crashes>> /\ RecordOverlap
FileWatcher == FileWatcherStep /\ UNCHANGED crashes /\ RecordOverlap
Overlord == OverlordStep /\ UNCHANGED crashes /\ RecordOverlap
Restart == Crash /\ RecordOverlap

Next == Client \/ FileWatcher \/ Overlord \/ Restart

Spec == Init /\ [][Next]_vars

\* The goroutines of the process keep running; clamd and the file shares do not
\* fail for ever; a server worker that has opened a file goes on to register it;
\* time passes.  Nothing is assumed of the clients.
Fairness ==
  /\ WF_vars(FileWatcher)
  /\ WF_vars(Overlord)
  /\ SF_vars(Overlord /\ \E r \in scans' : r.result \in {"clean", "virus"})
  /\ SF_vars(Overlord /\ CreateDest)
  /\ SF_vars(Overlord /\ CopyToDest)
  /\ SF_vars(Overlord /\ RemoveSource)
  /\ \A s \in Sessions : WF_vars(Client /\ nextHandle(s))
  /\ \A f \in Uploads : SF_vars(Client /\ Age(f))

FairSpec == Spec /\ Fairness

-----------------------------------------------------------------------------
(* Properties                                                              *)

\* The rendezvous of the four goroutines always match up: a batch is out exactly
\* while FileWatcher waits for it, and the notifier waits for ScanDone exactly
\* while its file is with the one ScanFile goroutine or with Overlord.  So no two
\* files are ever scanned or moved at once, and Overlord's blocking send on
\* ScanDone (overlord.go:74 and :92) always has its receiver.
OneFileInFlight ==
  /\ fw.pc = "wait" <=> notifier.pc # "idle"
  /\ notifier.pc = "await" <=> (scans # {} \/ ol.pc # "select")
  /\ scans # {} => ol.pc = "select"
  /\ \A r1, r2 \in scans : r1 = r2
  /\ \A r \in scans : r.path = notifier.cur
  /\ ol.pc # "select" => ol.path = notifier.cur

Holds(p, u) ==
  \/ staging[p] # None /\ data[staging[p]] = u
  \/ \E d \in Dirs : dest[d][p] = u

\* A file whose transfer is complete is never lost, whatever fails and wherever
\* the process crashes in a scan or a move: it is whole in Staging, Clean or
\* Quarantine, unless its transfer overlapped FileWatcher's handling of its path.
LatestUploadKept ==
  \A p \in Paths : latest[p] # None => Holds(p, latest[p]) \/ latest[p] \in overlapped

\* The same without the exception: what checkScavengedFilesUploadState is there
\* for ("detect and leave uploading files alone", filewatcher.go:70).
NoUploadLost ==
  \A p \in Paths : latest[p] # None => Holds(p, latest[p])

\* The transfer last completed at p did not overlap FileWatcher's handling of p.
Settled(p) == latest[p] # None /\ latest[p] \notin overlapped

Moving(p) == ol.path = p /\ ol.pc \in {"create", "copy", "remove"}

\* A file object is at one path only, and is the file of a transfer that has begun.
OnePathEach ==
  /\ \A p \in Paths : staging[p] # None => staging[p] \in used
  /\ \A p, q \in Paths : staging[p] # None /\ staging[p] = staging[q] => p = q

\* An open transfer whose file is at no path lost it to FileWatcher.
OrphansOverlapped ==
  \A s \in Sessions :
    (/\ handle[s] # None /\ handle[s].upload # None
     /\ handle[s].state # "closed" /\ handle[s].claim = "kept"
     /\ \A p \in Paths : staging[p] # handle[s].file)
    => handle[s].upload \in overlapped

\* The file at p has the content last transferred there; a move that is under way
\* has opened that very file, and has copied it in full before it removes it.
KeptAt(p) ==
  Settled(p) =>
    /\ staging[p] # None => data[staging[p]] = latest[p]
    /\ staging[p] = None => \E d \in Dirs : dest[d][p] = latest[p]
    /\ Moving(p) => ol.src = staging[p]
    /\ Moving(p) /\ ol.pc = "remove" => dest[ol.dir][p] = latest[p]

\* Why LatestUploadKept holds: the four facts together are inductive.
NothingLost ==
  /\ OnePathEach
  /\ Overlapping \subseteq overlapped
  /\ OrphansOverlapped
  /\ \A p \in Paths : KeptAt(p)

\* Content that ClamAV finds a virus in never reaches Clean, unless its transfer
\* overlapped FileWatcher's handling of its path: a verdict is used for the
\* content it was given for, across failed scans, failed moves and crashes.
NoVirusInClean ==
  \A p \in Paths : dest["clean"][p] \in Infected => dest["clean"][p] \in overlapped

\* File f is free of viruses, but for a transfer that overlapped.
ScannedClean(f) == f # None /\ data[f] \in Infected => data[f] \in overlapped

\* Why NoVirusInClean holds: a file scanned and found clean is clean from then
\* until it is copied, or the transfer that changed it is overlapped.
CleanVerdictStands ==
  /\ \A r \in scans : r.result = "clean" => ScannedClean(staging[r.path])
  /\ ol.pc = "open" /\ ol.dir = "clean" => ScannedClean(staging[ol.path])
  /\ ol.pc \in {"create", "copy"} /\ ol.dir = "clean" =>
       ol.src \in used /\ ScannedClean(ol.src)
  /\ NoVirusInClean

\* Files in Clean are virus free as determined by ClamAV (README.md:48).
OnlyVirusFreeInClean ==
  \A p \in Paths : dest["clean"][p] \notin Infected

\* "If disabled, files in Staging will remain and not moved" (ssftp.yaml:2).
NotMovedWhenScanDisabled ==
  ~EnableVirusScan => \A d \in Dirs, p \in Paths : dest[d][p] = None

\* Every batch is finished: ScanDone and BatchedScavengedFilesProcessDone are
\* sent on every path through Overlord's loop, the error paths included.
BatchCompletes == fw.pc = "wait" ~> fw.pc = "walk"

\* No file stays in Staging for ever: not one whose session broke off and left it
\* in OpenFiles, not one that a client keeps open without writing.
StagingDrains == \A p \in Paths : []<>(staging[p] = None)

\* Whatever reaches Quarantine is reported to the webhook.
QuarantineReported == \A p \in Paths : dest["quarantine"][p] # None ~> p \in alerted
=============================================================================
