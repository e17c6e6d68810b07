------------------------ MODULE StagingPipelineProofs ------------------------
(***************************************************************************)
(* Theorems about StagingPipeline, for every set of paths, sessions and    *)
(* transfers, every combination of faults and any number of crashes.       *)
(***************************************************************************)
EXTENDS StagingPipeline, TLAPS

-----------------------------------------------------------------------------
(* Types                                                                   *)

\* Deleting a server from the list leaves a list of servers.
LEMMA RemoveServerType ==
  ASSUME NEW s, servers \in Seq(Sessions)
  PROVE  removeServer(s) \in Seq(Sessions)
<1>1. CASE \E i \in 2..Len(servers) : servers[i] = s
  <2> DEFINE i == CHOOSE i \in 2..Len(servers) : servers[i] = s
  <2>1. i \in 2..Len(servers)
    BY <1>1
  <2> HIDE DEF i
  <2>2. /\ SubSeq(servers, 1, i - 1) \in Seq(Sessions)
        /\ SubSeq(servers, i + 1, Len(servers)) \in Seq(Sessions)
    BY <2>1
  <2>3. SubSeq(servers, 1, i - 1) \o SubSeq(servers, i + 1, Len(servers)) \in Seq(Sessions)
    BY <2>2
  <2> QED
    BY Zenon, <1>1, <2>3 DEF removeServer, i
<1>2. CASE ~ \E i \in 2..Len(servers) : servers[i] = s
  BY <1>2 DEF removeServer
<1> QED
  BY <1>1, <1>2

\* Closing an entry of OpenFiles leaves an entry.
LEMMA CloseFileType ==
  ASSUME NEW h \in Handle \cup {None}
  PROVE  CloseFile(h) \in Handle \cup {None}
BY DEF CloseFile, Handle

\* Dropping the claims on a file leaves entries.
LEMMA AbandonType ==
  ASSUME NEW f, handle \in [Sessions -> Handle \cup {None}]
  PROVE  Abandon(f) \in [Sessions -> Handle \cup {None}]
<1>1. \A h \in Handle : [h EXCEPT !.claim = "dropped"] \in Handle
  BY DEF Handle
<1> QED
  BY <1>1 DEF Abandon

\* A new entry of OpenFiles is an entry.
LEMMA NewHandleType ==
  ASSUME NEW p \in Paths, NEW f \in Uploads, NEW u \in Uploads \cup {None}
  PROVE  NewHandle(p, f, u) \in Handle
BY DEF NewHandle, Handle

\* Every step of a client keeps the types of the clients' variables.
LEMMA ClientStepType ==
  SessionsTypeOK /\ ClientStep => SessionsTypeOK'
<1> SUFFICES ASSUME SessionsTypeOK, ClientStep
             PROVE  SessionsTypeOK'
  OBVIOUS
<1> USE SessionAssumptions DEF SessionsTypeOK, fsVars, sessionVars
<1>1. ASSUME NEW s \in Sessions, Connect(s)
      PROVE  SessionsTypeOK'
  BY <1>1 DEF Connect
<1>2. ASSUME NEW s \in Sessions, NEW eof \in BOOLEAN, Disconnect(s, eof)
      PROVE  SessionsTypeOK'
  <2>1. servers' \in Seq(Sessions)
    BY <1>2, RemoveServerType DEF Disconnect
  <2>2. CloseFile(handle[s]) \in Handle \cup {None}
    BY CloseFileType
  <2>3. handle' \in [Sessions -> Handle \cup {None}]
    BY <1>2, <2>2 DEF Disconnect
  <2> QED
    BY <1>2, <2>1, <2>3 DEF Disconnect
<1>3. ASSUME NEW s \in Sessions, NEW p \in Paths, NEW u \in Uploads, OpenForWrite(s, p, u)
      PROVE  SessionsTypeOK'
  BY <1>3, NewHandleType DEF OpenForWrite, Content
<1>4. ASSUME NEW s \in Sessions, NEW p \in Paths, OpenForRead(s, p)
      PROVE  SessionsTypeOK'
  BY <1>4, NewHandleType DEF OpenForRead
<1>5. ASSUME NEW s \in Sessions, NEW p \in Paths, RemoveFile(s, p)
      PROVE  SessionsTypeOK'
  BY <1>5, AbandonType DEF RemoveFile
<1>6. ASSUME NEW s \in Sessions, NEW p \in Paths, NEW q \in Paths, RenameFile(s, p, q)
      PROVE  SessionsTypeOK'
  BY <1>6, AbandonType, Zenon DEF RenameFile, Completed
<1>7. ASSUME NEW s \in Sessions, nextHandle(s)
      PROVE  SessionsTypeOK'
  BY SMTT(60), <1>7 DEF nextHandle, Handle
<1>8. ASSUME NEW s \in Sessions, Write(s)
      PROVE  SessionsTypeOK'
  <2>1. handle[s] \in Handle /\ handle' = [handle EXCEPT ![s].written = TRUE]
    BY <1>8 DEF Write
  <2>2. [handle[s] EXCEPT !.written = TRUE] \in Handle
    BY <2>1, Zenon DEF Handle
  <2>3. handle' \in [Sessions -> Handle \cup {None}]
    BY <2>1, <2>2, Zenon
  <2>4. handle[s].file \in Uploads /\ handle[s].upload \in Uploads
    BY <1>8, <2>1 DEF Write, Handle
  <2> QED
    BY <1>8, <2>3, <2>4 DEF Write, Content
<1>9. ASSUME NEW s \in Sessions, closeHandle(s)
      PROVE  SessionsTypeOK'
  BY <1>9 DEF closeHandle, Handle
<1>10. ASSUME NEW p \in Paths, NEW u \in Uploads, Deposit(p, u)
       PROVE  SessionsTypeOK'
  BY <1>10, AbandonType DEF Deposit, Content
<1>11. ASSUME NEW f \in Uploads, Age(f)
       PROVE  SessionsTypeOK'
  BY <1>11 DEF Age
<1> HIDE DEF SessionsTypeOK
<1> QED
  BY <1>1, <1>2, <1>3, <1>4, <1>5, <1>6, <1>7, <1>8, <1>9, <1>10, <1>11 DEF ClientStep

\* A crash keeps them too.
LEMMA SessionsCrashType ==
  SessionsTypeOK /\ SessionsCrash => SessionsTypeOK'
BY DEF SessionsTypeOK, SessionsCrash, fsVars

\* Every variable has its type in every reachable state: the type invariant that
\* the runs check, for all values of the constants.
THEOREM TypeCorrect == Spec => []TypeOK
<1> USE SessionAssumptions, PipelineAssumptions
<1>1. Init => TypeOK
  BY DEF Init, TypeOK, SessionsInit, SessionsTypeOK, fwStart, notifierIdle, olSelect,
         OverlordState, Dirs, Content
<1>2. TypeOK /\ [Next]_vars => TypeOK'
  <2> SUFFICES ASSUME TypeOK, [Next]_vars
               PROVE  TypeOK'
    OBVIOUS
  <2>1. SessionsTypeOK
    BY DEF TypeOK
  <2>2. UNCHANGED clientVars => SessionsTypeOK'
    BY <2>1 DEF clientVars, SessionsTypeOK
  <2>3. RecordOverlap => (overlapped \in SUBSET Uploads)'
    BY DEF TypeOK, RecordOverlap, Overlapping, PutInFlight
  <2>4. CASE Client
    <3>1. SessionsTypeOK'
      BY <2>1, <2>4, ClientStepType DEF Client
    <3> QED
      BY <2>3, <2>4, <3>1 DEF Client, TypeOK, pipelineVars
  <2>5. CASE FileWatcher
    <3> USE <2>5 DEF FileWatcher, TypeOK
    <3>1. CASE ScavengeUploadedFiles
      BY <2>2, <2>3, <3>1 DEF ScavengeUploadedFiles, fwStart
    <3>2. CASE checkScavengedFilesUploadState
      <4>1. handle' \in [Sessions -> Handle \cup {None}]
        BY <2>1, <3>2, CloseFileType DEF checkScavengedFilesUploadState, SessionsTypeOK
      <4>2. SessionsTypeOK'
        BY <2>1, <3>2, <4>1 DEF checkScavengedFilesUploadState, SessionsTypeOK, fsVars
      <4> QED
        BY <2>3, <3>2, <4>2 DEF checkScavengedFilesUploadState, fwStart
    <3>3. ASSUME NEW p \in Paths, SendFile(p)
          PROVE  TypeOK'
      BY <2>2, <2>3, <3>3 DEF SendFile, Scan
    <3>4. CASE FinishBatch
      BY <2>2, <2>3, <3>4 DEF FinishBatch, fwStart, notifierIdle
    <3> QED
      BY <3>1, <3>2, <3>3, <3>4 DEF FileWatcherStep
  <2>6. CASE Overlord
    <3> USE <2>6 DEF Overlord, TypeOK
    <3>1. ASSUME NEW r \in scans, ScanFile(r)
          PROVE  TypeOK'
      <4>1. \A reply \in ClamdReplies : ScanResult(reply, r.path) \in {"error", "clean", "virus"}
        BY DEF ScanResult, Verdict
      <4>2. scans' \in SUBSET Scan
        BY <3>1, <4>1 DEF ScanFile, Scan
      <4> QED
        BY <2>2, <2>3, <3>1, <4>2 DEF ScanFile
    <3>2. ASSUME NEW r \in scans, ReceiveScanResult(r)
          PROVE  TypeOK'
      <4>1. HandleResult(r) \in OverlordState
        BY DEF HandleResult, Scan, OverlordState, Dirs
      <4> QED
        BY <2>2, <2>3, <3>2, <4>1 DEF ReceiveScanResult
    <3>3. CASE OpenSource
      <4>1. ol \in [pc : {"open", "webhook", "ack"}, path : Paths, dir : Dirs, src : {None}]
        BY <3>3 DEF OpenSource, OverlordState
      <4>2. CASE staging[ol.path] = None
        <5>1. ol' = [ol EXCEPT !.pc = IF ol.dir = "quarantine" THEN "webhook" ELSE "ack",
                               !.src = None]
          BY <3>3, <4>2 DEF OpenSource, MoveReturns
        <5>2. ol' \in OverlordState
          BY <4>1, <5>1, ZenonT(60) DEF OverlordState
        <5> QED
          BY <2>2, <2>3, <3>3, <5>2 DEF OpenSource
      <4>3. CASE staging[ol.path] # None
        <5>1. staging[ol.path] \in Uploads
          BY <2>1, <4>1, <4>3 DEF SessionsTypeOK
        <5>2. ol' = [ol EXCEPT !.pc = "create", !.src = staging[ol.path]]
          BY <3>3, <4>3 DEF OpenSource
        <5>3. ol' \in OverlordState
          BY <4>1, <5>1, <5>2, Zenon DEF OverlordState
        <5> QED
          BY <2>2, <2>3, <3>3, <5>3 DEF OpenSource
      <4> QED
        BY Zenon, <4>2, <4>3
    <3>4. CASE CreateDest
      BY <2>2, <2>3, <3>4 DEF CreateDest, OverlordState, Content
    <3>5. CASE CopyToDest
      BY <2>2, <2>3, <3>5, ZenonT(60) DEF CopyToDest, OverlordState, SessionsTypeOK
    <3>6. CASE RemoveSource
      <4>1. SessionsTypeOK'
        BY <2>1, <3>6, Zenon DEF RemoveSource, SessionsTypeOK, sessionVars
      <4> QED
        BY <2>3, <3>6, <4>1, ZenonT(60) DEF RemoveSource, MoveReturns, OverlordState, Dirs
    <3>7. CASE MoveFails
      BY <2>2, <2>3, <3>7, ZenonT(60) DEF MoveFails, MoveReturns, OverlordState, Dirs
    <3>8. CASE CallVirusFoundWebhook
      BY <2>2, <2>3, <3>8 DEF CallVirusFoundWebhook, OverlordState
    <3>9. CASE ScanDone
      BY <2>2, <2>3, <3>9, Zenon DEF ScanDone, olSelect, OverlordState
    <3> QED
      BY Zenon, <3>1, <3>2, <3>3, <3>4, <3>5, <3>6, <3>7, <3>8, <3>9 DEF OverlordStep
  <2>7. CASE Restart
    <3>1. SessionsTypeOK'
      BY <2>1, <2>7, SessionsCrashType DEF Restart, Crash
    <3>2. /\ fw' = fwStart /\ notifier' = notifierIdle /\ scans' = {} /\ ol' = olSelect
          /\ dest' = dest /\ alerted' = alerted /\ crashes' \in 0..MaxCrashes
          /\ RecordOverlap
      BY <2>7 DEF Restart, Crash, TypeOK
    <3>3. olSelect \in OverlordState
      BY DEF olSelect, OverlordState, Dirs
    <3> QED
      BY Zenon, <2>3, <3>1, <3>2, <3>3 DEF TypeOK, fwStart, notifierIdle
  <2>8. CASE UNCHANGED vars
    BY <2>2, <2>8 DEF vars, pipelineVars, TypeOK
  <2> QED
    BY <2>4, <2>5, <2>6, <2>7, <2>8 DEF Next
<1> QED
  BY <1>1, <1>2, PTL DEF Spec

-----------------------------------------------------------------------------
(* The handshake of the four goroutines                                    *)

\* OneFileInFlight is inductive, given the types.  Steps of clients leave the four
\* goroutines alone; every other step moves two of them on together or changes
\* nothing that the invariant relates.
LEMMA HandshakeStep ==
  TypeOK /\ OneFileInFlight /\ [Next]_vars => OneFileInFlight'
<1> SUFFICES ASSUME TypeOK, OneFileInFlight, [Next]_vars
             PROVE  OneFileInFlight'
  OBVIOUS
<1> USE DEF TypeOK, OneFileInFlight
<1>1. CASE UNCHANGED <<fw, notifier, scans, ol>>
  BY <1>1
<1>2. CASE ScavengeUploadedFiles
  BY <1>2 DEF ScavengeUploadedFiles, fwStart
<1>3. CASE checkScavengedFilesUploadState
  BY <1>3 DEF checkScavengedFilesUploadState, fwStart
<1>4. ASSUME NEW p \in Paths, SendFile(p)
      PROVE  OneFileInFlight'
  <2>1. scans' = {[path |-> p, result |-> "running"]}
    BY <1>4 DEF SendFile
  <2>2. notifier'.pc = "await" /\ notifier'.cur = p
    BY <1>4 DEF SendFile
  <2>3. scans' # {} /\ (\A r1, r2 \in scans' : r1 = r2) /\ \A r \in scans' : r.path = p
    BY <2>1
  <2>4. fw.pc = "wait" /\ fw' = fw /\ ol.pc = "select" /\ ol' = ol
    BY <1>4 DEF SendFile
  <2> QED
    BY <2>2, <2>3, <2>4
<1>5. CASE FinishBatch
  BY <1>5 DEF FinishBatch, fwStart, notifierIdle
<1>6. ASSUME NEW r \in scans, ScanFile(r)
      PROVE  OneFileInFlight'
  <2>1. PICK res : scans' = (scans \ {r}) \cup {[path |-> r.path, result |-> res]}
    BY <1>6, Zenon DEF ScanFile
  <2>2. scans' = {[path |-> r.path, result |-> res]}
    BY <2>1
  <2>3. r.path = notifier.cur /\ notifier.pc = "await" /\ ol.pc = "select"
    OBVIOUS
  <2>4. scans' # {} /\ (\A r1, r2 \in scans' : r1 = r2) /\ \A r1 \in scans' : r1.path = r.path
    BY <2>2
  <2>5. UNCHANGED <<fw, notifier, ol>>
    BY <1>6 DEF ScanFile
  <2> QED
    BY <2>3, <2>4, <2>5
<1>7. ASSUME NEW r \in scans, ReceiveScanResult(r)
      PROVE  OneFileInFlight'
  <2>1. scans' = {}
    BY <1>7 DEF ReceiveScanResult
  <2>2. ol'.pc # "select" /\ ol'.path = r.path
    BY <1>7 DEF ReceiveScanResult, HandleResult
  <2> QED
    BY <1>7, <2>1, <2>2 DEF ReceiveScanResult
<1>8. ASSUME UNCHANGED <<fw, notifier, scans>>, ol.pc # "select",
             ol'.pc # "select", ol'.path = ol.path
      PROVE  OneFileInFlight'
  BY <1>8
<1>9. CASE OpenSource \/ CreateDest \/ CopyToDest \/ RemoveSource \/ MoveFails
           \/ CallVirusFoundWebhook
  <2>1. ol.pc # "select"
    BY <1>9, PipelineAssumptions
       DEF OpenSource, CreateDest, CopyToDest, RemoveSource, MoveFails, CallVirusFoundWebhook
  <2>2. \E pc \in {"create", "copy", "remove", "webhook", "ack"} :
          ol' = [ol EXCEPT !.pc = pc] \/ \E f : ol' = [ol EXCEPT !.pc = pc, !.src = f]
    BY <1>9, Zenon DEF OpenSource, CreateDest, CopyToDest, RemoveSource, MoveFails,
                CallVirusFoundWebhook, MoveReturns
  <2>3. ol'.pc # "select" /\ ol'.path = ol.path
    BY <2>2, Zenon DEF OverlordState
  <2>4. UNCHANGED <<fw, notifier, scans>>
    BY <1>9 DEF OpenSource, CreateDest, CopyToDest, RemoveSource, MoveFails,
                CallVirusFoundWebhook
  <2> QED
    BY <1>8, <2>1, <2>3, <2>4
<1>10. CASE ScanDone
  BY <1>10 DEF ScanDone, olSelect
<1>11. CASE Crash
  BY Zenon, <1>11 DEF Crash, fwStart, notifierIdle, olSelect
<1> QED
  BY <1>1, <1>2, <1>3, <1>4, <1>5, <1>6, <1>7, <1>9, <1>10, <1>11, Zenon
     DEF Next, Client, FileWatcher, Overlord, Restart, FileWatcherStep, OverlordStep,
         vars, pipelineVars

\* One file at a time is scanned or moved, and Overlord's send on ScanDone always
\* finds the notifier waiting for it.
THEOREM HandshakeCorrect == Spec => []OneFileInFlight
<1>1. Init => OneFileInFlight
  BY DEF Init, OneFileInFlight, fwStart, notifierIdle, olSelect
<1> QED
  BY <1>1, HandshakeStep, TypeCorrect, PTL DEF Spec

-----------------------------------------------------------------------------
(* A completed transfer is lost only if it overlapped FileWatcher's        *)
(* handling of its path: LatestUploadKept, by way of NothingLost.          *)

\* History only grows.
LEMMA OverlappedGrows == [Next]_vars => overlapped \subseteq overlapped'
BY DEF Next, Client, FileWatcher, Overlord, Restart, RecordOverlap, vars

\* What is open on a file in flight is recorded at once.
LEMMA OverlapRecorded ==
  Overlapping \subseteq overlapped /\ [Next]_vars => (Overlapping \subseteq overlapped)'
<1>1. RecordOverlap => (Overlapping \subseteq overlapped)'
  BY DEF RecordOverlap
<1>2. UNCHANGED vars => Overlapping' = Overlapping /\ overlapped' = overlapped
  BY DEF vars, clientVars, pipelineVars, Overlapping, InFlight
<1> QED
  BY <1>1, <1>2 DEF Next, Client, FileWatcher, Overlord, Restart

\* The path of a move that is under way is in flight.
LEMMA MovingInFlight ==
  ASSUME TypeOK, OneFileInFlight, NEW p \in Paths, Moving(p)
  PROVE  p \in InFlight
BY DEF OneFileInFlight, Moving, InFlight

\* An entry is an entry, and names a file object.
LEMMA HandleFields ==
  ASSUME TypeOK, NEW s \in Sessions, handle[s] # None
  PROVE  /\ handle[s] \in Handle
         /\ handle[s].path \in Paths /\ handle[s].file \in Uploads
         /\ handle[s].upload \in Uploads \cup {None}
         /\ handle[s].written \in BOOLEAN
         /\ handle[s].state \in {"opening", "open", "closed"}
<1>1. handle[s] \in Handle
  BY DEF TypeOK, SessionsTypeOK
<1> QED
  BY <1>1 DEF Handle

-----------------------------------------------------------------------------
\* Paths and file objects stay one to one.
LEMMA OnePathStep ==
  TypeOK /\ OnePathEach /\ [Next]_vars => OnePathEach'
<1> SUFFICES ASSUME TypeOK, OnePathEach, [Next]_vars
             PROVE  OnePathEach'
  OBVIOUS
<1> USE SessionAssumptions DEF TypeOK, SessionsTypeOK, OnePathEach
<1>1. CASE UNCHANGED <<staging, used>>
  BY <1>1
<1>2. ASSUME NEW s \in Sessions, NEW p \in Paths, NEW u \in Uploads, OpenForWrite(s, p, u)
      PROVE  OnePathEach'
  BY <1>2 DEF OpenForWrite
<1>3. ASSUME NEW s \in Sessions, NEW p \in Paths, RemoveFile(s, p)
      PROVE  OnePathEach'
  BY <1>3 DEF RemoveFile
<1>4. ASSUME NEW s \in Sessions, NEW p \in Paths, NEW q \in Paths, RenameFile(s, p, q)
      PROVE  OnePathEach'
  BY <1>4, ZenonT(60) DEF RenameFile
<1>5. ASSUME NEW p \in Paths, NEW u \in Uploads, Deposit(p, u)
      PROVE  OnePathEach'
  BY <1>5 DEF Deposit
<1>6. CASE RemoveSource
  BY ZenonT(60), <1>6 DEF RemoveSource
<1>7. CASE ClientStep
  BY ZenonT(60), <1>1, <1>2, <1>3, <1>4, <1>5, <1>7
     DEF ClientStep, Connect, Disconnect, OpenForRead, nextHandle, Write, closeHandle, Age,
         fsVars, sessionVars
<1>8. CASE FileWatcherStep
  BY ZenonT(60), <1>1, <1>8
     DEF FileWatcherStep, ScavengeUploadedFiles, checkScavengedFilesUploadState, SendFile,
         FinishBatch, clientVars, fsVars
<1>9. CASE OverlordStep
  BY Zenon, <1>1, <1>6, <1>9
     DEF OverlordStep, ScanFile, ReceiveScanResult, OpenSource, CreateDest, CopyToDest,
         MoveFails, CallVirusFoundWebhook, ScanDone, clientVars
<1>10. CASE Crash
  BY <1>1, <1>10 DEF Crash, SessionsCrash, fsVars
<1>11. CASE UNCHANGED vars
  BY <1>1, <1>11 DEF vars, clientVars
<1> QED
  BY Zenon, <1>7, <1>8, <1>9, <1>10, <1>11 DEF Next, Client, FileWatcher, Overlord, Restart

-----------------------------------------------------------------------------
\* A transfer whose file is at no path stays recorded: a client that takes the
\* path away abandons the transfer, and when FileWatcher takes it the path is in
\* flight, so that the transfer has been recorded.
LEMMA OrphansStep ==
  TypeOK /\ OneFileInFlight /\ OnePathEach /\ Overlapping \subseteq overlapped
    /\ OrphansOverlapped /\ [Next]_vars => OrphansOverlapped'
<1> SUFFICES ASSUME TypeOK, OneFileInFlight, OnePathEach, Overlapping \subseteq overlapped,
                    OrphansOverlapped, [Next]_vars,
                    NEW t \in Sessions,
                    handle'[t] # None, handle'[t].upload # None, handle'[t].state # "closed",
                    handle'[t].claim = "kept",
                    \A p \in Paths : staging'[p] # handle'[t].file
             PROVE  handle'[t].upload \in overlapped'
  BY DEF OrphansOverlapped
<1>0. overlapped \subseteq overlapped'
  BY OverlappedGrows
<1> USE SessionAssumptions
<1>1. ASSUME handle[t] # None, handle[t].state # "closed", handle[t].claim = "kept",
             handle'[t].upload = handle[t].upload, handle'[t].file = handle[t].file,
             \A p \in Paths : staging[p] # handle[t].file
      PROVE  handle'[t].upload \in overlapped'
  BY Zenon, <1>0, <1>1 DEF OrphansOverlapped
<1>2. CASE handle'[t] = handle[t] /\ staging' = staging
  BY <1>1, <1>2
<1>3. ASSUME NEW s \in Sessions, NEW eof \in BOOLEAN, Disconnect(s, eof)
      PROVE  handle'[t].upload \in overlapped'
  <2>1. t # s
    <3>1. t = s => handle'[t] \in {CloseFile(handle[s]), None}
      BY Zenon, <1>3 DEF Disconnect, TypeOK, SessionsTypeOK
    <3>2. handle[s] # None => CloseFile(handle[s]).state = "closed"
      BY HandleFields DEF CloseFile, Handle
    <3> QED
      BY <3>1, <3>2, Zenon DEF CloseFile
  <2> QED
    BY Zenon, <1>2, <1>3, <2>1 DEF Disconnect, TypeOK, SessionsTypeOK, fsVars
<1>4. ASSUME NEW s \in Sessions, NEW p \in Paths, NEW u \in Uploads, OpenForWrite(s, p, u)
      PROVE  handle'[t].upload \in overlapped'
  <2>1. t # s
    BY ZenonT(60), <1>4 DEF OpenForWrite, NewHandle, TypeOK, SessionsTypeOK
  <2>2. handle'[t] = handle[t]
    BY ZenonT(60), <1>4, <2>1 DEF OpenForWrite, TypeOK, SessionsTypeOK
  <2>3. handle[t].file \in Uploads
    BY Zenon, <2>2, HandleFields
  <2>4. \A q \in Paths : staging[q] # handle[t].file
    BY <1>4, <2>2, <2>3 DEF OpenForWrite, TypeOK, SessionsTypeOK
  <2> QED
    BY Zenon, <1>1, <2>2, <2>4
<1>5. ASSUME NEW s \in Sessions, NEW p \in Paths, OpenForRead(s, p)
      PROVE  handle'[t].upload \in overlapped'
  <2>1. t # s
    BY ZenonT(60), <1>5 DEF OpenForRead, NewHandle, TypeOK, SessionsTypeOK
  <2> QED
    BY Zenon, <1>2, <1>5, <2>1 DEF OpenForRead, TypeOK, SessionsTypeOK, fsVars
<1>6. ASSUME NEW s \in Sessions, nextHandle(s) \/ Write(s)
      PROVE  handle'[t].upload \in overlapped'
  <2>1. /\ handle[t] # None
        /\ handle'[t].upload = handle[t].upload
        /\ handle'[t].file = handle[t].file
        /\ handle[t].state # "closed" /\ handle[t].claim = "kept"
    <3>1. handle[t] # None
      BY <1>6 DEF nextHandle, Write, TypeOK, SessionsTypeOK
    <3>2. handle[t] \in Handle
      BY Zenon, <3>1, HandleFields
    <3>3. \/ handle'[t] = handle[t]
          \/ handle'[t] = [handle[t] EXCEPT !.state = "open"] /\ handle[t].state = "opening"
          \/ handle'[t] = [handle[t] EXCEPT !.written = TRUE]
      <4>1. CASE nextHandle(s)
        BY <4>1 DEF nextHandle, TypeOK, SessionsTypeOK
      <4>2. CASE Write(s)
        <5>1. handle \in [Sessions -> Handle \cup {None}]
          BY Zenon DEF TypeOK, SessionsTypeOK
        <5>2. handle' = [handle EXCEPT ![s].written = TRUE]
          BY <4>2 DEF Write
        <5> QED
          BY <5>1, <5>2, Zenon
      <4> QED
        BY <1>6, <4>1, <4>2
    <3>4. \A h \in Handle :
            LET w == [h EXCEPT !.written = TRUE]
            IN /\ w.upload = h.upload /\ w.file = h.file /\ w.state = h.state
               /\ w.claim = h.claim
      BY Zenon DEF Handle
    <3>5. \A h \in Handle :
            LET w == [h EXCEPT !.state = "open"]
            IN w.upload = h.upload /\ w.file = h.file /\ w.claim = h.claim
      BY DEF Handle
    <3> QED
      BY <3>1, <3>2, <3>3, <3>4, <3>5, ZenonT(60)
  <2>2. staging' = staging
    BY <1>6 DEF nextHandle, Write, fsVars
  <2> QED
    BY Zenon, <1>1, <2>1, <2>2
<1>7. ASSUME NEW s \in Sessions, closeHandle(s)
      PROVE  handle'[t].upload \in overlapped'
  <2>1. t # s
    BY ZenonT(60), <1>7 DEF closeHandle, TypeOK, SessionsTypeOK
  <2> QED
    BY Zenon, <1>2, <1>7, <2>1 DEF closeHandle, TypeOK, SessionsTypeOK
<1>8. ASSUME NEW f, handle' = Abandon(f)
      PROVE  handle[t] # None /\ handle[t].file # f /\ handle'[t] = handle[t]
  <2>1. handle[t] # None
    BY <1>8 DEF Abandon
  <2>2. CASE handle[t].file = f
    <3>1. handle'[t] = [handle[t] EXCEPT !.claim = "dropped"]
      BY <1>8, <2>1, <2>2 DEF Abandon
    <3> QED
      BY <2>1, <3>1, HandleFields DEF Handle
  <2>3. CASE handle[t].file # f
    BY <1>8, <2>1, <2>3 DEF Abandon
  <2> QED
    BY Zenon, <2>2, <2>3
<1>9. ASSUME NEW s \in Sessions, NEW p \in Paths, NEW q \in Paths, RenameFile(s, p, q)
      PROVE  handle'[t].upload \in overlapped'
  <2>1. handle[t] # None /\ handle[t].file # staging[q] /\ handle'[t] = handle[t]
    BY Zenon, <1>8, <1>9 DEF RenameFile
  <2>2. \A r \in Paths : staging[r] # handle[t].file
    BY ZenonT(60), <1>9, <2>1 DEF RenameFile, TypeOK, SessionsTypeOK
  <2> QED
    BY Zenon, <1>1, <2>1, <2>2
<1>10. ASSUME NEW s \in Sessions, NEW p \in Paths, RemoveFile(s, p)
       PROVE  handle'[t].upload \in overlapped'
  <2>1. handle[t] # None /\ handle[t].file # staging[p] /\ handle'[t] = handle[t]
    BY Zenon, <1>8, <1>10 DEF RemoveFile
  <2>2. \A r \in Paths : staging[r] # handle[t].file
    BY ZenonT(60), <1>10, <2>1 DEF RemoveFile, TypeOK, SessionsTypeOK
  <2> QED
    BY ZenonT(60), <1>1, <2>1, <2>2
<1>11. ASSUME NEW p \in Paths, NEW u \in Uploads, Deposit(p, u)
       PROVE  handle'[t].upload \in overlapped'
  <2>1. handle[t] # None /\ handle[t].file # staging[p] /\ handle'[t] = handle[t]
    BY Zenon, <1>8, <1>11 DEF Deposit
  <2>2. \A r \in Paths : staging[r] # handle[t].file
    BY Zenon, <1>11, <2>1 DEF Deposit, TypeOK, SessionsTypeOK
  <2> QED
    BY ZenonT(60), <1>1, <2>1, <2>2
<1>12. CASE ClientStep
  BY ZenonT(60), <1>2, <1>3, <1>4, <1>5, <1>6, <1>7, <1>9, <1>10, <1>11, <1>12
     DEF ClientStep, Connect, Age, fsVars, sessionVars
<1>13. CASE checkScavengedFilesUploadState
  <2>1. handle'[t] \in {handle[t], CloseFile(handle[t])}
    BY ZenonT(60), <1>13 DEF checkScavengedFilesUploadState
  <2>2. handle[t] # None => CloseFile(handle[t]).state = "closed"
    BY HandleFields DEF CloseFile, Handle
  <2>3. handle'[t] = handle[t]
    BY <2>1, <2>2, Zenon DEF CloseFile
  <2> QED
    BY ZenonT(60), <1>2, <1>13, <2>3 DEF checkScavengedFilesUploadState, fsVars
<1>14. CASE RemoveSource
  <2>1. ol.path \in Paths /\ ol.path \in InFlight
    BY Zenon, <1>14, MovingInFlight DEF RemoveSource, Moving, TypeOK, OverlordState
  <2>2. handle'[t] = handle[t]
    BY <1>14 DEF RemoveSource, sessionVars
  <2>3. CASE staging[ol.path] = handle[t].file
    <3>1. handle[t].upload \in Uploads
      BY Zenon, <2>2, HandleFields
    <3>2. handle[t].upload \in Overlapping
      BY Zenon, <2>1, <2>2, <2>3, <3>1 DEF Overlapping
    <3> QED
      BY <1>0, <2>2, <3>2
  <2>4. CASE staging[ol.path] # handle[t].file
    <3>1. \A p \in Paths : staging[p] # handle[t].file
      BY Zenon, <1>14, <2>1, <2>2, <2>4 DEF RemoveSource, TypeOK, SessionsTypeOK
    <3> QED
      BY Zenon, <1>1, <2>2, <3>1
  <2> QED
    BY Zenon, <2>3, <2>4
<1>15. CASE FileWatcherStep
  BY ZenonT(60), <1>2, <1>13, <1>15
     DEF FileWatcherStep, ScavengeUploadedFiles, SendFile, FinishBatch, clientVars
<1>16. CASE OverlordStep
  BY Zenon, <1>2, <1>14, <1>16
     DEF OverlordStep, ScanFile, ReceiveScanResult, OpenSource, CreateDest, CopyToDest,
         MoveFails, CallVirusFoundWebhook, ScanDone, clientVars
<1>17. CASE Crash
  BY <1>17 DEF Crash, SessionsCrash
<1>18. CASE UNCHANGED vars
  BY Zenon, <1>2, <1>18 DEF vars, clientVars
<1> QED
  BY Zenon, <1>12, <1>15, <1>16, <1>17, <1>18 DEF Next, Client, FileWatcher, Overlord, Restart

-----------------------------------------------------------------------------
\* A client keeps what is at a path, or makes itself responsible for it: what it
\* puts at a path in flight is recorded as overlapping.
LEMMA KeptByClients ==
  ASSUME TypeOK, OneFileInFlight, NothingLost, Client, NEW p \in Paths
  PROVE  KeptAt(p)'
<1> SUFFICES ASSUME Settled(p)'
             PROVE  KeptAt(p)'
  BY Zenon DEF KeptAt
<1> USE SessionAssumptions
<1>0. /\ overlapped' = overlapped \cup Overlapping' \cup PutInFlight
      /\ Overlapping \subseteq overlapped
      /\ overlapped \subseteq overlapped'
      /\ UNCHANGED <<ol, dest, notifier>>
  BY DEF Client, RecordOverlap, NothingLost, pipelineVars
<1>1. latest'[p] # None /\ latest'[p] \notin overlapped'
  BY DEF Settled
<1>2. Moving(p)' <=> Moving(p)
  BY <1>0 DEF Moving
<1>3. ASSUME latest'[p] = latest[p], staging'[p] = staging[p],
             staging[p] # None => data'[staging[p]] = data[staging[p]]
      PROVE  KeptAt(p)'
  <2>1. Settled(p) /\ KeptAt(p)
    BY Zenon, <1>0, <1>1, <1>3 DEF Settled, NothingLost
  <2> QED
    BY Zenon, <1>0, <1>2, <1>3, <2>1 DEF KeptAt
<1>4. ASSUME staging'[p] # None, data'[staging'[p]] = latest'[p], ~Moving(p)
      PROVE  KeptAt(p)'
  BY Zenon, <1>2, <1>4 DEF KeptAt
<1>5. Moving(p) => p \in InFlight /\ p \in InFlight'
  BY Zenon, <1>0, MovingInFlight DEF InFlight
<1>6. ASSUME NEW s \in Sessions, NEW q \in Paths, NEW u \in Uploads, OpenForWrite(s, q, u)
      PROVE  KeptAt(p)'
  <2>1. p # q
    BY Zenon, <1>1, <1>6 DEF OpenForWrite, TypeOK, SessionsTypeOK
  <2>2. latest'[p] = latest[p] /\ staging'[p] = staging[p]
    BY Zenon, <1>6, <2>1 DEF OpenForWrite, TypeOK, SessionsTypeOK
  <2>3. staging[p] # None => data'[staging[p]] = data[staging[p]]
    BY <1>6, <2>1 DEF OpenForWrite, TypeOK, SessionsTypeOK, NothingLost, OnePathEach
  <2> QED
    BY Zenon, <1>3, <2>2, <2>3
<1>7. ASSUME NEW s \in Sessions, Write(s)
      PROVE  KeptAt(p)'
  <2>1. staging[p] # handle[s].file /\ latest'[p] = latest[p]
    BY <1>1, <1>7 DEF Write
  <2>2. staging[p] # None => data'[staging[p]] = data[staging[p]]
    BY <1>7, <2>1, HandleFields DEF Write, TypeOK, SessionsTypeOK
  <2> QED
    BY <1>3, <1>7, <2>1, <2>2 DEF Write
<1>8. ASSUME NEW s \in Sessions, closeHandle(s)
      PROVE  KeptAt(p)'
  <2> DEFINE h == handle[s]
  <2>1. /\ h # None /\ h.path \in Paths /\ h.file \in Uploads
        /\ h.upload \in Uploads \cup {None}
    BY ZenonT(60), <1>8, HandleFields DEF closeHandle
  <2>2. UNCHANGED <<staging, data>>
    BY Zenon, <1>8 DEF closeHandle
  <2>3. CASE latest'[p] = latest[p]
    BY <1>3, <2>2, <2>3
  <2>4. CASE latest'[p] # latest[p]
    <3>1. /\ latest'[p] = h.upload /\ h.state = "open" /\ data[h.file] = h.upload
          /\ h.claim = "kept"
          /\ \/ staging[p] = h.file
             \/ \A q \in Paths : staging[q] # h.file
      BY ZenonT(60), <1>8, <2>4 DEF closeHandle
    <3>2. h.upload \in Uploads
      BY ZenonT(60), <2>1, <3>1 DEF TypeOK, SessionsTypeOK, Content
    <3>3. CASE staging[p] = h.file
      <4>1. ~Moving(p)
        <5>1. Moving(p) => h.upload \in Overlapping
          BY ZenonT(60), <1>5, <2>1, <3>1, <3>2, <3>3 DEF Overlapping
        <5> QED
          BY Zenon, <1>0, <1>1, <3>1, <5>1
      <4> QED
        BY ZenonT(60), <1>4, <2>1, <2>2, <3>1, <3>3, <4>1
    <3>4. CASE \A q \in Paths : staging[q] # h.file
      <4>1. h.upload \in overlapped
        BY Zenon, <2>1, <3>1, <3>2, <3>4 DEF NothingLost, OrphansOverlapped
      <4> QED
        BY ZenonT(60), <1>0, <1>1, <3>1, <4>1
    <3> QED
      BY Zenon, <3>1, <3>3, <3>4
  <2> QED
    BY <2>3, <2>4
<1>9. ASSUME NEW s \in Sessions, NEW a \in Paths, NEW b \in Paths, RenameFile(s, a, b)
      PROVE  KeptAt(p)'
  <2>1. p # a
    BY Zenon, <1>1, <1>9 DEF RenameFile, TypeOK, SessionsTypeOK
  <2>2. CASE p # b
    BY Zenon, <1>3, <1>9, <2>1, <2>2 DEF RenameFile, TypeOK, SessionsTypeOK
  <2>3. CASE p = b
    <3>1. staging'[p] = staging[a] /\ latest'[p] = Completed(staging[a]) /\ data' = data
      BY Zenon, <1>9, <2>3 DEF RenameFile, TypeOK, SessionsTypeOK
    <3>2. /\ staging[a] # None /\ staging[a] # staging[p]
          /\ data[staging[a]] = latest'[p] /\ latest'[p] \in Uploads
      BY Zenon, <1>1, <1>9, <2>3, <3>1 DEF RenameFile, Completed, NothingLost, OnePathEach
    <3>3. p \in InFlight => latest'[p] \in PutInFlight
      BY Zenon, <3>1, <3>2 DEF PutInFlight
    <3> QED
      BY ZenonT(60), <1>0, <1>1, <1>4, <1>5, <3>1, <3>2, <3>3
  <2> QED
    BY <2>2, <2>3
<1>10. ASSUME NEW s \in Sessions, NEW q \in Paths, RemoveFile(s, q)
       PROVE  KeptAt(p)'
  <2>1. p # q
    BY <1>1, <1>10 DEF RemoveFile, TypeOK, SessionsTypeOK
  <2> QED
    BY Zenon, <1>3, <1>10, <2>1 DEF RemoveFile, TypeOK, SessionsTypeOK
<1>11. ASSUME NEW q \in Paths, NEW u \in Uploads, Deposit(q, u)
       PROVE  KeptAt(p)'
  <2>1. staging[p] # u
    BY Zenon, <1>11 DEF Deposit, NothingLost, OnePathEach
  <2>2. CASE p # q
    BY Zenon, <1>3, <1>11, <2>1, <2>2 DEF Deposit, TypeOK, SessionsTypeOK
  <2>3. CASE p = q
    <3>1. staging'[p] = u /\ data'[u] = u /\ latest'[p] = u
      BY Zenon, <1>11, <2>3 DEF Deposit, TypeOK, SessionsTypeOK
    <3>2. p \in InFlight => u \in PutInFlight
      BY <2>1, <3>1 DEF PutInFlight
    <3> QED
      BY ZenonT(60), <1>0, <1>1, <1>4, <1>5, <3>1, <3>2
  <2> QED
    BY <2>2, <2>3
<1>12. CASE UNCHANGED <<staging, data, latest>>
  BY Zenon, <1>3, <1>12
<1>13. ClientStep
  BY DEF Client
<1> QED
  BY <1>6, <1>7, <1>8, <1>9, <1>10, <1>11, <1>12, <1>13
     DEF ClientStep, Connect, Disconnect, OpenForRead, nextHandle, Age, fsVars

\* The process keeps what is at a path: it opens the file that is there, copies
\* it in full and only then removes it.
LEMMA KeptByProcess ==
  ASSUME TypeOK, OneFileInFlight, NothingLost, FileWatcher \/ Overlord \/ Restart,
         NEW p \in Paths
  PROVE  KeptAt(p)'
<1> SUFFICES ASSUME Settled(p)'
             PROVE  KeptAt(p)'
  BY Zenon DEF KeptAt
<1> USE SessionAssumptions
<1>1. overlapped \subseteq overlapped' /\ latest' = latest /\ data' = data
  BY Zenon DEF FileWatcher, Overlord, Restart, RecordOverlap, FileWatcherStep, OverlordStep,
         ScavengeUploadedFiles, checkScavengedFilesUploadState, SendFile, FinishBatch,
         ScanFile, ReceiveScanResult, OpenSource, CreateDest, CopyToDest, RemoveSource,
         MoveFails, CallVirusFoundWebhook, ScanDone, Crash, SessionsCrash, clientVars, fsVars
<1>2. Settled(p) /\ KeptAt(p)
  BY <1>1 DEF Settled, NothingLost
<1>3. CASE UNCHANGED <<staging, dest, ol>>
  BY Zenon, <1>1, <1>2, <1>3 DEF KeptAt, Moving
<1>4. CASE UNCHANGED <<staging, dest>> /\ ~Moving(p)'
  BY ZenonT(60), <1>1, <1>2, <1>4 DEF KeptAt
<1>5. MoveReturns => ~Moving(p)'
  <2>1. SUFFICES ASSUME MoveReturns
                 PROVE  ol'.pc \in {"webhook", "ack"}
    BY DEF Moving
  <2>2. ol' = [ol EXCEPT !.pc = IF ol.dir = "quarantine" THEN "webhook" ELSE "ack",
                         !.src = None]
    BY <2>1 DEF MoveReturns
  <2> QED
    BY <2>2 DEF TypeOK, OverlordState
<1>6. ASSUME NEW r \in scans, ReceiveScanResult(r)
      PROVE  KeptAt(p)'
  <2>1. ~Moving(p)'
    BY <1>6 DEF ReceiveScanResult, HandleResult, Moving
  <2> QED
    BY <1>4, <1>6, <2>1 DEF ReceiveScanResult, clientVars
<1>7. CASE OpenSource
  <2>1. CASE staging[ol.path] = None
    BY <1>4, <1>5, <1>7, <2>1 DEF OpenSource, clientVars
  <2>2. CASE staging[ol.path] # None
    <3>1. ol' = [ol EXCEPT !.pc = "create", !.src = staging[ol.path]]
      BY <1>7, <2>2 DEF OpenSource
    <3>2. ol'.pc = "create" /\ ol'.src = staging[ol.path] /\ ol'.path = ol.path
      BY <3>1 DEF TypeOK, OverlordState
    <3> QED
      BY <1>1, <1>2, <1>7, <3>2 DEF KeptAt, Moving, OpenSource, clientVars
  <2> QED
    BY <2>1, <2>2
<1>8. ASSUME CreateDest \/ CopyToDest
      PROVE  /\ ol.path \in Paths /\ ol.dir \in Dirs /\ ol.src \in Uploads
             /\ ol'.path = ol.path /\ ol'.dir = ol.dir /\ ol'.src = ol.src
             /\ Moving(ol.path) /\ UNCHANGED staging
             /\ p # ol.path => \A d \in Dirs : dest'[d][p] = dest[d][p]
  <2>1. /\ ol.pc \in {"create", "copy"}
        /\ \E pc \in {"copy", "remove"} : ol' = [ol EXCEPT !.pc = pc]
    BY <1>8 DEF CreateDest, CopyToDest
  <2>2. /\ ol.path \in Paths /\ ol.dir \in Dirs /\ ol.src \in Uploads
        /\ ol'.path = ol.path /\ ol'.dir = ol.dir /\ ol'.src = ol.src
    BY <2>1 DEF TypeOK, OverlordState
  <2>3. p # ol.path => \A d \in Dirs : dest'[d][p] = dest[d][p]
    BY SMTT(60), <1>8, <2>2 DEF CreateDest, CopyToDest, TypeOK
  <2> QED
    BY <1>8, <2>1, <2>2, <2>3 DEF Moving, CreateDest, CopyToDest, clientVars
<1>9. ASSUME CreateDest \/ CopyToDest, p # ol.path
      PROVE  KeptAt(p)'
  BY ZenonT(60), <1>1, <1>2, <1>8, <1>9 DEF KeptAt, Moving
<1>10. ASSUME CreateDest, p = ol.path
       PROVE  KeptAt(p)'
  <2>1. ol.src = staging[p] /\ staging[p] # None
    BY ZenonT(60), <1>2, <1>8, <1>10 DEF KeptAt
  <2>2. ol'.pc = "copy"
    BY <1>10 DEF CreateDest, TypeOK, OverlordState
  <2> QED
    BY <1>1, <1>2, <1>8, <1>10, <2>1, <2>2, Zenon DEF KeptAt
<1>11. ASSUME CopyToDest, p = ol.path
       PROVE  KeptAt(p)'
  <2>1. ol.src = staging[p] /\ staging[p] # None /\ data[staging[p]] = latest[p]
    BY <1>2, <1>8, <1>11, Zenon DEF KeptAt
  <2>2. dest'[ol.dir][p] = data[ol.src]
    BY <1>8, <1>11 DEF CopyToDest, TypeOK
  <2> QED
    BY ZenonT(60), <1>1, <1>2, <1>8, <1>11, <2>1, <2>2 DEF KeptAt
<1>12. CASE RemoveSource
  <2>1. ol.path \in Paths /\ ol.dir \in Dirs /\ Moving(ol.path) /\ ol.pc = "remove"
    BY Zenon, <1>12 DEF RemoveSource, Moving, TypeOK, OverlordState
  <2>2. dest' = dest /\ ~Moving(p)'
    BY <1>5, <1>12 DEF RemoveSource
  <2>3. CASE p = ol.path
    <3>1. dest[ol.dir][p] = latest[p] /\ staging'[p] = None
      BY ZenonT(60), <1>2, <1>12, <2>1, <2>3 DEF KeptAt, RemoveSource, TypeOK, SessionsTypeOK
    <3> QED
      BY ZenonT(60), <1>1, <2>1, <2>2, <3>1 DEF KeptAt
  <2>4. CASE p # ol.path
    <3>1. staging'[p] = staging[p]
      BY ZenonT(60), <1>12, <2>1, <2>4 DEF RemoveSource, TypeOK, SessionsTypeOK
    <3> QED
      BY <1>1, <1>2, <2>2, <3>1, Zenon DEF KeptAt
  <2> QED
    BY <2>3, <2>4
<1>13. CASE MoveFails
  BY <1>4, <1>5, <1>13 DEF MoveFails, clientVars
<1>14. CASE CallVirusFoundWebhook \/ ScanDone
  <2>1. ol'.pc \in {"ack", "select"}
    BY <1>14 DEF CallVirusFoundWebhook, ScanDone, olSelect, TypeOK, OverlordState
  <2> QED
    BY <1>4, <1>14, <2>1 DEF CallVirusFoundWebhook, ScanDone, Moving, clientVars
<1>15. CASE Crash
  BY Zenon, <1>4, <1>15 DEF Crash, SessionsCrash, olSelect, Moving, fsVars
<1>16. CASE FileWatcherStep
  BY ZenonT(60), <1>3, <1>16
     DEF FileWatcherStep, ScavengeUploadedFiles, checkScavengedFilesUploadState, SendFile,
         FinishBatch, clientVars, fsVars
<1>17. ASSUME NEW r \in scans, ScanFile(r)
       PROVE  KeptAt(p)'
  BY Zenon, <1>3, <1>17 DEF ScanFile, clientVars
<1> QED
  BY <1>6, <1>7, <1>9, <1>10, <1>11, <1>12, <1>13, <1>14, <1>15, <1>16, <1>17
     DEF FileWatcher, Overlord, OverlordStep, Restart

-----------------------------------------------------------------------------
\* The strengthened invariant holds in every reachable state.
THEOREM NothingIsLost == Spec => []NothingLost
<1>1. Init => NothingLost
  <2> SUFFICES ASSUME Init
               PROVE  NothingLost
    OBVIOUS
  <2>1. /\ \A p \in Paths : staging[p] = None /\ latest[p] = None
        /\ \A s \in Sessions : handle[s] = None
    BY DEF Init, SessionsInit
  <2>2. OnePathEach /\ OrphansOverlapped
    BY Zenon, <2>1 DEF OnePathEach, OrphansOverlapped
  <2>3. Overlapping \subseteq overlapped
    BY Zenon, <2>1 DEF Overlapping
  <2>4. \A p \in Paths : KeptAt(p)
    BY Zenon, <2>1 DEF KeptAt, Settled
  <2> QED
    BY <2>2, <2>3, <2>4 DEF NothingLost
<1>2. TypeOK /\ OneFileInFlight /\ NothingLost /\ [Next]_vars => NothingLost'
  <2> SUFFICES ASSUME TypeOK, OneFileInFlight, NothingLost, [Next]_vars
               PROVE  NothingLost'
    OBVIOUS
  <2>1. OnePathEach' /\ (Overlapping \subseteq overlapped)' /\ OrphansOverlapped'
    BY OnePathStep, OverlapRecorded, OrphansStep DEF NothingLost
  <2>2. ASSUME NEW p \in Paths
        PROVE  KeptAt(p)'
    <3>1. CASE UNCHANGED vars
      BY ZenonT(60), <3>1 DEF NothingLost, KeptAt, Settled, Moving, vars, clientVars, pipelineVars
    <3> QED
      BY <3>1, KeptByClients, KeptByProcess DEF Next
  <2> QED
    BY <2>1, <2>2 DEF NothingLost
<1> QED
  BY <1>1, <1>2, TypeCorrect, HandshakeCorrect, PTL DEF Spec

\* A file whose transfer is complete is whole in Staging, Clean or Quarantine
\* through any crash, failed scan and failed move, unless its transfer overlapped
\* FileWatcher's handling of its path.
THEOREM UploadsKept == Spec => []LatestUploadKept
<1>1. NothingLost => LatestUploadKept
  BY ZenonT(60) DEF NothingLost, KeptAt, Settled, LatestUploadKept, Holds
<1> QED
  BY <1>1, NothingIsLost, PTL

-----------------------------------------------------------------------------
(* A verdict of ClamAV is used for the content it was given for:           *)
(* NoVirusInClean, by way of CleanVerdictStands.  It needs scanning to be  *)
(* enabled and clamd not to answer with the status ERROR, which ScanFile   *)
(* takes for a clean scan.                                                 *)

\* A client that changes the content of a file being scanned or moved has its
\* transfer recorded as overlapping.
LEMMA ScannedFileStaysClean ==
  ASSUME TypeOK, NothingLost, Client, NEW f \in used, ScannedClean(f),
         f = ol.src \/ \E p \in InFlight : staging'[p] = f
  PROVE  data'[f] \in Infected => data'[f] \in overlapped'
<1> USE SessionAssumptions, PipelineAssumptions
<1>0. /\ overlapped \subseteq overlapped' /\ Overlapping' \subseteq overlapped'
      /\ UNCHANGED <<ol, notifier>> /\ InFlight' = InFlight
  BY Zenon DEF Client, RecordOverlap, pipelineVars, InFlight
<1>1. f \in Uploads /\ f # None
  BY ZenonT(60) DEF TypeOK, SessionsTypeOK
<1>2. CASE data'[f] = data[f]
  BY ZenonT(60), <1>0, <1>1, <1>2 DEF ScannedClean
<1>3. CASE data'[f] = Partial
  BY ZenonT(60), <1>3
<1>4. ASSUME NEW s \in Sessions, Write(s), data'[f] # data[f]
      PROVE  data'[f] \in overlapped'
  <2>1. /\ handle[s] # None /\ handle[s].upload # None /\ handle[s].state = "open"
        /\ data' = [data EXCEPT ![handle[s].file] = handle[s].upload]
        /\ handle' = [handle EXCEPT ![s].written = TRUE]
    BY <1>4 DEF Write
  <2>2. handle[s] \in Handle /\ handle[s].upload \in Uploads
    BY <2>1, HandleFields
  <2>3. handle[s].file = f /\ data'[f] = handle[s].upload
    BY <1>1, <1>4, <2>1 DEF TypeOK, SessionsTypeOK
  <2>4. handle'[s] = [handle[s] EXCEPT !.written = TRUE]
    <3>1. handle \in [Sessions -> Handle \cup {None}]
      BY ZenonT(60) DEF TypeOK, SessionsTypeOK
    <3> QED
      BY <2>1, <3>1, Zenon
  <2>5. /\ handle'[s].upload = handle[s].upload /\ handle'[s].file = handle[s].file
        /\ handle'[s].state = handle[s].state
    BY <2>2, <2>4, Zenon DEF Handle
  <2>6. handle'[s] # None
    <3>1. handle'[s] \in Handle
      BY <2>2, <2>4, Zenon DEF Handle
    <3> QED
      BY ZenonT(60), <3>1
  <2>7. handle'[s].upload \in Overlapping'
    BY <1>0, <2>1, <2>2, <2>3, <2>5, <2>6 DEF Overlapping
  <2> QED
    BY Zenon, <1>0, <2>3, <2>5, <2>7
<1>5. ASSUME NEW s \in Sessions, NEW p \in Paths, NEW u \in Uploads, OpenForWrite(s, p, u)
      PROVE  data'[f] \in {data[f], Partial}
  BY ZenonT(60), <1>1, <1>5 DEF OpenForWrite, TypeOK, SessionsTypeOK
<1>6. ASSUME NEW p \in Paths, NEW u \in Uploads, Deposit(p, u)
      PROVE  data'[f] = data[f]
  BY ZenonT(60), <1>1, <1>6 DEF Deposit, TypeOK, SessionsTypeOK
<1>7. CASE UNCHANGED data
  BY ZenonT(60), <1>2, <1>7
<1>8. ClientStep
  BY DEF Client
<1> QED
  BY <1>2, <1>3, <1>4, <1>5, <1>6, <1>7, <1>8
     DEF ClientStep, Connect, Disconnect, OpenForRead, RemoveFile, RenameFile, nextHandle,
         closeHandle, Age, fsVars

\* What a client leaves at a path in flight is clean or recorded as overlapping.
LEMMA PathStaysClean ==
  ASSUME TypeOK, NothingLost, Client, NEW p \in InFlight, ScannedClean(staging[p])
  PROVE  ScannedClean(staging[p])'
<1> USE SessionAssumptions, PipelineAssumptions
<1>0. PutInFlight \subseteq overlapped'
  BY DEF Client, RecordOverlap
<1>1. p \in Paths
  BY DEF InFlight, TypeOK
<1>2. CASE staging'[p] = None
  BY Zenon, <1>2 DEF ScannedClean
<1>3. CASE staging'[p] \notin {None, staging[p]}
  <2>1. data'[staging'[p]] \in Infected => data'[staging'[p]] \in PutInFlight
    BY ZenonT(60), <1>3 DEF PutInFlight
  <2> QED
    BY Zenon, <1>0, <2>1 DEF ScannedClean
<1>4. CASE staging'[p] = staging[p] /\ staging[p] # None
  <2>1. staging[p] \in used
    BY Zenon, <1>1, <1>4 DEF NothingLost, OnePathEach
  <2>2. \E q \in InFlight : staging'[q] = staging[p]
    BY Zenon, <1>4
  <2>3. data'[staging[p]] \in Infected => data'[staging[p]] \in overlapped'
    BY Zenon, <2>1, <2>2, ScannedFileStaysClean
  <2> QED
    BY <1>4, <2>3 DEF ScannedClean
<1> QED
  BY ZenonT(60), <1>2, <1>3, <1>4

-----------------------------------------------------------------------------
\* Clients cannot turn a clean verdict into a wrong one.
LEMMA VerdictStandsForClients ==
  ASSUME TypeOK, OneFileInFlight, NothingLost, CleanVerdictStands, Client
  PROVE  CleanVerdictStands'
<1>0. /\ overlapped \subseteq overlapped' /\ used \subseteq used'
      /\ UNCHANGED <<scans, ol, dest, notifier>>
  <2>1. used \subseteq used'
    <3>1. ASSUME NEW s \in Sessions, NEW p \in Paths,
                 \/ \E u \in Uploads : OpenForWrite(s, p, u)
                 \/ OpenForRead(s, p) \/ RemoveFile(s, p)
                 \/ \E q \in Paths : RenameFile(s, p, q)
          PROVE  used \subseteq used'
      BY ZenonT(60), <3>1 DEF OpenForWrite, OpenForRead, RemoveFile, RenameFile, fsVars
    <3>2. ASSUME NEW s \in Sessions,
                 \/ Connect(s) \/ (\E eof \in BOOLEAN : Disconnect(s, eof))
                 \/ nextHandle(s) \/ Write(s) \/ closeHandle(s)
          PROVE  used \subseteq used'
      BY <3>2 DEF Connect, Disconnect, nextHandle, Write, closeHandle, fsVars
    <3>3. ASSUME (\E p \in Paths, u \in Uploads : Deposit(p, u)) \/ \E f \in Uploads : Age(f)
          PROVE  used \subseteq used'
      BY Zenon, <3>3 DEF Deposit, Age, fsVars
    <3> QED
      BY Zenon, <3>1, <3>2, <3>3 DEF Client, ClientStep
  <2> QED
    BY <2>1 DEF Client, RecordOverlap, pipelineVars
<1>1. ASSUME NEW r \in scans, r.result = "clean"
      PROVE  ScannedClean(staging[r.path])'
  <2>1. r.path \in InFlight
    BY Zenon, <1>1 DEF OneFileInFlight, InFlight, TypeOK, Scan
  <2> QED
    BY Zenon, <1>1, <2>1, PathStaysClean DEF CleanVerdictStands
<1>2. ASSUME ol.pc = "open", ol.dir = "clean"
      PROVE  ScannedClean(staging[ol.path])'
  <2>1. ol.path \in InFlight
    BY ZenonT(60), <1>2 DEF OneFileInFlight, InFlight, TypeOK, OverlordState
  <2> QED
    BY ZenonT(60), <1>0, <1>2, <2>1, PathStaysClean DEF CleanVerdictStands
<1>3. ASSUME ol.pc \in {"create", "copy"}, ol.dir = "clean"
      PROVE  ol.src \in used' /\ ScannedClean(ol.src)'
  <2>1. ol.src \in used /\ ScannedClean(ol.src)
    BY ZenonT(60), <1>3 DEF CleanVerdictStands
  <2>2. data'[ol.src] \in Infected => data'[ol.src] \in overlapped'
    BY <2>1, ScannedFileStaysClean
  <2> QED
    BY ZenonT(60), <1>0, <2>1, <2>2 DEF ScannedClean
<1>4. NoVirusInClean'
  BY Zenon, <1>0 DEF CleanVerdictStands, NoVirusInClean
<1> QED
  BY ZenonT(60), <1>0, <1>1, <1>2, <1>3, <1>4 DEF CleanVerdictStands

\* FileWatcher, ClamAv and Overlord carry a clean verdict to the copy it is for.
LEMMA VerdictStandsForProcess ==
  ASSUME EnableVirusScan, "ERROR" \notin ClamdReplies,
         TypeOK, OneFileInFlight, NothingLost, CleanVerdictStands,
         FileWatcher \/ Overlord \/ Restart
  PROVE  CleanVerdictStands'
<1> USE SessionAssumptions, PipelineAssumptions
<1>0. overlapped \subseteq overlapped' /\ used' = used /\ data' = data
  BY Zenon DEF FileWatcher, Overlord, Restart, RecordOverlap, FileWatcherStep, OverlordStep,
         ScavengeUploadedFiles, checkScavengedFilesUploadState, SendFile, FinishBatch,
         ScanFile, ReceiveScanResult, OpenSource, CreateDest, CopyToDest, RemoveSource,
         MoveFails, CallVirusFoundWebhook, ScanDone, Crash, SessionsCrash, clientVars, fsVars
<1>1. \A f : ScannedClean(f) => ScannedClean(f)'
  BY Zenon, <1>0 DEF ScannedClean
<1>2. dest' = dest => NoVirusInClean'
  BY ZenonT(60), <1>0 DEF CleanVerdictStands, NoVirusInClean
<1>3. CASE /\ UNCHANGED <<staging, ol, dest>>
           /\ \A r \in scans' : r.result = "clean" => r \in scans
  BY ZenonT(60), <1>0, <1>1, <1>2, <1>3 DEF CleanVerdictStands
<1>4. CASE /\ UNCHANGED dest /\ scans' = {}
           /\ ol'.pc \notin {"open", "create", "copy"}
  BY ZenonT(60), <1>2, <1>4 DEF CleanVerdictStands
<1>5. ol.pc # "select" => scans = {}
  BY Zenon DEF OneFileInFlight
<1>6. ASSUME NEW r \in scans, ScanFile(r)
      PROVE  CleanVerdictStands'
  <2>1. PICK reply \in ClamdReplies :
          scans' = (scans \ {r}) \cup {[path |-> r.path, result |-> ScanResult(reply, r.path)]}
    BY Zenon, <1>6 DEF ScanFile
  <2>2. scans' = {[path |-> r.path, result |-> ScanResult(reply, r.path)]}
    BY Zenon, <2>1 DEF OneFileInFlight
  <2>3. ScanResult(reply, r.path) = "clean" => Verdict(r.path) = "clean"
    BY DEF ScanResult
  <2>4. Verdict(r.path) = "clean" => ScannedClean(staging[r.path])
    BY DEF Verdict, ScannedClean
  <2>5. \A r1 \in scans' : r1.result = "clean" => ScannedClean(staging[r1.path])
    BY <2>2, <2>3, <2>4
  <2>6. UNCHANGED <<staging, ol, dest>> /\ ol.pc = "select"
    BY Zenon, <1>6 DEF ScanFile, clientVars, OneFileInFlight
  <2> QED
    BY Zenon, <1>1, <1>2, <2>5, <2>6 DEF CleanVerdictStands
<1>7. ASSUME NEW r \in scans, ReceiveScanResult(r)
      PROVE  CleanVerdictStands'
  <2>1. scans' = {} /\ UNCHANGED <<staging, dest>>
    BY ZenonT(60), <1>7 DEF ReceiveScanResult, OneFileInFlight, clientVars
  <2>2. /\ ol'.pc \in {"open", "ack"} /\ ol'.path = r.path
        /\ ol'.pc = "open" /\ ol'.dir = "clean" => r.result = "clean"
    <3>1. r.result \in {"error", "clean", "virus"}
      BY Zenon, <1>7 DEF ReceiveScanResult, TypeOK, Scan
    <3> QED
      BY ZenonT(60), <1>7, <3>1 DEF ReceiveScanResult, HandleResult
  <2> QED
    BY ZenonT(60), <1>1, <1>2, <2>1, <2>2 DEF CleanVerdictStands
<1>8. MoveReturns => ol'.pc \in {"webhook", "ack"}
  <2>1. SUFFICES ASSUME ol' = [ol EXCEPT !.pc = IF ol.dir = "quarantine" THEN "webhook" ELSE "ack",
                                         !.src = None]
                 PROVE  ol'.pc \in {"webhook", "ack"}
    BY DEF MoveReturns
  <2> QED
    BY <2>1 DEF TypeOK, OverlordState
<1>9. CASE OpenSource
  <2>1. CASE staging[ol.path] = None
    BY <1>4, <1>5, <1>8, <1>9, <2>1 DEF OpenSource
  <2>2. CASE staging[ol.path] # None
    <3>1. ol' = [ol EXCEPT !.pc = "create", !.src = staging[ol.path]] /\ ol.pc = "open"
      BY <1>9, <2>2 DEF OpenSource
    <3>2. /\ ol'.pc = "create" /\ ol'.src = staging[ol.path] /\ ol'.dir = ol.dir
          /\ ol.path \in Paths
      BY <3>1 DEF TypeOK, OverlordState
    <3>3. ol'.src \in used' /\ (ol.dir = "clean" => ScannedClean(staging[ol.path]))
      BY <1>0, <2>2, <3>1, <3>2 DEF NothingLost, OnePathEach, CleanVerdictStands
    <3>4. scans' = {} /\ UNCHANGED <<staging, dest>>
      BY <1>5, <1>9 DEF OpenSource, clientVars
    <3> QED
      BY ZenonT(60), <1>1, <1>2, <3>2, <3>3, <3>4 DEF CleanVerdictStands
  <2> QED
    BY Zenon, <2>1, <2>2
<1>10. CASE CreateDest
  <2>1. /\ ol.pc = "create" /\ ol'.pc = "copy" /\ ol'.src = ol.src /\ ol'.dir = ol.dir
        /\ ol.path \in Paths /\ ol.dir \in Dirs
    BY <1>10 DEF CreateDest, TypeOK, OverlordState
  <2>2. scans' = {}
    BY <1>5, <1>10, <2>1 DEF CreateDest
  <2>3. \A p \in Paths : dest'["clean"][p] \in {dest["clean"][p], Partial}
    BY <1>10, <2>1 DEF CreateDest, TypeOK, Dirs
  <2>4. NoVirusInClean'
    BY Zenon, <1>0, <2>3 DEF CleanVerdictStands, NoVirusInClean
  <2> QED
    BY ZenonT(60), <1>0, <1>1, <2>1, <2>2, <2>4 DEF CleanVerdictStands
<1>11. CASE CopyToDest
  <2>1. /\ ol.pc = "copy" /\ ol'.pc = "remove" /\ ol.src # None
        /\ ol.path \in Paths /\ ol.dir \in Dirs
    BY <1>11 DEF CopyToDest, TypeOK, OverlordState
  <2>2. scans' = {}
    BY <1>5, <1>11, <2>1 DEF CopyToDest
  <2>3. \A p \in Paths : \/ dest'["clean"][p] = dest["clean"][p]
                         \/ ol.dir = "clean" /\ dest'["clean"][p] = data[ol.src]
    BY <1>11, <2>1 DEF CopyToDest, TypeOK, Dirs
  <2>4. ol.dir = "clean" => ScannedClean(ol.src)
    BY ZenonT(60), <2>1 DEF CleanVerdictStands
  <2>5. NoVirusInClean'
    BY ZenonT(60), <1>0, <2>1, <2>3, <2>4 DEF CleanVerdictStands, NoVirusInClean, ScannedClean
  <2> QED
    BY ZenonT(60), <2>1, <2>2, <2>5 DEF CleanVerdictStands
<1>12. CASE RemoveSource \/ MoveFails
  <2>1. ol.pc # "select" /\ UNCHANGED <<dest, scans>> /\ MoveReturns
    BY Zenon, <1>12 DEF RemoveSource, MoveFails
  <2> QED
    BY <1>4, <1>5, <1>8, <2>1
<1>13. CASE CallVirusFoundWebhook \/ ScanDone
  <2>1. ol.pc # "select" /\ UNCHANGED <<dest, scans>> /\ ol'.pc \in {"ack", "select"}
    BY <1>13 DEF CallVirusFoundWebhook, ScanDone, olSelect, TypeOK, OverlordState
  <2> QED
    BY <1>4, <1>5, <2>1
<1>14. CASE Crash
  BY Zenon, <1>4, <1>14 DEF Crash, olSelect
<1>15. CASE FileWatcherStep
  <2>1. CASE ScavengeUploadedFiles \/ checkScavengedFilesUploadState \/ FinishBatch
    <3>1. UNCHANGED <<staging, ol, dest, scans>>
      BY ZenonT(60), <2>1 DEF ScavengeUploadedFiles, checkScavengedFilesUploadState, FinishBatch, clientVars,
             fsVars
    <3> QED
      BY <1>3, <3>1
  <2>2. ASSUME NEW p \in Paths, SendFile(p)
        PROVE  CleanVerdictStands'
    <3>1. /\ UNCHANGED <<staging, ol, dest>>
          /\ \A r \in scans' : r.result = "clean" => r \in scans
      BY <2>2 DEF SendFile, clientVars, fsVars
    <3> QED
      BY <1>3, <3>1
  <2> QED
    BY <1>15, <2>1, <2>2 DEF FileWatcherStep
<1> QED
  BY <1>6, <1>7, <1>9, <1>10, <1>11, <1>12, <1>13, <1>14, <1>15
     DEF FileWatcher, Overlord, OverlordStep, Restart

-----------------------------------------------------------------------------
\* The strengthened invariant holds in every reachable state.
THEOREM VerdictsStand ==
  ASSUME EnableVirusScan, "ERROR" \notin ClamdReplies
  PROVE  Spec => []CleanVerdictStands
<1>1. Init => CleanVerdictStands
  <2>1. Init => scans = {} /\ ol.pc = "select"
    BY DEF Init, olSelect
  <2>2. Init => \A p \in Paths : dest["clean"][p] = None
    BY ZenonT(60) DEF Init, Dirs
  <2>3. None \notin Infected
    BY SessionAssumptions, PipelineAssumptions
  <2> QED
    BY Zenon, <2>1, <2>2, <2>3 DEF CleanVerdictStands, NoVirusInClean
<1>2. TypeOK /\ OneFileInFlight /\ NothingLost /\ CleanVerdictStands /\ [Next]_vars
        => CleanVerdictStands'
  <2>1. CleanVerdictStands /\ UNCHANGED vars => CleanVerdictStands'
    BY ZenonT(60) DEF CleanVerdictStands, NoVirusInClean, ScannedClean, vars, clientVars, pipelineVars
  <2> QED
    BY <2>1, VerdictStandsForClients, VerdictStandsForProcess DEF Next
<1> QED
  BY <1>1, <1>2, TypeCorrect, HandshakeCorrect, NothingIsLost, PTL DEF Spec

\* With scanning enabled, and a clamd that answers with a verdict or not at all,
\* content that ClamAV finds a virus in reaches Clean only if its transfer
\* overlapped FileWatcher's handling of its path.
THEOREM NoVirusReachesClean ==
  ASSUME EnableVirusScan, "ERROR" \notin ClamdReplies
  PROVE  Spec => []NoVirusInClean
<1>1. CleanVerdictStands => NoVirusInClean
  BY DEF CleanVerdictStands
<1> QED
  BY <1>1, VerdictsStand, PTL
=============================================================================
