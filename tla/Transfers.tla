----------------------------- MODULE Transfers ------------------------------
(***************************************************************************)
(* The Downloaders and Uploaders as Overlord runs them                     *)
(* (ssftp/overlord.go): two loops that start a goroutine per client, wait  *)
(* for all of them with a wait group, sleep and begin again.  wg.Add       *)
(* follows the go statement.  The process may be lost at any time and is   *)
(* started again with the files as they are.                               *)
(***************************************************************************)
EXTENDS Integers, FiniteSets, Downloader, Uploader

CONSTANT Enabled   \* the sets of loops an instance enables: subsets of {"down", "up"}

Loops == {"down", "up"}

ASSUME TransfersAssumptions ==
  /\ Downloaders \cap Uploaders = {}
  /\ Enabled \subseteq SUBSET Loops
  /\ IsFiniteSet(Downloaders) /\ IsFiniteSet(Uploaders)

VARIABLES
  on,      \* the loops that EnableSftpClientDownloader and -Uploader enable
  loop,    \* "idle", "connect" (the next client), "add" (wg.Add is due)
  todo,    \* clients the round has not come to
  wg       \* the wait groups

loopVars == <<on, loop, todo, wg>>
vars == <<dlVars, upVars, loopVars, faults>>

Clients(s) == IF s = "down" THEN Downloaders ELSE Uploaders
Loop(c) == IF c \in Downloaders THEN "down" ELSE "up"
Running(c) == IF c \in Downloaders THEN dl[c].pc # "off" ELSE up[c].pc # "off"

Init ==
  /\ on \in Enabled
  /\ DownloaderInit /\ UploaderInit
  /\ "down" \notin on => dlOptions = <<{}, {}>>
  /\ loop = [s \in Loops |-> "idle"] /\ todo = [s \in Loops |-> {}]
  /\ wg = [s \in Loops |-> 0]
  /\ faults = 0

BeginRound(s) ==
  /\ s \in on /\ loop[s] = "idle"
  /\ loop' = [loop EXCEPT ![s] = "connect"]
  /\ todo' = [todo EXCEPT ![s] = Clients(s)]
  /\ UNCHANGED <<dlVars, upVars, on, wg, faults>>

\* Connect fails: the client has to wait for the next round.
ConnectFails(c) ==
  LET s == Loop(c)
  IN /\ loop[s] = "connect" /\ c \in todo[s] /\ Fault
     /\ todo' = [todo EXCEPT ![s] = @ \ {c}]
     /\ UNCHANGED <<dlVars, upVars, on, loop, wg>>

\* Connect replaces the client's connection, and its goroutine is started.
Go(c) ==
  LET s == Loop(c)
  IN /\ loop[s] = "connect" /\ c \in todo[s]
     /\ todo' = [todo EXCEPT ![s] = @ \ {c}]
     /\ loop' = [loop EXCEPT ![s] = "add"]
     /\ IF s = "down" THEN StartWalk(c) /\ UNCHANGED up ELSE StartUpload(c) /\ UNCHANGED dl
     /\ UNCHANGED <<dlRest, upRest, on, wg, faults>>

Add(s) ==
  /\ loop[s] = "add"
  /\ wg' = [wg EXCEPT ![s] = @ + 1]
  /\ loop' = [loop EXCEPT ![s] = "connect"]
  /\ UNCHANGED <<dlVars, upVars, on, todo, faults>>

\* Mutant: the loop does not wait for its clients.
WaitNot(s) ==
  /\ loop[s] = "connect" /\ todo[s] = {}
  /\ loop' = [loop EXCEPT ![s] = "idle"]
  /\ UNCHANGED <<dlVars, upVars, on, todo, wg, faults>>

\* wg.Wait, and the sleep of five seconds.
Wait(s) ==
  /\ loop[s] = "connect" /\ todo[s] = {} /\ wg[s] = 0
  /\ loop' = [loop EXCEPT ![s] = "idle"]
  /\ UNCHANGED <<dlVars, upVars, on, todo, wg, faults>>

Lost ==
  /\ DownloadersCrash /\ UploadersCrash
  /\ loop' = [s \in Loops |-> "idle"] /\ todo' = [s \in Loops |-> {}]
  /\ wg' = [s \in Loops |-> 0]
  /\ UNCHANGED on

Finished(c) ==
  IF c \in Downloaders THEN dl[c].pc = "return" /\ dl[c].defers = <<>> ELSE up[c].pc = "end"

\* Mutant: the counter becomes negative, and nobody notices.
DoneUnchecked(c) ==
  /\ Finished(c)
  /\ wg' = [wg EXCEPT ![Loop(c)] = @ - 1]
  /\ IF c \in Downloaders
     THEN dl' = [dl EXCEPT ![c] = Off] /\ UNCHANGED up
     ELSE up' = [up EXCEPT ![c] = OffUp] /\ UNCHANGED dl
  /\ UNCHANGED <<dlRest, upRest, on, loop, todo, faults>>

\* Mutant: wg.Done is forgotten.
DoneForgotten(c) ==
  /\ Finished(c)
  /\ IF c \in Downloaders
     THEN dl' = [dl EXCEPT ![c] = Off] /\ UNCHANGED up
     ELSE up' = [up EXCEPT ![c] = OffUp] /\ UNCHANGED dl
  /\ UNCHANGED <<dlRest, upRest, loopVars, faults>>

\* The client's function has returned: wg.Done.  A counter that has not been incremented
\* yet would become negative, which is a panic.
Done(c) ==
  /\ Finished(c)
  /\ IF wg[Loop(c)] = 0
     THEN Fault /\ Lost
     ELSE /\ wg' = [wg EXCEPT ![Loop(c)] = @ - 1]
          /\ IF c \in Downloaders
             THEN dl' = [dl EXCEPT ![c] = Off] /\ UNCHANGED up
             ELSE up' = [up EXCEPT ![c] = OffUp] /\ UNCHANGED dl
          /\ UNCHANGED <<dlRest, upRest, on, loop, todo, faults>>

Crash == Fault /\ Lost

LoopStep(s) ==
  \/ BeginRound(s) \/ Add(s) \/ Wait(s)
  \/ \E c \in Clients(s) : ConnectFails(c) \/ Go(c)

Downloading(d) == (DownloadStep(d) /\ UNCHANGED <<upVars, loopVars>>) \/ Done(d)
Uploading(u) == (UploadStep(u) /\ UNCHANGED <<dlVars, loopVars>>) \/ Done(u)
Moving == (MoveEnds \/ MoveFails) /\ UNCHANGED <<dlVars, loopVars>>

\* Others write to remote servers, and FileWatcher begins to move files into Clean.
Environment ==
  \/ /\ "down" \in on
     /\ \E d \in Downloaders, p \in RemotePaths : RemoteWrite(d, p)
     /\ UNCHANGED <<upVars, loopVars>>
  \/ /\ "up" \in on
     /\ \E m \in Moves : MoveBegins(m)
     /\ UNCHANGED <<dlVars, loopVars>>

Next ==
  \/ Environment \/ Moving \/ Crash
  \/ \E s \in Loops : LoopStep(s)
  \/ \E d \in Downloaders : Downloading(d)
  \/ \E u \in Uploaders : Uploading(u)

Spec == Init /\ [][Next]_vars

\* The goroutines of a loop and of its clients keep running; nothing is assumed about the
\* order in which they do.
LoopRuns(s) ==
  \/ LoopStep(s)
  \/ s = "down" /\ \E d \in Downloaders : Downloading(d)
  \/ s = "up" /\ \E u \in Uploaders : Uploading(u)

FairSpec == Spec /\ \A s \in Loops : WF_vars(LoopRuns(s))

-----------------------------------------------------------------------------
TypeOK ==
  /\ on \subseteq Loops /\ faults \in 0..MaxFaults
  /\ loop \in [Loops -> {"idle", "connect", "add"}]
  /\ todo["down"] \subseteq Downloaders /\ todo["up"] \subseteq Uploaders
  /\ wg \in [Loops -> Nat]
  /\ remote \in [Downloaders -> [RemotePaths -> 0..MaxWrites]]
  /\ \A d \in Downloaders : \A n \in Names :
       part[d][n] = None \/ part[d][n] \in RemotePaths \X (0..MaxWrites)
  /\ \A d \in Downloaders :
       /\ dl[d].pc \in {"off", "walk", "create", "copy", "delete", "return"}
       /\ dl[d].dirs \subseteq RemoteDirs /\ dl[d].todo \subseteq RemotePaths
       /\ dl[d].cur \in RemotePaths \cup {None} /\ dl[d].ver \in 0..MaxWrites
       /\ dl[d].defers \in Seq(Names)
  /\ clean \in [CleanPaths -> Moves \cup {NoFile}] /\ data \in [Moves -> Contents]
  /\ archive \in [CleanPaths -> Contents \cup {NoFile}]
  /\ up \in [Uploaders -> [pc : {"off", "start", "next", "create", "copy", "src",
                                 "dest", "archive", "remove", "end"},
                           files : SUBSET CleanPaths, path : CleanPaths \cup {NoFile},
                           file : Moves \cup {NoFile}, src : Moves \cup {NoFile}]]

\* A client's connection is never replaced while its goroutine is using it: a round begins
\* (overlord.go:186, :239) only when every goroutine of the last one has returned, although
\* wg.Add follows the go statement.
RoundsDisjoint ==
  \A s \in Loops : \A c \in Clients(s) :
    Running(c) => c \notin todo[s] /\ loop[s] # "idle"

\* A round of either loop comes to its end (overlord.go:196, :250): no goroutine keeps the wait
\* group from reaching zero.
RoundsEnd == \A s \in Loops : []<>(loop[s] = "idle")

\* With OverrideExistingFile a version that stays on a remote server is put into Staging in
\* some round (sftpclient.go:97-171), after failures and crashes too.
RemoteFetched ==
  \A d \in Downloaders, p \in RemotePaths :
    []<>("down" \in on /\ d \in overriding =>
           remote[d][p] = 0 \/ <<d, p, remote[d][p]>> \in deposited)

\* With OverrideRemoteExistingFile a file that stays in Clean is sent in some round
\* (sftpclient.go:231-276).
CleanSent ==
  \A u \in OverridingRemote : \A p \in {q \in CleanPaths : q[1] \in LocalDirs[u]} :
    []<>("up" \in on => \/ clean[p] = NoFile \/ data[clean[p]] = Partial
                       \/ <<u, data[clean[p]]>> \in sent)
=============================================================================
