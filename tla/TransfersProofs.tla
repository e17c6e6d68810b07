-------------------------- MODULE TransfersProofs ---------------------------
(***************************************************************************)
(* What every step of a Downloader and of an Uploader preserves, and then  *)
(* the Downloaders, the Uploaders and Overlord's loops together, for any   *)
(* finite sets of clients and any paths, files, faults and crashes.        *)
(***************************************************************************)
EXTENDS Transfers, TLAPS

(***************************************************************************)
(* Downloads.  What may be deleted from a remote server is known from what *)
(* its Downloader did two calls earlier, and what may be renamed from the  *)
(* files of the whole round.  DownInv follows a file from the listing of   *)
(* its directory to the deletion and the deferred rename (WalkOK).         *)
(***************************************************************************)

DlRecord ==
  [pc : {"off", "walk", "create", "copy", "delete", "return"},
   dirs : SUBSET RemoteDirs, todo : SUBSET RemotePaths, cur : RemotePaths \cup {None},
   ver : 0..MaxWrites, defers : Seq(Names)]

Parts == {None} \cup (RemotePaths \X (0..MaxWrites))

DownTypes ==
  /\ writes \in 0..MaxWrites
  /\ remote \in [Downloaders -> [RemotePaths -> 0..MaxWrites]]
  /\ version \in [Downloaders -> [RemotePaths -> 0..MaxWrites]]
  /\ part \in [Downloaders -> [Names -> Parts]]
  /\ dl \in [Downloaders -> DlRecord]

\* Versions only grow, and a path holds its newest version or nothing.
VersionsOK ==
  \A d \in Downloaders : \A p \in RemotePaths :
    version[d][p] <= writes /\ remote[d][p] \in {0, version[d][p]}

\* The paths of the round the walker will not come to any more.
Past(d, p) == version[d][p] # 0 /\ p \notin dl[d].todo /\ p[1] \notin dl[d].dirs

\* What the goroutine of a Downloader knows of the remote server: a file it has still to fetch
\* is there; the file it is fetching is there, in the version it opened or in one recorded in
\* raced; a name to be renamed is that of a file it has fetched.
WalkOK(d) ==
  /\ \A p \in dl[d].todo : remote[d][p] # 0 /\ p[1] \notin dl[d].dirs
  /\ dl[d].pc \in {"off", "walk", "return"} => dl[d].cur = None
  /\ dl[d].pc \in {"create", "copy", "delete"} =>
       /\ dl[d].cur \in RemotePaths /\ Past(d, dl[d].cur) /\ dl[d].ver # 0
       /\ remote[d][dl[d].cur] # 0
       /\ remote[d][dl[d].cur] = dl[d].ver \/ <<d, dl[d].cur, remote[d][dl[d].cur]>> \in raced
  /\ dl[d].pc = "delete" => part[d][Base(dl[d].cur)] = <<dl[d].cur, dl[d].ver>>
  /\ \A i \in DOMAIN dl[d].defers :
       \E p \in RemotePaths :
         /\ Base(p) = dl[d].defers[i] /\ Past(d, p)
         /\ dl[d].pc \in {"create", "copy"} => p # dl[d].cur

WalksOK == \A d \in Downloaders : WalkOK(d)

\* What was deleted was there, and is gone unless there is a newer version.
DeletedOK ==
  \A x \in deleted :
    /\ x \in Downloaders \X RemotePaths \X (1..MaxWrites)
    /\ x[3] <= version[x[1]][x[2]]
    /\ x[3] = version[x[1]][x[2]] => remote[x[1]][x[2]] = 0

\* No two paths of a remote server that ever had a file have the same name.
NamesDistinct ==
  \A d \in Downloaders : \A p, q \in RemotePaths :
    version[d][p] # 0 /\ version[d][q] # 0 /\ Base(p) = Base(q) => p = q

\* No file of a remote server ever had ".download" in its name.
NamesUnmarked ==
  \A d \in Downloaders : \A p \in RemotePaths :
    version[d][p] # 0 => Base(p) \notin MarkedNames

\* A ".download" file that is to be renamed is whole.
DefersWhole ==
  \A d \in Downloaders : \A i \in DOMAIN dl[d].defers :
    part[d][dl[d].defers[i]] = None \/ part[d][dl[d].defers[i]][2] > 0

DownInv ==
  /\ DownTypes /\ VersionsOK /\ WalksOK /\ DeletedOK
  /\ NamesDistinct => DefersWhole /\ DepositsWhole
  /\ NamesDistinct /\ NamesUnmarked => DownloadedKept

-----------------------------------------------------------------------------
USE DownloaderAssumptions

LEMMA OffDl == Off \in DlRecord
BY DEF Off, DlRecord, None

LEMMA InitDownloads == DownloaderInit => DownInv
<1> SUFFICES ASSUME DownloaderInit PROVE DownInv
  BY Zenon
<1> USE DEF DownloaderInit
<1>1. DownTypes
  BY OffDl DEF DownTypes, Parts
<1>2. VersionsOK
  BY DEF VersionsOK
<1>3. WalksOK
  BY DEF WalksOK, WalkOK, Off
<1>4. DeletedOK /\ DepositsWhole /\ DownloadedKept
  BY Zenon DEF DeletedOK, DepositsWhole, DownloadedKept
<1>5. DefersWhole
  BY DEF DefersWhole, Off
<1> QED
  BY Zenon, <1>1, <1>2, <1>3, <1>4, <1>5 DEF DownInv

\* The goroutine of a Downloader goes on to r, and knows there what it has to.
Turns(d, r) == r \in DlRecord /\ dl' = [dl EXCEPT ![d] = r] /\ WalkOK(d)'

LEMMA TurnsDl ==
  ASSUME DownTypes, NEW d \in Downloaders, NEW r, Turns(d, r)
  PROVE  /\ dl' \in [Downloaders -> DlRecord] /\ dl'[d] = r
         /\ \A e \in Downloaders : e # d => dl'[e] = dl[e]
BY Zenon DEF DownTypes, Turns

\* A Downloader's step leaves the others as they are.
LEMMA OtherWalks ==
  ASSUME DownTypes, WalksOK, NEW d \in Downloaders, NEW r, Turns(d, r),
         UNCHANGED <<version, raced>>,
         \A e \in Downloaders : e # d => remote'[e] = remote[e] /\ part'[e] = part[e]
  PROVE  WalksOK'
<1> SUFFICES ASSUME NEW e \in Downloaders, e # d PROVE WalkOK(e)'
  BY Zenon DEF WalksOK, Turns
<1>1. dl'[e] = dl[e]
  BY Zenon, TurnsDl
<1>2. WalkOK(e)
  BY Zenon DEF WalksOK
<1>3. \A p : Past(e, p)' <=> Past(e, p)
  BY Zenon, <1>1 DEF Past
<1> QED
  BY <1>1, <1>2, <1>3 DEF WalkOK

\* A step that changes nothing but the goroutine, which may forget names to rename.
LEMMA LocalDl ==
  ASSUME DownInv, NEW d \in Downloaders, NEW r, Turns(d, r),
         \A i \in DOMAIN r.defers : \E j \in DOMAIN dl[d].defers : r.defers[i] = dl[d].defers[j],
         UNCHANGED <<writes, remote, version, part, deposited, deleted, raced>>
  PROVE  DownInv'
<1>0. DownTypes /\ WalksOK
  BY Zenon DEF DownInv
<1>1. DownTypes'
  BY Zenon, <1>0, TurnsDl DEF DownTypes
<1>2. WalksOK'
  BY Zenon, <1>0, OtherWalks
<1>3. VersionsOK' /\ DeletedOK' /\ (NamesDistinct' => NamesDistinct)
  BY ZenonT(60) DEF DownInv, VersionsOK, DeletedOK, NamesDistinct
<1>4. DepositsWhole' <=> DepositsWhole
  BY Zenon DEF DepositsWhole
<1>5. NamesUnmarked' /\ NamesDistinct' => DownloadedKept'
  BY ZenonT(60) DEF DownInv, NamesDistinct, NamesUnmarked, DownloadedKept
<1>6. DefersWhole => DefersWhole'
  <2> SUFFICES ASSUME DefersWhole, NEW e \in Downloaders, NEW i \in DOMAIN dl'[e].defers
               PROVE  part[e][dl'[e].defers[i]] = None \/ part[e][dl'[e].defers[i]][2] > 0
    BY Zenon DEF DefersWhole
  <2>1. CASE e # d
    BY <1>0, <2>1, TurnsDl DEF DefersWhole
  <2>2. CASE e = d
    <3>1. PICK j \in DOMAIN dl[d].defers : dl'[e].defers[i] = dl[d].defers[j]
      BY <1>0, <2>2, TurnsDl
    <3> QED
      BY Zenon, <2>2, <3>1 DEF DefersWhole
  <2> QED
    BY Zenon, <2>1, <2>2
<1> QED
  BY Zenon, <1>1, <1>2, <1>3, <1>4, <1>5, <1>6 DEF DownInv

\* What a Downloader that is fetching a file knows.
LEMMA Fetching ==
  ASSUME DownInv, NEW d \in Downloaders, dl[d].pc \in {"create", "copy", "delete"}
  PROVE  /\ dl[d].cur \in RemotePaths /\ Base(dl[d].cur) \in Names
         /\ version[d][dl[d].cur] # 0 /\ remote[d][dl[d].cur] # 0
         /\ remote[d][dl[d].cur] = version[d][dl[d].cur]
         /\ dl[d].ver \in 1..MaxWrites
<1>1. WalkOK(d) /\ dl[d] \in DlRecord /\ VersionsOK
  BY Zenon DEF DownInv, WalksOK, DownTypes
<1>2. dl[d].cur \in RemotePaths /\ Past(d, dl[d].cur) /\ dl[d].ver # 0 /\ remote[d][dl[d].cur] # 0
  BY Zenon, <1>1 DEF WalkOK
<1>3. dl[d].ver \in 0..MaxWrites
  BY Zenon, <1>1 DEF DlRecord
<1> QED
  BY <1>1, <1>2, <1>3 DEF Past, VersionsOK, RemotePaths, Base

\* The ".download" file of the file being fetched gets the content c: it is neither one that
\* was deleted from the remote server nor one to be renamed already.
LEMMA PartInv ==
  ASSUME DownInv, NEW d \in Downloaders, NEW r, Turns(d, r), NEW c \in Parts,
         dl[d].pc \in {"create", "copy"},
         part' = [part EXCEPT ![d][Base(dl[d].cur)] = c],
         \A i \in DOMAIN r.defers :
            \/ \E j \in DOMAIN dl[d].defers : r.defers[i] = dl[d].defers[j]
            \/ r.defers[i] = Base(dl[d].cur) /\ (c = None \/ c[2] > 0),
         UNCHANGED <<writes, remote, version, deposited, deleted, raced>>
  PROVE  DownInv'
<1> DEFINE n == Base(dl[d].cur)
<1>0. DownTypes /\ WalksOK
  BY Zenon DEF DownInv
<1>a. /\ part' \in [Downloaders -> [Names -> Parts]]
      /\ part'[d][n] = c /\ \A m \in Names : m # n => part'[d][m] = part[d][m]
      /\ \A e \in Downloaders : e # d => part'[e] = part[e]
  <2>1. n \in Names /\ part \in [Downloaders -> [Names -> Parts]]
    BY Zenon, <1>0, Fetching DEF DownTypes
  <2> HIDE DEF n
  <2>2. part' = [part EXCEPT ![d][n] = c]
    BY Zenon DEF n
  <2>3. PICK row : row = [part[d] EXCEPT ![n] = c]
    BY Zenon
  <2>4. row \in [Names -> Parts] /\ row[n] = c /\ \A m \in Names : m # n => row[m] = part[d][m]
    BY Zenon, <2>1, <2>3
  <2>5. part' = [part EXCEPT ![d] = row]
    BY Zenon, <2>2, <2>3
  <2> QED
    BY ZenonT(60), <2>1, <2>4, <2>5
<1> HIDE DEF n
<1>1. DownTypes'
  BY Zenon, <1>0, <1>a, TurnsDl DEF DownTypes
<1>2. WalksOK'
  BY Zenon, <1>0, <1>a, OtherWalks
<1>3. VersionsOK' /\ DeletedOK' /\ (NamesDistinct' => NamesDistinct) /\ (NamesUnmarked' => NamesUnmarked)
  BY ZenonT(60) DEF DownInv, VersionsOK, DeletedOK, NamesDistinct, NamesUnmarked
<1>4. DepositsWhole' <=> DepositsWhole
  BY Zenon DEF DepositsWhole
<1>5. ASSUME NamesDistinct, DownloadedKept PROVE DownloadedKept'
  <2> SUFFICES ASSUME NEW x \in deleted
               PROVE  \/ x \in deposited \/ part'[x[1]][Base(x[2])] = <<x[2], x[3]>>
                      \/ x[3] < version[x[1]][x[2]] \/ x \in raced
    BY Zenon DEF DownloadedKept
  <2>1. /\ x[1] \in Downloaders /\ x[2] \in RemotePaths /\ x[3] \in 1..MaxWrites
        /\ x[3] <= version[x[1]][x[2]] /\ (x[3] = version[x[1]][x[2]] => remote[x[1]][x[2]] = 0)
        /\ version[x[1]][x[2]] \in 0..MaxWrites /\ Base(x[2]) \in Names
    BY Zenon, <1>0 DEF DownInv, DeletedOK, DownTypes, RemotePaths, Base
  <2>2. CASE x[1] = d /\ x[2] = dl[d].cur
    BY <2>1, <2>2, Fetching
  <2>3. CASE x[1] # d
    BY Zenon, <1>a, <1>5, <2>1, <2>3 DEF DownloadedKept
  <2>4. CASE x[1] = d /\ x[2] # dl[d].cur
    <3>1. Base(x[2]) # n
      BY <1>5, <2>1, <2>4, Fetching DEF n, NamesDistinct
    <3> QED
      BY ZenonT(60), <1>a, <1>5, <2>1, <2>4, <3>1 DEF DownloadedKept
  <2> QED
    BY Zenon, <2>2, <2>3, <2>4
<1>6. ASSUME NamesDistinct, DefersWhole PROVE DefersWhole'
  <2> SUFFICES ASSUME NEW e \in Downloaders, NEW i \in DOMAIN dl'[e].defers
               PROVE  part'[e][dl'[e].defers[i]] = None \/ part'[e][dl'[e].defers[i]][2] > 0
    BY Zenon DEF DefersWhole
  <2>1. CASE e # d
    BY <1>0, <1>a, <1>6, <2>1, TurnsDl DEF DefersWhole
  <2>2. CASE e = d /\ \E j \in DOMAIN dl[d].defers : r.defers[i] = dl[d].defers[j]
    <3>1. PICK j \in DOMAIN dl[d].defers : r.defers[i] = dl[d].defers[j]
      BY Zenon, <2>2
    <3>2. WalkOK(d) /\ dl'[d] = r
      BY Zenon, <1>0, TurnsDl DEF WalksOK
    <3>3. PICK q \in RemotePaths : Base(q) = dl[d].defers[j] /\ version[d][q] # 0 /\ q # dl[d].cur
      BY ZenonT(60), <3>2 DEF WalkOK, Past
    <3>4. Base(q) # n /\ Base(q) \in Names
      BY Zenon, <1>6, <3>3, Fetching DEF n, NamesDistinct, RemotePaths, Base
    <3>5. part'[d][dl[d].defers[j]] = part[d][dl[d].defers[j]]
      BY ZenonT(60), <1>a, <3>3, <3>4
    <3> QED
      BY Zenon, <1>6, <2>2, <3>1, <3>2, <3>5 DEF DefersWhole
  <2>3. CASE e = d /\ r.defers[i] = n /\ (c = None \/ c[2] > 0)
    BY <1>0, <1>a, <2>3, TurnsDl
  <2> QED
    BY ZenonT(60), <1>0, <2>1, <2>2, <2>3, TurnsDl DEF n
<1> QED
  BY Zenon, <1>1, <1>2, <1>3, <1>4, <1>5, <1>6 DEF DownInv

-----------------------------------------------------------------------------
(* The steps of a Downloader.                                              *)

\* Off, and the beginning of a round.
LEMMA FreshInv ==
  ASSUME DownInv, NEW d \in Downloaders, UNCHANGED dlRest,
         dl' = [dl EXCEPT ![d] = Off] \/ StartWalk(d)
  PROVE  DownInv'
<1>1. PICK r : /\ r \in DlRecord /\ dl' = [dl EXCEPT ![d] = r]
               /\ r.pc \in {"off", "walk"} /\ r.todo = {} /\ r.cur = None /\ r.defers = <<>>
  <2>1. CASE dl' = [dl EXCEPT ![d] = Off]
    <3>1. Off.pc \in {"off", "walk"} /\ Off.todo = {} /\ Off.cur = None /\ Off.defers = <<>>
      BY Zenon DEF Off
    <3> QED
      BY Zenon, <2>1, <3>1, OffDl
  <2>2. CASE StartWalk(d)
    <3>1. PICK r : r = [Off EXCEPT !.pc = "walk", !.dirs = RemoteDirs]
      BY Zenon
    <3>2. /\ r \in DlRecord /\ r.pc \in {"off", "walk"} /\ r.todo = {} /\ r.cur = None
          /\ r.defers = <<>>
      BY Zenon, <3>1, OffDl DEF Off, DlRecord
    <3> QED
      BY Zenon, <2>2, <3>1, <3>2 DEF StartWalk
  <2> QED
    BY Zenon, <2>1, <2>2
<1>2. dl'[d] = r
  BY Zenon, <1>1 DEF DownInv, DownTypes
<1>3. WalkOK(d)'
  BY <1>1, <1>2 DEF WalkOK
<1>4. Turns(d, r)
  BY Zenon, <1>1, <1>3 DEF Turns
<1> QED
  BY <1>1, <1>4, LocalDl DEF dlRest

\* The goroutine is at r, with the same names to rename.
LEMMA SameDefers ==
  ASSUME DownInv, NEW d \in Downloaders, NEW r \in DlRecord, dl' = [dl EXCEPT ![d] = r],
         WalkOK(d)', r.defers = dl[d].defers,
         UNCHANGED <<writes, remote, version, part, deposited, deleted, raced>>
  PROVE  DownInv'
BY Zenon, LocalDl DEF Turns

\* An error is returned: the goroutine only has the deferred calls left.
LEMMA ReturnWalks ==
  ASSUME DownInv, NEW d \in Downloaders, Return(d),
         UNCHANGED <<remote, version, raced>>
  PROVE  \E r \in DlRecord : Turns(d, r) /\ r.defers = dl[d].defers
<1>1. dl[d] \in DlRecord /\ DOMAIN dl = Downloaders /\ WalkOK(d)
  BY Zenon DEF DownInv, DownTypes, WalksOK
<1>2. PICK r : r = [dl[d] EXCEPT !.pc = "return", !.cur = None]
  BY Zenon
<1>3. /\ r.pc = "return" /\ r.cur = None /\ r.todo = dl[d].todo /\ r.dirs = dl[d].dirs
      /\ r.defers = dl[d].defers /\ r \in DlRecord
  BY Zenon, <1>1, <1>2 DEF DlRecord
<1>4. dl' = [dl EXCEPT ![d] = r] /\ dl'[d] = r
  BY Zenon, <1>1, <1>2 DEF Return
<1>5. \A p : Past(d, p)' <=> Past(d, p)
  BY Zenon, <1>3, <1>4 DEF Past
<1>6. WalkOK(d)'
  BY ZenonT(60), <1>1, <1>3, <1>4, <1>5 DEF WalkOK
<1> QED
  BY Zenon, <1>3, <1>4, <1>6 DEF Turns

LEMMA ReturnInv ==
  ASSUME DownInv, NEW d \in Downloaders, Return(d),
         UNCHANGED <<writes, remote, version, part, deposited, deleted, raced>>
  PROVE  DownInv'
<1>1. PICK r \in DlRecord : Turns(d, r) /\ r.defers = dl[d].defers
  BY Zenon, ReturnWalks
<1> QED
  BY Zenon, <1>1, LocalDl

LEMMA ListDirInv ==
  ASSUME DownInv, NEW d \in Downloaders, NEW dir \in RemoteDirs, ListDir(d, dir)
  PROVE  DownInv'
<1>1. dl[d] \in DlRecord /\ DOMAIN dl = Downloaders /\ WalkOK(d) /\ VersionsOK
  BY Zenon DEF DownInv, DownTypes, WalksOK
<1>2. PICK more \in SUBSET RemotePaths :
        /\ \A p \in more : p[1] = dir /\ remote[d][p] # 0
        /\ dl' = [dl EXCEPT ![d].dirs = @ \ {dir}, ![d].todo = @ \cup more]
  <2>1. CASE dl' = [dl EXCEPT ![d].dirs = @ \ {dir}]
    <3>1. dl' = [dl EXCEPT ![d].dirs = @ \ {dir}, ![d].todo = @ \cup {}]
      BY Zenon, <1>1, <2>1 DEF DlRecord
    <3> QED
      BY Zenon, <3>1
  <2>2. CASE dl' = [dl EXCEPT ![d].dirs = @ \ {dir},
                      ![d].todo = @ \cup {p \in RemotePaths : p[1] = dir /\ remote[d][p] # 0}]
    BY Zenon, <2>2
  <2> QED
    BY Zenon, <2>1, <2>2 DEF ListDir
<1>3. PICK r : r = [dl[d] EXCEPT !.dirs = @ \ {dir}, !.todo = @ \cup more]
  BY Zenon
<1>4. /\ r.pc = dl[d].pc /\ r.cur = dl[d].cur /\ r.defers = dl[d].defers
      /\ r.dirs = dl[d].dirs \ {dir} /\ r.todo = dl[d].todo \cup more /\ r \in DlRecord
  BY Zenon, <1>1, <1>3 DEF DlRecord
<1>5. dl' = [dl EXCEPT ![d] = r] /\ dl'[d] = r
  BY Zenon, <1>1, <1>2, <1>3
<1>6. dl[d].pc = "walk" /\ dl[d].cur = None /\ dir \in dl[d].dirs /\ UNCHANGED dlRest
  BY Zenon, <1>1 DEF ListDir, WalkOK
<1>7. ASSUME NEW p \in RemotePaths, Past(d, p) PROVE Past(d, p)'
  BY ZenonT(60), <1>2, <1>4, <1>5, <1>6, <1>7 DEF Past, dlRest
<1>8. WalkOK(d)'
  BY <1>1, <1>2, <1>4, <1>5, <1>6, <1>7 DEF WalkOK, dlRest
<1> QED
  BY Zenon, <1>4, <1>5, <1>6, <1>8, SameDefers DEF dlRest

LEMMA VisitInv ==
  ASSUME DownInv, NEW d \in Downloaders, NEW p \in RemotePaths, Visit(d, p)
  PROVE  DownInv'
<1>1. CASE Return(d)
  BY Zenon, <1>1, ReturnInv DEF Visit, dlRest
<1>2. CASE dl' = [dl EXCEPT ![d].pc = "create", ![d].todo = @ \ {p}, ![d].cur = p,
                            ![d].ver = remote[d][p]]
  <2>1. dl[d] \in DlRecord /\ DOMAIN dl = Downloaders /\ WalkOK(d) /\ VersionsOK
        /\ remote[d][p] \in 0..MaxWrites
    BY Zenon DEF DownInv, DownTypes, WalksOK
  <2>2. PICK r : r = [dl[d] EXCEPT !.pc = "create", !.todo = @ \ {p}, !.cur = p,
                                   !.ver = remote[d][p]]
    BY Zenon
  <2>3. /\ r.pc = "create" /\ r.cur = p /\ r.ver = remote[d][p] /\ r.defers = dl[d].defers
        /\ r.dirs = dl[d].dirs /\ r.todo = dl[d].todo \ {p} /\ r \in DlRecord
    BY Zenon, <2>1, <2>2 DEF DlRecord
  <2>4. dl' = [dl EXCEPT ![d] = r] /\ dl'[d] = r
    BY Zenon, <1>2, <2>1, <2>2
  <2>5. p \in dl[d].todo /\ UNCHANGED dlRest /\ remote[d][p] # 0 /\ p[1] \notin dl[d].dirs
        /\ version[d][p] # 0
    BY Zenon, <2>1 DEF Visit, WalkOK, VersionsOK
  <2>6. Past(d, p)'
    BY Zenon, <2>3, <2>4, <2>5 DEF Past, dlRest
  <2>7. ASSUME NEW q \in RemotePaths, Past(d, q) PROVE Past(d, q)' /\ q # p
    BY Zenon, <2>3, <2>4, <2>5, <2>7 DEF Past, dlRest
  <2>8. WalkOK(d)'
    <3>1. \A q \in dl'[d].todo : remote'[d][q] # 0 /\ q[1] \notin dl'[d].dirs
      BY Zenon, <2>1, <2>3, <2>4, <2>5 DEF WalkOK, dlRest
    <3>2. /\ dl'[d].pc = "create" /\ dl'[d].cur = p /\ dl'[d].ver = remote'[d][p]
          /\ remote'[d][p] # 0
      BY Zenon, <2>3, <2>4, <2>5 DEF dlRest
    <3>3. \A i \in DOMAIN dl'[d].defers :
            \E q \in RemotePaths : Base(q) = dl'[d].defers[i] /\ Past(d, q)' /\ q # p
      BY ZenonT(60), <2>1, <2>3, <2>4, <2>7 DEF WalkOK
    <3> QED
      BY ZenonT(60), <2>6, <3>1, <3>2, <3>3 DEF WalkOK
  <2> QED
    BY Zenon, <2>3, <2>4, <2>5, <2>8, SameDefers DEF dlRest
<1> QED
  BY Zenon, <1>1, <1>2 DEF Visit

LEMMA EndWalkInv == ASSUME DownInv, NEW d \in Downloaders, EndWalk(d) PROVE DownInv'
BY Zenon, ReturnInv DEF EndWalk, dlRest

LEMMA createLocalFileInv ==
  ASSUME DownInv, NEW d \in Downloaders, createLocalFile(d) PROVE DownInv'
<1> USE DEF createLocalFile
<1>1. dl[d] \in DlRecord /\ DOMAIN dl = Downloaders /\ WalkOK(d)
  BY Zenon DEF DownInv, DownTypes, WalksOK
<1>2. dl[d].pc = "create" /\ UNCHANGED <<writes, remote, version, deposited, deleted, raced>>
  BY Zenon
<1>3. CASE Return(d) /\ UNCHANGED part
  BY Zenon, <1>2, <1>3, ReturnInv
<1>4. CASE Return(d) /\ part' = [part EXCEPT ![d][Base(dl[d].cur)] = None]
  <2>1. PICK r \in DlRecord : Turns(d, r) /\ r.defers = dl[d].defers
    BY Zenon, <1>2, <1>4, ReturnWalks
  <2>2. None \in Parts
    BY Zenon DEF Parts
  <2> QED
    BY ZenonT(60), <1>2, <1>4, <2>1, <2>2, PartInv
<1>5. CASE Goto(d, "copy") /\ part' = [part EXCEPT ![d][Base(dl[d].cur)] = <<dl[d].cur, 0>>]
  <2>1. PICK r : r = [dl[d] EXCEPT !.pc = "copy"]
    BY Zenon
  <2>2. /\ r.pc = "copy" /\ r.cur = dl[d].cur /\ r.ver = dl[d].ver /\ r.todo = dl[d].todo
        /\ r.dirs = dl[d].dirs /\ r.defers = dl[d].defers /\ r \in DlRecord
    BY Zenon, <1>1, <2>1 DEF DlRecord
  <2>3. dl' = [dl EXCEPT ![d] = r] /\ dl'[d] = r
    BY Zenon, <1>1, <1>5, <2>1 DEF Goto
  <2>4. \A p : Past(d, p)' <=> Past(d, p)
    BY Zenon, <1>2, <2>2, <2>3 DEF Past
  <2>5. WalkOK(d)'
    BY <1>1, <1>2, <2>2, <2>3, <2>4 DEF WalkOK
  <2>6. <<dl[d].cur, 0>> \in Parts
    BY <1>2, Fetching DEF Parts
  <2>7. Turns(d, r)
    BY Zenon, <2>2, <2>3, <2>5 DEF Turns
  <2> QED
    BY ZenonT(60), <1>2, <1>5, <2>2, <2>6, <2>7, PartInv
<1> QED
  BY Zenon, <1>3, <1>4, <1>5

LEMMA CopyFileInv ==
  ASSUME DownInv, NEW d \in Downloaders, CopyFile(d) PROVE DownInv'
<1> USE DEF CopyFile
<1>1. dl[d] \in DlRecord /\ DOMAIN dl = Downloaders /\ WalkOK(d)
  BY Zenon DEF DownInv, DownTypes, WalksOK
<1>2. dl[d].pc = "copy" /\ UNCHANGED <<writes, remote, version, deposited, deleted, raced>>
  BY Zenon
<1>3. CASE Return(d) /\ UNCHANGED part
  BY Zenon, <1>2, <1>3, ReturnInv
<1> DEFINE pc == IF d \in deleting THEN "delete" ELSE "walk"
           cur == IF d \in deleting THEN dl[d].cur ELSE None
           c == <<dl[d].cur, dl[d].ver>>
           n == Base(dl[d].cur)
           defers == Append(dl[d].defers, n)
<1>4. CASE /\ part' = [part EXCEPT ![d][n] = c]
           /\ dl' = [dl EXCEPT ![d].defers = defers, ![d].pc = pc, ![d].cur = cur]
  <2>0. /\ (pc = "delete" /\ cur = dl[d].cur) \/ (pc = "walk" /\ cur = None)
        /\ cur \in RemotePaths \cup {None} /\ n \in Names /\ c \in Parts /\ c[2] > 0
        /\ dl[d].cur \in RemotePaths
    <3>1. dl[d].cur \in RemotePaths /\ n \in Names /\ dl[d].ver \in 1..MaxWrites
      BY Zenon, <1>2, Fetching
    <3>2. c \in Parts /\ c[2] > 0
      BY <3>1 DEF Parts
    <3> QED
      BY Zenon, <3>1, <3>2
  <2>a. /\ defers \in Seq(Names) /\ Len(defers) = Len(dl[d].defers) + 1
        /\ DOMAIN dl[d].defers = 1..Len(dl[d].defers) /\ DOMAIN defers = 1..Len(defers)
        /\ \A i \in DOMAIN dl[d].defers : defers[i] = dl[d].defers[i]
        /\ defers[Len(defers)] = n
    <3>1. dl[d].defers \in Seq(Names)
      BY Zenon, <1>1 DEF DlRecord
    <3>2. n \in Names
      BY Zenon, <2>0
    <3> HIDE DEF n
    <3>3. PICK s : s = dl[d].defers /\ s \in Seq(Names)
      BY Zenon, <3>1
    <3>4. Append(s, n) \in Seq(Names) /\ Len(Append(s, n)) = Len(s) + 1
      BY <3>2, <3>3
    <3>5. \A i \in 1..Len(s) : Append(s, n)[i] = s[i]
      BY <3>2, <3>3
    <3>6. Append(s, n)[Len(s) + 1] = n
      BY SMTT(60), <3>2, <3>3
    <3>7. DOMAIN s = 1..Len(s) /\ DOMAIN Append(s, n) = 1..Len(Append(s, n))
      BY <3>3, <3>4
    <3> QED
      BY Zenon, <3>3, <3>4, <3>5, <3>6, <3>7
  <2>b. c = <<dl[d].cur, dl[d].ver>>
    BY Zenon
  <2>c. dl' = [dl EXCEPT ![d] = [dl[d] EXCEPT !.defers = defers, !.pc = pc, !.cur = cur]]
    BY Zenon, <1>4
  <2>d. ASSUME NEW i \in DOMAIN defers
        PROVE  i \in DOMAIN dl[d].defers \/ i = Len(defers)
    BY <2>a
  <2> HIDE DEF pc, cur, c, defers
  <2>1. PICK r : r = [dl[d] EXCEPT !.defers = defers, !.pc = pc, !.cur = cur]
    BY Zenon
  <2>2. /\ r.pc = pc /\ r.cur = cur /\ r.ver = dl[d].ver /\ r.todo = dl[d].todo
        /\ r.dirs = dl[d].dirs /\ r.defers = defers /\ r \in DlRecord
    BY Zenon, <1>1, <2>0, <2>a, <2>1 DEF DlRecord
  <2>3. dl' = [dl EXCEPT ![d] = r] /\ dl'[d] = r
    BY Zenon, <1>1, <2>c, <2>1
  <2>4. \A p : Past(d, p)' <=> Past(d, p)
    BY Zenon, <1>2, <2>2, <2>3 DEF Past
  <2>5. part'[d][n] = c
    BY Zenon, <1>4, <2>0 DEF DownInv, DownTypes
  <2>6. ASSUME NEW i \in DOMAIN defers
        PROVE  \E p \in RemotePaths : Base(p) = defers[i] /\ Past(d, p)
    <3>1. CASE i \in DOMAIN dl[d].defers
      BY Zenon, <1>1, <2>a, <3>1 DEF WalkOK
    <3>2. CASE i = Len(defers)
      BY Zenon, <1>1, <1>2, <2>0, <2>a, <3>2 DEF WalkOK
    <3> QED
      BY Zenon, <2>d, <3>1, <3>2
  <2>7. WalkOK(d)'
    <3>1. \A p \in dl'[d].todo : remote'[d][p] # 0 /\ p[1] \notin dl'[d].dirs
      BY Zenon, <1>1, <1>2, <2>2, <2>3 DEF WalkOK
    <3>2. dl'[d].pc \in {"off", "walk", "return"} => dl'[d].cur = None
      BY Zenon, <2>0, <2>2, <2>3
    <3>3. dl'[d].pc \in {"create", "copy", "delete"} =>
            /\ dl'[d].pc = "delete" /\ dl'[d].cur = dl[d].cur /\ dl'[d].ver = dl[d].ver
      BY Zenon, <2>0, <2>2, <2>3
    <3>4. \A i \in DOMAIN dl'[d].defers : \E p \in RemotePaths : Base(p) = dl'[d].defers[i] /\ Past(d, p)'
      BY Zenon, <2>2, <2>3, <2>4, <2>6
    <3>5. dl'[d].pc \notin {"create", "copy"}
      BY Zenon, <2>0, <2>2, <2>3
    <3> QED
      BY ZenonT(60), <1>1, <1>2, <2>4, <2>5, <2>b, <3>1, <3>2, <3>3, <3>4, <3>5 DEF WalkOK
  <2>8. Turns(d, r)
    BY Zenon, <2>2, <2>3, <2>7 DEF Turns
  <2>9. \A i \in DOMAIN r.defers :
            \/ \E j \in DOMAIN dl[d].defers : r.defers[i] = dl[d].defers[j]
            \/ r.defers[i] = n /\ (c = None \/ c[2] > 0)
    BY Zenon, <2>0, <2>2, <2>a, <2>d
  <2> QED
    BY ZenonT(60), <1>2, <1>4, <2>0, <2>8, <2>9, PartInv
<1> QED
  BY Zenon, <1>3, <1>4

\* What is deleted is the version that was fetched, and is in the ".download" file, or one
\* that was put there since.
LEMMA DeleteRemoteInv ==
  ASSUME DownInv, NEW d \in Downloaders, DeleteRemote(d) PROVE DownInv'
<1> USE DEF DeleteRemote
<1> DEFINE p == dl[d].cur
           x == <<d, p, remote[d][p]>>
<1>0. DownTypes /\ VersionsOK /\ WalksOK /\ DeletedOK
  BY Zenon DEF DownInv
<1>1. dl[d] \in DlRecord /\ DOMAIN dl = Downloaders /\ WalkOK(d)
  BY Zenon, <1>0 DEF DownTypes, WalksOK
<1>2. dl[d].pc = "delete" /\ UNCHANGED <<writes, version, part, deposited, raced>>
  BY Zenon
<1>3. CASE Return(d) /\ UNCHANGED <<remote, deleted>>
  BY Zenon, <1>2, <1>3, ReturnInv
<1>4. CASE /\ remote' = [remote EXCEPT ![d][p] = 0] /\ deleted' = deleted \cup {x}
           /\ NextFile(d)
  <2>1. /\ p \in RemotePaths /\ remote[d][p] # 0 /\ remote[d][p] = version[d][p]
        /\ version[d][p] \in 0..MaxWrites
        /\ \/ remote[d][p] = dl[d].ver
           \/ x \in raced
        /\ p \notin dl[d].todo
        /\ part[d][Base(p)] = <<p, dl[d].ver>>
    <3>1. Past(d, p) /\ (remote[d][p] = dl[d].ver \/ x \in raced) /\ part[d][Base(p)] = <<p, dl[d].ver>>
      BY Zenon, <1>1, <1>2 DEF WalkOK
    <3> QED
      BY Zenon, <1>0, <1>2, <3>1, Fetching DEF Past, DownTypes
  <2> HIDE DEF p
  <2>2. /\ remote' \in [Downloaders -> [RemotePaths -> 0..MaxWrites]] /\ remote'[d][p] = 0
        /\ \A q \in RemotePaths : q # p => remote'[d][q] = remote[d][q]
        /\ \A e \in Downloaders : e # d => remote'[e] = remote[e]
    <3>1. PICK row : row = [remote[d] EXCEPT ![p] = 0]
      BY Zenon
    <3>2. /\ row \in [RemotePaths -> 0..MaxWrites] /\ row[p] = 0
          /\ \A q \in RemotePaths : q # p => row[q] = remote[d][q]
      BY <1>0, <2>1, <3>1 DEF DownTypes
    <3>3. remote' = [remote EXCEPT ![d] = row]
      BY Zenon, <1>4, <3>1
    <3> QED
      BY Zenon, <1>0, <3>2, <3>3 DEF DownTypes
  <2>3. PICK r : r = [dl[d] EXCEPT !.pc = "walk", !.cur = None]
    BY Zenon
  <2>4. /\ r.pc = "walk" /\ r.cur = None /\ r.todo = dl[d].todo /\ r.dirs = dl[d].dirs
        /\ r.defers = dl[d].defers /\ r \in DlRecord
    BY Zenon, <1>1, <2>3 DEF DlRecord
  <2>5. dl' = [dl EXCEPT ![d] = r] /\ dl'[d] = r
    BY Zenon, <1>1, <1>4, <2>3 DEF NextFile
  <2>6. \A q : Past(d, q)' <=> Past(d, q)
    BY Zenon, <1>2, <2>4, <2>5 DEF Past
  <2>7. WalkOK(d)'
    <3>1. dl[d].todo \subseteq RemotePaths
      BY Zenon, <1>1 DEF DlRecord
    <3>2. \A q \in dl'[d].todo : remote'[d][q] # 0 /\ q[1] \notin dl'[d].dirs
      <4> SUFFICES ASSUME NEW q \in dl[d].todo
                   PROVE  remote'[d][q] # 0 /\ q[1] \notin dl[d].dirs
        BY Zenon, <2>4, <2>5
      <4>1. remote[d][q] # 0 /\ q[1] \notin dl[d].dirs
        BY Zenon, <1>1 DEF WalkOK
      <4>2. remote'[d][q] = remote[d][q]
        BY Zenon, <2>1, <2>2, <3>1
      <4> QED
        BY Zenon, <4>1, <4>2
    <3>3. \A i \in DOMAIN dl'[d].defers :
            \E q \in RemotePaths : Base(q) = dl'[d].defers[i] /\ Past(d, q)'
      BY ZenonT(60), <1>1, <2>4, <2>5, <2>6 DEF WalkOK
    <3> QED
      BY Zenon, <2>4, <2>5, <3>2, <3>3 DEF WalkOK
  <2>8. Turns(d, r)
    BY Zenon, <2>4, <2>5, <2>7 DEF Turns
  <2>9. WalksOK'
    BY Zenon, <1>0, <1>2, <2>2, <2>8, OtherWalks
  <2>10. DownTypes'
    BY Zenon, <1>0, <1>2, <2>2, <2>8, TurnsDl DEF DownTypes
  <2>11. VersionsOK'
    BY ZenonT(60), <1>0, <1>2, <2>2 DEF VersionsOK
  <2>12. DeletedOK'
    <3> SUFFICES ASSUME NEW y \in deleted \cup {x}
                 PROVE  /\ y \in Downloaders \X RemotePaths \X (1..MaxWrites)
                        /\ y[3] <= version[y[1]][y[2]]
                        /\ y[3] = version[y[1]][y[2]] => remote'[y[1]][y[2]] = 0
      BY Zenon, <1>2, <1>4 DEF DeletedOK
    <3>1. CASE y = x
      BY <2>1, <2>2, <3>1
    <3>2. CASE y \in deleted
      <4>1. /\ y \in Downloaders \X RemotePaths \X (1..MaxWrites)
            /\ y[3] <= version[y[1]][y[2]]
            /\ y[3] = version[y[1]][y[2]] => remote[y[1]][y[2]] = 0
        BY Zenon, <1>0, <3>2 DEF DeletedOK
      <4>2. y[1] \in Downloaders /\ y[2] \in RemotePaths
        BY Zenon, <4>1
      <4> QED
        BY ZenonT(60), <2>2, <4>1, <4>2
    <3> QED
      BY Zenon, <3>1, <3>2
  <2>13. DownloadedKept => DownloadedKept'
    <3> SUFFICES ASSUME DownloadedKept, NEW y \in deleted \cup {x}
                 PROVE  \/ y \in deposited \/ part[y[1]][Base(y[2])] = <<y[2], y[3]>>
                        \/ y[3] < version[y[1]][y[2]] \/ y \in raced
      BY Zenon, <1>2, <1>4 DEF DownloadedKept
    <3>1. CASE y = x
      BY Zenon, <2>1, <3>1
    <3>2. CASE y \in deleted
      BY Zenon, <3>2 DEF DownloadedKept
    <3> QED
      BY Zenon, <3>1, <3>2
  <2>14. DefersWhole => DefersWhole'
    <3>1. \A e \in Downloaders : dl'[e].defers = dl[e].defers
      BY <1>0, <2>4, <2>8, TurnsDl
    <3> QED
      BY Zenon, <1>2, <3>1 DEF DefersWhole
  <2>15. /\ NamesDistinct' <=> NamesDistinct
         /\ NamesUnmarked' <=> NamesUnmarked
         /\ DepositsWhole' <=> DepositsWhole
    BY <1>2 DEF NamesDistinct, NamesUnmarked, DepositsWhole
  <2> QED
    BY Zenon, <2>9, <2>10, <2>11, <2>12, <2>13, <2>14, <2>15 DEF DownInv
<1> QED
  BY Zenon, <1>3, <1>4

\* What is renamed is whole, and is in Staging from then on.
LEMMA UnMarkInv ==
  ASSUME DownInv, NEW d \in Downloaders, unMarkFileInDownloadingState(d) PROVE DownInv'
<1> DEFINE n == dl[d].defers[Len(dl[d].defers)]
           f == part[d][n]
           rest == SubSeq(dl[d].defers, 1, Len(dl[d].defers) - 1)
<1>0. DownTypes /\ WalksOK
  BY Zenon DEF DownInv
<1>1. dl[d] \in DlRecord /\ DOMAIN dl = Downloaders /\ WalkOK(d)
  BY Zenon, <1>0 DEF DownTypes, WalksOK
<1>2. /\ dl[d].pc = "return" /\ dl[d].defers # <<>>
      /\ UNCHANGED <<writes, remote, version, deleted, raced>>
      /\ dl' = [dl EXCEPT ![d].defers = rest]
  BY Zenon DEF unMarkFileInDownloadingState
<1>3. /\ Len(dl[d].defers) \in DOMAIN dl[d].defers /\ n \in Names /\ rest \in Seq(Names)
      /\ \A i \in DOMAIN rest : i \in DOMAIN dl[d].defers /\ rest[i] = dl[d].defers[i]
  <2>1. PICK s : s = dl[d].defers
    BY Zenon
  <2>2. s \in Seq(Names) /\ s # <<>>
    BY Zenon, <1>1, <1>2, <2>1 DEF DlRecord
  <2>3. Len(s) \in Nat \ {0} /\ DOMAIN s = 1..Len(s)
    BY <2>2
  <2>4. s[Len(s)] \in Names /\ SubSeq(s, 1, Len(s) - 1) \in Seq(Names)
    BY <2>2, <2>3
  <2>5. \A i \in DOMAIN SubSeq(s, 1, Len(s) - 1) :
          i \in DOMAIN s /\ SubSeq(s, 1, Len(s) - 1)[i] = s[i]
    BY <2>2, <2>3
  <2> QED
    BY <2>1, <2>3, <2>4, <2>5
<1> HIDE DEF n, rest
<1>4. PICK r : r = [dl[d] EXCEPT !.defers = rest]
  BY Zenon
<1>5. /\ r.pc = "return" /\ r.cur = dl[d].cur /\ r.todo = dl[d].todo /\ r.dirs = dl[d].dirs
      /\ r.defers = rest /\ r \in DlRecord
  BY Zenon, <1>1, <1>2, <1>3, <1>4 DEF DlRecord
<1>6. dl' = [dl EXCEPT ![d] = r] /\ dl'[d] = r
  BY Zenon, <1>1, <1>2, <1>4
<1>7. \A q : Past(d, q)' <=> Past(d, q)
  BY Zenon, <1>2, <1>5, <1>6 DEF Past
<1>8. WalkOK(d)'
  BY <1>1, <1>2, <1>3, <1>5, <1>6, <1>7 DEF WalkOK
<1>9. Turns(d, r)
  BY Zenon, <1>5, <1>6, <1>8 DEF Turns
<1>10. CASE UNCHANGED <<part, deposited>>
  BY Zenon, <1>2, <1>3, <1>5, <1>9, <1>10, LocalDl
<1>11. CASE /\ part' = [part EXCEPT ![d][n] = None]
            /\ deposited' = IF f = None \/ n \in MarkedNames THEN deposited
                            ELSE deposited \cup {<<d, f[1], f[2]>>}
  <2>1. /\ part' \in [Downloaders -> [Names -> Parts]] /\ part'[d][n] = None
        /\ \A m \in Names : m # n => part'[d][m] = part[d][m]
        /\ \A e \in Downloaders : e # d => part'[e] = part[e]
    <3>1. PICK row : row = [part[d] EXCEPT ![n] = None]
      BY Zenon
    <3>2. /\ row \in [Names -> Parts] /\ row[n] = None
          /\ \A m \in Names : m # n => row[m] = part[d][m]
      BY Zenon, <1>0, <1>3, <3>1 DEF DownTypes, Parts
    <3>3. part' = [part EXCEPT ![d] = row]
      BY Zenon, <1>11, <3>1
    <3> QED
      BY Zenon, <1>0, <3>2, <3>3 DEF DownTypes
  <2>2. DownTypes'
    BY Zenon, <1>0, <1>2, <1>9, <2>1, TurnsDl DEF DownTypes
  <2>3. WalksOK'
    BY Zenon, <1>0, <1>2, <1>9, <2>1, OtherWalks
  <2>4. /\ VersionsOK' /\ DeletedOK'
        /\ NamesDistinct' <=> NamesDistinct
        /\ NamesUnmarked' <=> NamesUnmarked
    BY ZenonT(60), <1>2 DEF DownInv, VersionsOK, DeletedOK, NamesDistinct, NamesUnmarked
  <2>5. ASSUME DefersWhole, DepositsWhole PROVE DepositsWhole'
    <3>1. f = None \/ f[2] > 0
      BY Zenon, <1>3, <2>5 DEF DefersWhole, n
    <3> HIDE DEF f
    <3>2. ASSUME NEW x \in deposited' PROVE x[3] > 0
      BY <1>11, <2>5, <3>1 DEF DepositsWhole
    <3> QED
      BY Zenon, <3>2 DEF DepositsWhole
  <2>6. DefersWhole => DefersWhole'
    <3> SUFFICES ASSUME DefersWhole, NEW e \in Downloaders, NEW i \in DOMAIN dl'[e].defers
                 PROVE  part'[e][dl'[e].defers[i]] = None \/ part'[e][dl'[e].defers[i]][2] > 0
      BY Zenon DEF DefersWhole
    <3>1. CASE e # d
      BY <1>0, <1>9, <2>1, <3>1, TurnsDl DEF DefersWhole
    <3>2. CASE e = d
      <4>1. i \in DOMAIN dl[d].defers /\ dl'[e].defers[i] = dl[d].defers[i]
        BY ZenonT(60), <1>3, <1>5, <1>6, <3>2
      <4>2. dl[d].defers[i] \in Names
        <5>1. dl[d].defers \in Seq(Names)
          BY Zenon, <1>1 DEF DlRecord
        <5> QED
          BY <4>1, <5>1
      <4>3. part[d][dl[d].defers[i]] = None \/ part[d][dl[d].defers[i]][2] > 0
        BY Zenon, <4>1 DEF DefersWhole
      <4> QED
        BY ZenonT(60), <2>1, <3>2, <4>1, <4>2, <4>3
    <3> QED
      BY Zenon, <3>1, <3>2
  <2>7. ASSUME NamesUnmarked, DownloadedKept PROVE DownloadedKept'
    <3> SUFFICES ASSUME NEW x \in deleted
                 PROVE  \/ x \in deposited' \/ part'[x[1]][Base(x[2])] = <<x[2], x[3]>>
                        \/ x[3] < version[x[1]][x[2]] \/ x \in raced
      BY Zenon, <1>2 DEF DownloadedKept
    <3>1. /\ x \in Downloaders \X RemotePaths \X (1..MaxWrites)
          /\ x[3] <= version[x[1]][x[2]] /\ version[x[1]][x[2]] \in 0..MaxWrites
      BY Zenon, <1>0 DEF DownInv, DeletedOK, DownTypes
    <3>2. /\ x[1] \in Downloaders /\ x[2] \in RemotePaths /\ version[x[1]][x[2]] # 0
          /\ Base(x[2]) \in Names /\ x = <<x[1], x[2], x[3]>>
      BY <3>1 DEF RemotePaths, Base
    <3>3. deposited \subseteq deposited'
      BY Zenon, <1>11
    <3>4. CASE x[1] = d /\ Base(x[2]) = n /\ f = <<x[2], x[3]>>
      <4>1. n \notin MarkedNames
        BY Zenon, <2>7, <3>2, <3>4 DEF NamesUnmarked
      <4>2. f # None /\ f[1] = x[2] /\ f[2] = x[3]
        BY <3>4 DEF None
      <4> HIDE DEF f
      <4>3. <<d, f[1], f[2]>> \in deposited'
        BY Zenon, <1>11, <4>1, <4>2
      <4>4. <<d, f[1], f[2]>> = x
        BY Zenon, <3>2, <3>4, <4>2
      <4> QED
        BY Zenon, <4>3, <4>4
    <3>5. CASE ~(x[1] = d /\ Base(x[2]) = n) \/ part[x[1]][Base(x[2])] # <<x[2], x[3]>>
      BY Zenon, <2>1, <2>7, <3>2, <3>3, <3>5 DEF DownloadedKept
    <3> QED
      BY Zenon, <3>4, <3>5
  <2> QED
    BY Zenon, <2>2, <2>3, <2>4, <2>5, <2>6, <2>7 DEF DownInv
<1> QED
  BY Zenon, <1>10, <1>11 DEF n, unMarkFileInDownloadingState

\* A version put on a remote server is newer than all others there have been.
LEMMA RemoteWriteInv ==
  ASSUME DownInv, NEW d \in Downloaders, NEW p \in RemotePaths, RemoteWrite(d, p) PROVE DownInv'
<1> DEFINE v == writes + 1
<1>0. DownTypes /\ VersionsOK /\ WalksOK /\ DeletedOK
  BY Zenon DEF DownInv
<1>1. /\ writes' = v /\ version' = [version EXCEPT ![d][p] = v]
      /\ remote' = [remote EXCEPT ![d][p] = v]
      /\ raced \subseteq raced' /\ (dl[d].cur = p => <<d, p, v>> \in raced')
      /\ UNCHANGED <<part, dl, deposited, deleted>>
  BY Zenon DEF RemoteWrite
<1>2. v \in 1..MaxWrites /\ v > writes /\ writes \in Nat
  BY <1>0 DEF DownTypes, RemoteWrite
<1> HIDE DEF v
<1>3. /\ version' \in [Downloaders -> [RemotePaths -> 0..MaxWrites]] /\ version'[d][p] = v
      /\ \A q \in RemotePaths : q # p => version'[d][q] = version[d][q]
      /\ \A e \in Downloaders : e # d => version'[e] = version[e]
  <2>1. PICK row : row = [version[d] EXCEPT ![p] = v]
    BY Zenon
  <2>2. /\ row \in [RemotePaths -> 0..MaxWrites] /\ row[p] = v
        /\ \A q \in RemotePaths : q # p => row[q] = version[d][q]
    BY <1>0, <1>2, <2>1 DEF DownTypes
  <2>3. version' = [version EXCEPT ![d] = row]
    BY Zenon, <1>1, <2>1
  <2> QED
    BY Zenon, <1>0, <2>2, <2>3 DEF DownTypes
<1>4. /\ remote' \in [Downloaders -> [RemotePaths -> 0..MaxWrites]] /\ remote'[d][p] = v
      /\ \A q \in RemotePaths : q # p => remote'[d][q] = remote[d][q]
      /\ \A e \in Downloaders : e # d => remote'[e] = remote[e]
  <2>1. PICK row : row = [remote[d] EXCEPT ![p] = v]
    BY Zenon
  <2>2. /\ row \in [RemotePaths -> 0..MaxWrites] /\ row[p] = v
        /\ \A q \in RemotePaths : q # p => row[q] = remote[d][q]
    BY <1>0, <1>2, <2>1 DEF DownTypes
  <2>3. remote' = [remote EXCEPT ![d] = row]
    BY Zenon, <1>1, <2>1
  <2> QED
    BY Zenon, <1>0, <2>2, <2>3 DEF DownTypes
<1>5. ASSUME NEW e \in Downloaders, NEW q \in RemotePaths
      PROVE  \/ e = d /\ q = p /\ version'[e][q] = v /\ remote'[e][q] = v
             \/ ~(e = d /\ q = p) /\ version'[e][q] = version[e][q] /\ remote'[e][q] = remote[e][q]
  BY Zenon, <1>3, <1>4
<1>6. DownTypes'
  BY <1>0, <1>1, <1>2, <1>3, <1>4 DEF DownTypes
<1>7. VersionsOK'
  <2> SUFFICES ASSUME NEW e \in Downloaders, NEW q \in RemotePaths
               PROVE  version'[e][q] <= writes' /\ remote'[e][q] \in {0, version'[e][q]}
    BY Zenon DEF VersionsOK
  <2>1. version[e][q] \in Nat /\ version[e][q] <= writes /\ remote[e][q] \in {0, version[e][q]}
    BY <1>0 DEF VersionsOK, DownTypes
  <2> QED
    BY <1>1, <1>2, <1>5, <2>1
<1>8. ASSUME NEW e \in Downloaders, NEW q \in RemotePaths, version[e][q] # 0
      PROVE  version'[e][q] # 0
  BY <1>2, <1>5, <1>8
<1>9. (NamesDistinct' => NamesDistinct) /\ (NamesUnmarked' => NamesUnmarked)
  BY Zenon, <1>8 DEF NamesDistinct, NamesUnmarked
<1>10. WalksOK'
  <2> SUFFICES ASSUME NEW e \in Downloaders PROVE WalkOK(e)'
    BY Zenon DEF WalksOK
  <2>1. WalkOK(e) /\ dl[e] \in DlRecord /\ dl' = dl /\ part' = part
    BY Zenon, <1>0, <1>1 DEF WalksOK, DownTypes
  <2>2. dl[e].todo \subseteq RemotePaths
    BY Zenon, <2>1 DEF DlRecord
  <2>3. \A q \in RemotePaths : Past(e, q) => Past(e, q)'
    BY Zenon, <1>8, <2>1 DEF Past
  <2>4. \A q \in dl'[e].todo : remote'[e][q] # 0 /\ q[1] \notin dl'[e].dirs
    <3> SUFFICES ASSUME NEW q \in dl[e].todo
                 PROVE  remote'[e][q] # 0 /\ q[1] \notin dl[e].dirs
      BY Zenon, <2>1
    <3>1. remote[e][q] # 0 /\ q[1] \notin dl[e].dirs /\ q \in RemotePaths
      BY Zenon, <2>1, <2>2 DEF WalkOK
    <3>2. v # 0
      BY <1>2
    <3> QED
      BY Zenon, <1>5, <3>1, <3>2
  <2>5. ASSUME dl[e].pc \in {"create", "copy", "delete"}
        PROVE  /\ dl[e].cur \in RemotePaths /\ Past(e, dl[e].cur)' /\ dl[e].ver # 0
               /\ remote'[e][dl[e].cur] # 0
               /\ \/ remote'[e][dl[e].cur] = dl[e].ver
                  \/ <<e, dl[e].cur, remote'[e][dl[e].cur]>> \in raced'
    <3>1. /\ dl[e].cur \in RemotePaths /\ Past(e, dl[e].cur) /\ dl[e].ver # 0
          /\ remote[e][dl[e].cur] # 0
          /\ \/ remote[e][dl[e].cur] = dl[e].ver
             \/ <<e, dl[e].cur, remote[e][dl[e].cur]>> \in raced
      BY Zenon, <2>1, <2>5 DEF WalkOK
    <3>2. CASE e = d /\ dl[e].cur = p
      BY <1>1, <1>2, <1>4, <2>3, <3>1, <3>2
    <3>3. CASE ~(e = d /\ dl[e].cur = p)
      <4>1. remote'[e][dl[e].cur] = remote[e][dl[e].cur]
        BY Zenon, <1>5, <3>1, <3>3
      <4> QED
        BY Zenon, <1>1, <2>3, <3>1, <4>1
    <3> QED
      BY Zenon, <3>2, <3>3
  <2>6. \A i \in DOMAIN dl[e].defers :
          \E q \in RemotePaths :
            /\ Base(q) = dl[e].defers[i] /\ Past(e, q)'
            /\ dl[e].pc \in {"create", "copy"} => q # dl[e].cur
    BY ZenonT(60), <2>1, <2>3 DEF WalkOK
  <2> QED
    BY <2>1, <2>4, <2>5, <2>6 DEF WalkOK
<1>11. ASSUME NEW x \in deleted
       PROVE  /\ x \in Downloaders \X RemotePaths \X (1..MaxWrites)
              /\ x[3] <= version'[x[1]][x[2]]
              /\ x[3] = version'[x[1]][x[2]] => remote'[x[1]][x[2]] = 0
              /\ x[3] < version[x[1]][x[2]] => x[3] < version'[x[1]][x[2]]
  <2>1. /\ x \in Downloaders \X RemotePaths \X (1..MaxWrites)
        /\ x[3] <= version[x[1]][x[2]]
        /\ x[3] = version[x[1]][x[2]] => remote[x[1]][x[2]] = 0
    BY Zenon, <1>0 DEF DeletedOK
  <2>2. x[1] \in Downloaders /\ x[2] \in RemotePaths /\ x[3] \in Nat
    BY <2>1
  <2>3. version[x[1]][x[2]] \in Nat /\ version[x[1]][x[2]] <= writes
    BY <1>0, <2>2 DEF VersionsOK, DownTypes
  <2>4. CASE x[1] = d /\ x[2] = p
    <3>1. version'[x[1]][x[2]] = v
      BY Zenon, <1>3, <2>4
    <3>2. x[3] < v /\ v \in Nat
      BY <1>2, <2>1, <2>2, <2>3
    <3> QED
      BY <2>1, <2>2, <3>1, <3>2
  <2>5. CASE ~(x[1] = d /\ x[2] = p)
    <3>1. version'[x[1]][x[2]] = version[x[1]][x[2]] /\ remote'[x[1]][x[2]] = remote[x[1]][x[2]]
      BY Zenon, <1>5, <2>2, <2>5
    <3> QED
      BY Zenon, <2>1, <3>1
  <2> QED
    BY Zenon, <2>4, <2>5
<1>12. DeletedOK'
  BY Zenon, <1>1, <1>11 DEF DeletedOK
<1>13. DownloadedKept => DownloadedKept'
  BY Zenon, <1>1, <1>11 DEF DownloadedKept
<1>14. (DefersWhole => DefersWhole') /\ (DepositsWhole => DepositsWhole')
  BY Zenon, <1>1 DEF DefersWhole, DepositsWhole
<1> QED
  BY Zenon, <1>6, <1>7, <1>9, <1>10, <1>12, <1>13, <1>14 DEF DownInv

\* The process is lost: no goroutine is left, and the files stay.
LEMMA DownloadersCrashInv == ASSUME DownInv, DownloadersCrash PROVE DownInv'
<1>1. dl' = [d \in Downloaders |-> Off]
      /\ UNCHANGED <<writes, remote, version, part, deposited, deleted, raced>>
  BY Zenon DEF DownloadersCrash, dlRest
<1>2. DownTypes'
  BY Zenon, <1>1, OffDl DEF DownInv, DownTypes
<1>3. Off.pc = "off" /\ Off.todo = {} /\ Off.cur = None /\ Off.defers = <<>>
  BY Zenon DEF Off
<1>4. WalksOK' /\ DefersWhole'
  BY <1>1, <1>3 DEF WalksOK, WalkOK, DefersWhole
<1>5. /\ VersionsOK' /\ DeletedOK' /\ (NamesDistinct' => NamesDistinct)
      /\ (NamesUnmarked' => NamesUnmarked) /\ (DepositsWhole => DepositsWhole')
      /\ (DownloadedKept => DownloadedKept')
  BY Zenon, <1>1 DEF DownInv, VersionsOK, DeletedOK, NamesDistinct, NamesUnmarked, DepositsWhole,
              DownloadedKept
<1> QED
  BY Zenon, <1>2, <1>4, <1>5 DEF DownInv

-----------------------------------------------------------------------------

LEMMA DownFrame == ASSUME DownInv, UNCHANGED dlVars PROVE DownInv'
<1> USE DEF dlVars, dlRest
<1>1. DownTypes' /\ VersionsOK' /\ DeletedOK'
  BY Zenon DEF DownInv, DownTypes, VersionsOK, DeletedOK
<1>2. WalksOK'
  <2> SUFFICES ASSUME NEW d \in Downloaders PROVE WalkOK(d)'
    BY Zenon DEF WalksOK
  <2>1. WalkOK(d)
    BY Zenon DEF DownInv, WalksOK
  <2>2. \A p : Past(d, p)' <=> Past(d, p)
    BY Zenon DEF Past
  <2> QED
    BY Zenon, <2>1, <2>2 DEF WalkOK
<1>3. /\ NamesDistinct' <=> NamesDistinct
      /\ NamesUnmarked' <=> NamesUnmarked
      /\ DepositsWhole' <=> DepositsWhole
      /\ DownloadedKept' <=> DownloadedKept
      /\ DefersWhole' <=> DefersWhole
  BY Zenon DEF NamesDistinct, NamesUnmarked, DepositsWhole, DownloadedKept, DefersWhole
<1> QED
  BY Zenon, <1>1, <1>2, <1>3 DEF DownInv

LEMMA DownloadStepInv == ASSUME DownInv, NEW d \in Downloaders, DownloadStep(d) PROVE DownInv'
BY Zenon, ListDirInv, VisitInv, createLocalFileInv, CopyFileInv, DeleteRemoteInv, EndWalkInv, UnMarkInv
DEF DownloadStep

-----------------------------------------------------------------------------
(***************************************************************************)
(* Uploads. Neither SentBeforeGone nor ArchivedWasSent is inductive: that  *)
(* a file may be removed from Clean is known only from what its Uploader   *)
(* did three calls earlier, and from the record of the moves that met it.  *)
(* UploadsInv follows a file from os.Open to os.Remove (UploaderOK), and   *)
(* says where FileWatcher's move is (MoverOK).                             *)
(***************************************************************************)

\* Content that may leave Clean: it was sent, or is not whole, or is excepted.
Accounted(x) ==
  x = Partial \/ x \in overlapped \/ \E v \in Uploaders : <<v, x>> \in sent

UpRecord ==
  [pc : {"off", "start", "next", "create", "copy", "src", "dest", "archive", "remove", "end"},
   files : SUBSET CleanPaths, path : CleanPaths \cup {NoFile},
   file : Moves \cup {NoFile}, src : Moves \cup {NoFile}]

UploadTypes ==
  /\ clean \in [CleanPaths -> Moves \cup {NoFile}]
  /\ data \in [Moves -> Contents]
  /\ at \in [Moves -> CleanPaths]
  /\ archive \in [CleanPaths -> Contents \cup {NoFile}]
  /\ up \in [Uploaders -> UpRecord]
  /\ mover \in [move : Moves, file : Moves] \cup {NoFile}
  /\ settled \subseteq Moves

\* The file at a path is one that a move to this path created.
CleanOK == \A p \in CleanPaths : clean[p] # NoFile => clean[p] \in begun /\ at[clean[p]] = p

\* The file being written is at its path and is not whole; a move that shares its path with an
\* Uploader is recorded.
MoverOK ==
  mover # NoFile =>
    /\ mover.move \in begun /\ mover.file \in begun
    /\ at[mover.file] = at[mover.move]
    /\ data[mover.file] = Partial
    /\ clean[at[mover.move]] = mover.file \/ mover.move \in overlapped
    /\ Working(at[mover.move]) => mover.move \in overlapped

\* What an Uploader at each point knows of its file and of what is at its path now.
UploaderOK(u) ==
  /\ up[u].pc \in {"off", "start", "next", "end"} => up[u].path = NoFile
  /\ up[u].pc \in {"create", "copy"} =>
       /\ up[u].path \in CleanPaths /\ up[u].file \in Moves
       /\ up[u].file \in begun /\ at[up[u].file] = up[u].path
       /\ clean[up[u].path] # NoFile =>
            clean[up[u].path] = up[u].file \/ Accounted(data[clean[up[u].path]])
  /\ up[u].pc \in {"src", "dest", "archive", "remove"} =>
       /\ up[u].path \in CleanPaths
       /\ clean[up[u].path] # NoFile => Accounted(data[clean[up[u].path]])
  /\ up[u].pc \in {"dest", "archive"} =>
       /\ up[u].src \in Moves /\ up[u].src \in begun /\ at[up[u].src] = up[u].path
       /\ Accounted(data[up[u].src])

UploadersOK == \A u \in Uploaders : UploaderOK(u)

ArchiveOK == \A p \in CleanPaths : archive[p] # NoFile => Accounted(archive[p])

UploadsInv ==
  UploadTypes /\ CleanOK /\ MoverOK /\ UploadersOK /\ ArchiveOK /\ SentBeforeGone

-----------------------------------------------------------------------------
USE UploaderAssumptions

LEMMA InitUploads == UploaderInit => UploadsInv
<1> SUFFICES ASSUME UploaderInit PROVE UploadsInv
  BY Zenon
<1> USE DEF UploaderInit
<1>1. UploadTypes
  BY Zenon DEF UploadTypes, UpRecord, OffUp, Contents
<1>2. CleanOK /\ MoverOK /\ ArchiveOK /\ SentBeforeGone
  BY Zenon DEF CleanOK, MoverOK, ArchiveOK, SentBeforeGone
<1>3. UploadersOK
  BY Zenon DEF UploadersOK, UploaderOK, OffUp
<1> QED
  BY Zenon, <1>1, <1>2, <1>3 DEF UploadsInv

\* A step of one Uploader that does not touch Clean, and that takes up no new path.
LocalStep(u) ==
  /\ UNCHANGED PathKept
  /\ overlapped \subseteq overlapped' /\ sent \subseteq sent'
  /\ up' \in [Uploaders -> UpRecord]
  /\ \A v \in Uploaders : v # u => up'[v] = up[v]
  /\ up'[u].path \in {up[u].path, NoFile}

LEMMA LocalStepInv ==
  ASSUME UploadsInv, NEW u \in Uploaders, LocalStep(u), UploaderOK(u)',
         archive' \in [CleanPaths -> Contents \cup {NoFile}], ArchiveOK'
  PROVE  UploadsInv'
<1> USE DEF LocalStep, PathKept
<1>1. UploadTypes'
  BY Zenon DEF UploadsInv, UploadTypes
<1>2. CleanOK'
  BY Zenon DEF UploadsInv, CleanOK
<1>3. MoverOK'
  <2>1. \A p : p # NoFile /\ Working(p)' => Working(p)
    BY Zenon DEF Working
  <2>2. mover # NoFile => at[mover.move] # NoFile
    BY DEF UploadsInv, UploadTypes
  <2> QED
    BY Zenon, <2>1, <2>2 DEF UploadsInv, MoverOK
<1>4. ASSUME NEW v \in Uploaders PROVE UploaderOK(v)'
  <2>1. CASE v = u
    BY Zenon, <2>1
  <2>2. CASE v # u
    <3>1. \A x : Accounted(x) => Accounted(x)'
      BY Zenon DEF Accounted
    <3> QED
      BY ZenonT(60), <2>2, <3>1 DEF UploadsInv, UploadersOK, UploaderOK
  <2> QED
    BY Zenon, <2>1, <2>2
<1>5. SentBeforeGone'
  BY Zenon DEF UploadsInv, SentBeforeGone
<1> QED
  BY Zenon, <1>1, <1>2, <1>3, <1>4, <1>5 DEF UploadsInv, UploadersOK

LEMMA GotoEffect ==
  ASSUME UploadTypes, NEW u \in Uploaders,
         NEW pc \in {"create", "copy", "src", "dest", "archive", "remove", "end"}, GotoUp(u, pc)
  PROVE  /\ up' \in [Uploaders -> UpRecord]
         /\ \A v \in Uploaders : v # u => up'[v] = up[v]
         /\ up'[u].pc = pc /\ up'[u].path = up[u].path
         /\ up'[u].file = up[u].file /\ up'[u].src = up[u].src
<1>1. up[u] \in UpRecord
  BY Zenon DEF UploadTypes
<1>2. up'[u] = [up[u] EXCEPT !.pc = pc]
  BY Zenon DEF UploadTypes, GotoUp
<1>3. up'[u] \in UpRecord
  BY Zenon, <1>1, <1>2 DEF UpRecord
<1> QED
  BY <1>1, <1>2, <1>3 DEF UploadTypes, GotoUp, UpRecord

LEMMA NextEffect ==
  ASSUME UploadTypes, NEW u \in Uploaders, NextUpload(u)
  PROVE  /\ up' \in [Uploaders -> UpRecord]
         /\ \A v \in Uploaders : v # u => up'[v] = up[v]
         /\ up'[u].pc = "next" /\ up'[u].path = NoFile
<1>1. up[u] \in UpRecord
  BY Zenon DEF UploadTypes
<1>2. up'[u] = [up[u] EXCEPT !.pc = "next", !.path = NoFile, !.file = NoFile, !.src = NoFile]
  BY Zenon DEF UploadTypes, NextUpload
<1>3. up'[u] \in UpRecord
  BY Zenon, <1>1, <1>2 DEF UpRecord
<1> QED
  BY <1>1, <1>2, <1>3 DEF UploadTypes, NextUpload, UpRecord

\* An Uploader that goes on to its next file, or stops, while nothing else changes.
LEMMA IdleInv ==
  ASSUME UploadsInv, NEW u \in Uploaders, UNCHANGED <<PathKept, overlapped, archive, sent>>,
         up' \in [Uploaders -> UpRecord], \A v \in Uploaders : v # u => up'[v] = up[v],
         up'[u].pc \in {"off", "start", "next", "end"}, up'[u].path = NoFile
  PROVE  UploadsInv'
<1>1. LocalStep(u)
  BY Zenon DEF LocalStep
<1>2. UploaderOK(u)'
  BY Zenon DEF UploaderOK
<1>3. archive' \in [CleanPaths -> Contents \cup {NoFile}] /\ ArchiveOK'
  BY Zenon DEF UploadsInv, UploadTypes, ArchiveOK, Accounted
<1> QED
  BY Zenon, <1>1, <1>2, <1>3, LocalStepInv

LEMMA NextUploadInv ==
  ASSUME UploadsInv, NEW u \in Uploaders, NextUpload(u),
         UNCHANGED <<PathKept, overlapped, archive, sent>>
  PROVE  UploadsInv'
<1>1. UploadTypes
  BY Zenon DEF UploadsInv
<1> QED
  BY Zenon, <1>1, NextEffect, IdleInv

LEMMA OffUpOff == OffUp = [OffUp EXCEPT !.pc = "off"]
BY DEF OffUp

LEMMA OffInv ==
  ASSUME UploadsInv, NEW u \in Uploaders, NEW pc \in {"off", "start"},
         up' = [up EXCEPT ![u] = [OffUp EXCEPT !.pc = pc]],
         UNCHANGED <<PathKept, overlapped, archive, sent>>
  PROVE  UploadsInv'
<1>1. [OffUp EXCEPT !.pc = pc] \in UpRecord
  BY Zenon DEF OffUp, UpRecord
<1>2. up'[u] = [OffUp EXCEPT !.pc = pc]
  BY Zenon DEF UploadsInv, UploadTypes
<1>3. up'[u].pc = pc /\ up'[u].path = NoFile
  BY Zenon, <1>2 DEF OffUp
<1>4. up' \in [Uploaders -> UpRecord] /\ \A v \in Uploaders : v # u => up'[v] = up[v]
  BY Zenon, <1>1 DEF UploadsInv, UploadTypes
<1> QED
  BY Zenon, <1>3, <1>4, IdleInv

LEMMA WalkCleanInv ==
  ASSUME UploadsInv, NEW u \in Uploaders, WalkClean(u) PROVE UploadsInv'
<1>0. up[u].path = NoFile /\ up[u] \in UpRecord /\ UNCHANGED <<PathKept, overlapped, archive, sent>>
  BY Zenon DEF UploadsInv, UploadersOK, UploaderOK, WalkClean, UploadTypes
<1>1. CASE GotoUp(u, "end")
  <2>1. UploadTypes
    BY Zenon DEF UploadsInv
  <2> QED
    BY Zenon, <1>0, <1>1, <2>1, GotoEffect, IdleInv
<1>2. CASE up' = [up EXCEPT ![u].pc = "next",
                           ![u].files = {p \in CleanPaths : p[1] \in LocalDirs[u] /\ clean[p] # NoFile}]
  <2> DEFINE S == {p \in CleanPaths : p[1] \in LocalDirs[u] /\ clean[p] # NoFile}
  <2>0. S \in SUBSET CleanPaths
    BY Zenon
  <2> HIDE DEF S
  <2>1. up'[u] = [up[u] EXCEPT !.pc = "next", !.files = S]
    BY Zenon, <1>2 DEF UploadsInv, UploadTypes, S
  <2>2. up'[u] \in UpRecord /\ up'[u].pc = "next" /\ up'[u].path = NoFile
    BY Zenon, <1>0, <2>0, <2>1 DEF UpRecord
  <2>3. up' \in [Uploaders -> UpRecord] /\ \A v \in Uploaders : v # u => up'[v] = up[v]
    BY Zenon, <1>2, <2>2 DEF UploadsInv, UploadTypes
  <2> QED
    BY Zenon, <1>0, <2>2, <2>3, IdleInv
<1> QED
  BY Zenon, <1>1, <1>2 DEF WalkClean

LEMMA EndUploadInv ==
  ASSUME UploadsInv, NEW u \in Uploaders, EndUpload(u) PROVE UploadsInv'
<1>1. up[u].path = NoFile /\ UploadTypes
  BY Zenon DEF UploadsInv, UploadersOK, UploaderOK, EndUpload
<1> QED
  BY Zenon, <1>1, GotoEffect, IdleInv DEF EndUpload

LEMMA CreateRemoteInv ==
  ASSUME UploadsInv, NEW u \in Uploaders, CreateRemote(u) PROVE UploadsInv'
<1>0. UNCHANGED <<PathKept, overlapped, archive, sent>> /\ UploadTypes
  BY Zenon DEF CreateRemote, UploadsInv
<1>1. CASE NextUpload(u)
  BY Zenon, <1>0, <1>1, NextUploadInv
<1>2. CASE GotoUp(u, "copy")
  <2>1. /\ up' \in [Uploaders -> UpRecord] /\ \A v \in Uploaders : v # u => up'[v] = up[v]
        /\ up'[u].pc = "copy" /\ up'[u].path = up[u].path /\ up'[u].file = up[u].file
    BY Zenon, <1>0, <1>2, GotoEffect
  <2>2. up[u].pc = "create" /\ UploaderOK(u)
    BY Zenon DEF CreateRemote, UploadsInv, UploadersOK
  <2>3. \A x : Accounted(x) => Accounted(x)'
    BY Zenon, <1>0 DEF Accounted
  <2>4. UploaderOK(u)'
    BY Zenon, <1>0, <2>1, <2>2, <2>3 DEF UploaderOK, PathKept
  <2>5. LocalStep(u)
    BY Zenon, <1>0, <2>1 DEF LocalStep
  <2>6. archive' \in [CleanPaths -> Contents \cup {NoFile}] /\ ArchiveOK'
    BY Zenon, <1>0, <2>3 DEF UploadsInv, UploadTypes, ArchiveOK
  <2> QED
    BY Zenon, <2>4, <2>5, <2>6, LocalStepInv
<1> QED
  BY Zenon, <1>1, <1>2 DEF CreateRemote

LEMMA CopyToRemoteInv ==
  ASSUME UploadsInv, NEW u \in Uploaders, CopyToRemote(u) PROVE UploadsInv'
<1>0. UNCHANGED <<PathKept, overlapped, archive>> /\ UploadTypes
  BY Zenon DEF CopyToRemote, UploadsInv
<1>1. CASE NextUpload(u) /\ UNCHANGED sent
  BY Zenon, <1>0, <1>1, NextUploadInv
<1>2. CASE sent' = sent \cup {<<u, data[up[u].file]>>} /\ GotoUp(u, "src")
  <2>1. /\ up' \in [Uploaders -> UpRecord] /\ \A v \in Uploaders : v # u => up'[v] = up[v]
        /\ up'[u].pc = "src" /\ up'[u].path = up[u].path
    BY Zenon, <1>0, <1>2, GotoEffect
  <2>2. up[u].pc = "copy" /\ UploaderOK(u)
    BY Zenon DEF CopyToRemote, UploadsInv, UploadersOK
  <2>3. \A x : Accounted(x) => Accounted(x)'
    BY Zenon, <1>0, <1>2 DEF Accounted
  <2>4. Accounted(data[up[u].file])'
    <3>1. data' = data /\ up'[u].file = up[u].file
      BY Zenon, <1>0, <1>2, GotoEffect DEF PathKept
    <3>2. <<u, data[up[u].file]>> \in sent'
      BY Zenon, <1>2
    <3> QED
      BY Zenon, <3>1, <3>2 DEF Accounted
  <2>5. UploaderOK(u)'
    <3>1. up'[u].file = up[u].file
      BY Zenon, <1>0, <1>2, GotoEffect
    <3> QED
      BY Zenon, <1>0, <2>1, <2>2, <2>3, <2>4, <3>1 DEF UploaderOK, PathKept
  <2>6. LocalStep(u)
    BY Zenon, <1>0, <1>2, <2>1 DEF LocalStep
  <2>7. archive' \in [CleanPaths -> Contents \cup {NoFile}] /\ ArchiveOK'
    BY Zenon, <1>0, <2>3 DEF UploadsInv, UploadTypes, ArchiveOK
  <2> QED
    BY Zenon, <2>5, <2>6, <2>7, LocalStepInv
<1> QED
  BY Zenon, <1>1, <1>2 DEF CopyToRemote

LEMMA OpenForArchiveInv ==
  ASSUME UploadsInv, NEW u \in Uploaders, OpenForArchive(u) PROVE UploadsInv'
<1>0. UNCHANGED <<PathKept, overlapped, archive, sent>> /\ UploadTypes
  BY Zenon DEF OpenForArchive, UploadsInv
<1>1. CASE NextUpload(u)
  BY Zenon, <1>0, <1>1, NextUploadInv
<1>2. CASE /\ clean[up[u].path] # NoFile
           /\ up' = [up EXCEPT ![u].pc = "dest", ![u].src = clean[up[u].path]]
  <2>1. up[u].pc = "src" /\ UploaderOK(u) /\ CleanOK
    BY Zenon DEF OpenForArchive, UploadsInv, UploadersOK
  <2> DEFINE f == clean[up[u].path]
  <2>2. /\ up[u].path \in CleanPaths
        /\ f \in Moves /\ f \in begun /\ at[f] = up[u].path /\ Accounted(data[f])
    BY <1>0, <1>2, <2>1 DEF UploaderOK, CleanOK, UploadTypes
  <2>3. up[u] \in UpRecord /\ up'[u] = [up[u] EXCEPT !.pc = "dest", !.src = f]
    BY Zenon, <1>0, <1>2 DEF UploadTypes
  <2> HIDE DEF f
  <2>4. up'[u] \in UpRecord /\ up'[u].pc = "dest" /\ up'[u].path = up[u].path /\ up'[u].src = f
    BY Zenon, <2>2, <2>3 DEF UpRecord
  <2>5. up' \in [Uploaders -> UpRecord] /\ \A v \in Uploaders : v # u => up'[v] = up[v]
    BY Zenon, <1>0, <1>2, <2>4 DEF UploadTypes
  <2>6. \A x : Accounted(x) => Accounted(x)'
    BY Zenon, <1>0 DEF Accounted
  <2>7. UploaderOK(u)'
    BY Zenon, <1>0, <2>1, <2>2, <2>4, <2>6 DEF UploaderOK, PathKept
  <2>8. LocalStep(u)
    BY Zenon, <1>0, <2>4, <2>5 DEF LocalStep
  <2>9. archive' \in [CleanPaths -> Contents \cup {NoFile}] /\ ArchiveOK'
    BY Zenon, <1>0, <2>6 DEF UploadsInv, UploadTypes, ArchiveOK
  <2> QED
    BY Zenon, <2>7, <2>8, <2>9, LocalStepInv
<1> QED
  BY Zenon, <1>1, <1>2 DEF OpenForArchive

\* Both steps write content that is accounted for to the archive.
LEMMA ArchiveStepInv ==
  ASSUME UploadsInv, NEW u \in Uploaders, up[u].pc \in {"dest", "archive"},
         UNCHANGED <<PathKept, overlapped, sent>>,
         NEW x \in Contents, Accounted(x), archive' = [archive EXCEPT ![up[u].path] = x],
         NEW pc \in {"archive", "remove"}, GotoUp(u, pc)
  PROVE  UploadsInv'
<1>1. UploadTypes /\ UploaderOK(u)
  BY Zenon DEF UploadsInv, UploadersOK
<1>2. /\ up' \in [Uploaders -> UpRecord] /\ \A v \in Uploaders : v # u => up'[v] = up[v]
      /\ up'[u].pc = pc /\ up'[u].path = up[u].path /\ up'[u].src = up[u].src
  BY Zenon, <1>1, GotoEffect
<1>3. \A y : Accounted(y) => Accounted(y)'
  BY Zenon DEF Accounted
<1>4. UploaderOK(u)'
  BY Zenon, <1>1, <1>2, <1>3 DEF UploaderOK, PathKept
<1>5. LocalStep(u)
  BY Zenon, <1>2 DEF LocalStep
<1>6. archive' \in [CleanPaths -> Contents \cup {NoFile}]
  BY Zenon, <1>1 DEF UploadTypes
<1>7. ASSUME NEW p \in CleanPaths, archive'[p] # NoFile PROVE Accounted(archive[p])'
  <2>1. archive'[p] = x \/ archive'[p] = archive[p]
    BY Zenon, <1>1 DEF UploadTypes
  <2> QED
    BY Zenon, <1>3, <1>7, <2>1 DEF UploadsInv, ArchiveOK
<1>8. ArchiveOK'
  BY Zenon, <1>7 DEF ArchiveOK
<1> QED
  BY Zenon, <1>4, <1>5, <1>6, <1>8, LocalStepInv

LEMMA CreateArchiveInv ==
  ASSUME UploadsInv, NEW u \in Uploaders, CreateArchive(u) PROVE UploadsInv'
<1>1. CASE NextUpload(u) /\ UNCHANGED archive
  BY Zenon, <1>1, NextUploadInv DEF CreateArchive
<1>2. CASE archive' = [archive EXCEPT ![up[u].path] = Partial] /\ GotoUp(u, "archive")
  <2>1. Partial \in Contents /\ Accounted(Partial)
    BY Zenon DEF Contents, Accounted
  <2> QED
    BY Zenon, <1>2, <2>1, ArchiveStepInv DEF CreateArchive
<1> QED
  BY Zenon, <1>1, <1>2 DEF CreateArchive

LEMMA CopyToArchiveInv ==
  ASSUME UploadsInv, NEW u \in Uploaders, CopyToArchive(u) PROVE UploadsInv'
<1>1. CASE NextUpload(u) /\ UNCHANGED archive
  BY Zenon, <1>1, NextUploadInv DEF CopyToArchive
<1>2. CASE archive' = [archive EXCEPT ![up[u].path] = data[up[u].src]] /\ GotoUp(u, "remove")
  <2>1. data[up[u].src] \in Contents /\ Accounted(data[up[u].src])
    BY Zenon DEF CopyToArchive, UploadsInv, UploadTypes, UploadersOK, UploaderOK
  <2> QED
    BY Zenon, <1>2, <2>1, ArchiveStepInv DEF CopyToArchive
<1> QED
  BY Zenon, <1>1, <1>2 DEF CopyToArchive

LEMMA OpenLocalInv ==
  ASSUME UploadsInv, NEW u \in Uploaders, NEW p \in CleanPaths, OpenLocal(u, p)
  PROVE  UploadsInv'
<1>0. UNCHANGED <<PathKept, archive, sent>> /\ UploadTypes /\ up[u] \in UpRecord
  BY Zenon DEF OpenLocal, UploadsInv, UploadTypes
<1>1. CASE up' = [up EXCEPT ![u].files = @ \ {p}] /\ UNCHANGED overlapped
  <2>1. up[u].pc = "next" /\ up[u].path = NoFile /\ up[u].files \ {p} \in SUBSET CleanPaths
    BY Zenon, <1>0 DEF OpenLocal, UploadsInv, UploadersOK, UploaderOK, UpRecord
  <2>2. up'[u] = [up[u] EXCEPT !.files = up[u].files \ {p}]
    BY Zenon, <1>0, <1>1 DEF UploadTypes
  <2>3. up'[u] \in UpRecord /\ up'[u].pc = "next" /\ up'[u].path = NoFile
    BY Zenon, <1>0, <2>1, <2>2 DEF UpRecord
  <2>4. up' \in [Uploaders -> UpRecord] /\ \A v \in Uploaders : v # u => up'[v] = up[v]
    BY Zenon, <1>0, <1>1, <2>3 DEF UploadTypes
  <2> QED
    BY Zenon, <1>0, <1>1, <2>3, <2>4, IdleInv
<1>2. CASE /\ clean[p] # NoFile
           /\ up' = [up EXCEPT ![u].pc = "create", ![u].files = @ \ {p}, ![u].path = p,
                               ![u].file = clean[p]]
           /\ overlapped' = IF mover # NoFile /\ at[mover.move] = p
                            THEN overlapped \cup {mover.move} ELSE overlapped
  <2>1. clean[p] \in Moves /\ clean[p] \in begun /\ at[clean[p]] = p
    BY Zenon, <1>0, <1>2 DEF UploadsInv, CleanOK, UploadTypes
  <2>2. up'[u] = [up[u] EXCEPT !.pc = "create", !.files = up[u].files \ {p}, !.path = p,
                               !.file = clean[p]]
    BY Zenon, <1>0, <1>2 DEF UploadTypes
  <2>3. up'[u] \in UpRecord /\ up'[u].pc = "create" /\ up'[u].path = p /\ up'[u].file = clean[p]
    <3> DEFINE rest == up[u].files \ {p}
    <3>1. rest \in SUBSET CleanPaths
      BY Zenon, <1>0 DEF UpRecord
    <3> HIDE DEF rest
    <3>2. up'[u] = [up[u] EXCEPT !.pc = "create", !.files = rest, !.path = p, !.file = clean[p]]
      BY Zenon, <2>2 DEF rest
    <3> QED
      BY ZenonT(60), <1>0, <2>1, <3>1, <3>2 DEF UpRecord
  <2>4. up' \in [Uploaders -> UpRecord] /\ \A v \in Uploaders : v # u => up'[v] = up[v]
    BY <1>0, <1>2, <2>3 DEF UploadTypes
  <2>5. overlapped \subseteq overlapped'
    BY Zenon, <1>2
  <2>6. \A x : Accounted(x) => Accounted(x)'
    BY Zenon, <1>0, <2>5 DEF Accounted
  <2>7. UploadTypes' /\ CleanOK' /\ ArchiveOK' /\ SentBeforeGone'
    <3> USE DEF PathKept
    <3>1. UploadTypes'
      BY Zenon, <1>0, <2>4 DEF UploadTypes
    <3>2. CleanOK'
      BY Zenon, <1>0 DEF UploadsInv, CleanOK
    <3>3. ArchiveOK'
      BY Zenon, <1>0, <2>6 DEF UploadsInv, ArchiveOK
    <3>4. SentBeforeGone'
      BY Zenon, <1>0, <2>5 DEF UploadsInv, SentBeforeGone
    <3> QED
      BY Zenon, <3>1, <3>2, <3>3, <3>4
  <2>8. MoverOK'
    <3>1. \A q : Working(q)' => q = p \/ q = NoFile \/ Working(q)
      BY Zenon, <2>3, <2>4 DEF Working
    <3>2. mover # NoFile => at[mover.move] # NoFile
      BY <1>0 DEF UploadTypes
    <3>3. mover # NoFile /\ at[mover.move] = p => mover.move \in overlapped'
      BY Zenon, <1>2
    <3> QED
      BY Zenon, <1>0, <2>5, <3>1, <3>2, <3>3 DEF UploadsInv, MoverOK, PathKept
  <2>9. UploadersOK'
    <3>1. UploaderOK(u)'
      BY Zenon, <1>0, <2>1, <2>3 DEF UploaderOK, PathKept
    <3>2. ASSUME NEW v \in Uploaders, v # u PROVE UploaderOK(v)'
      BY ZenonT(60), <1>0, <2>4, <2>6, <3>2 DEF UploadsInv, UploadersOK, UploaderOK, PathKept
    <3> QED
      BY Zenon, <3>1, <3>2 DEF UploadersOK
  <2> QED
    BY Zenon, <2>7, <2>8, <2>9 DEF UploadsInv
<1> QED
  BY Zenon, <1>1, <1>2 DEF OpenLocal

LEMMA RemoveFromCleanInv ==
  ASSUME UploadsInv, NEW u \in Uploaders, RemoveFromClean(u) PROVE UploadsInv'
<1>0. /\ UNCHANGED <<data, mover, begun, at, settled, replaced, overlapped, archive, sent>>
      /\ UploadTypes /\ NextUpload(u)
  BY Zenon DEF RemoveFromClean, UploadsInv
<1>1. CASE UNCHANGED clean
  BY Zenon, <1>0, <1>1, NextUploadInv DEF PathKept
<1>2. CASE clean' = [clean EXCEPT ![up[u].path] = NoFile]
  <2>1. /\ up[u].path \in CleanPaths
        /\ clean[up[u].path] # NoFile => Accounted(data[clean[up[u].path]])
    BY Zenon DEF RemoveFromClean, UploadsInv, UploadersOK, UploaderOK
  <2>2. /\ up' \in [Uploaders -> UpRecord] /\ \A v \in Uploaders : v # u => up'[v] = up[v]
        /\ up'[u].pc = "next" /\ up'[u].path = NoFile
    BY Zenon, <1>0, NextEffect
  <2>3. \A q \in CleanPaths : clean'[q] = IF q = up[u].path THEN NoFile ELSE clean[q]
    BY Zenon, <1>0, <1>2 DEF UploadTypes
  <2>4. \A x : Accounted(x)' <=> Accounted(x)
    BY Zenon, <1>0 DEF Accounted
  <2>5. UploadTypes' /\ CleanOK'
    <3>1. clean' \in [CleanPaths -> Moves \cup {NoFile}]
      BY Zenon, <1>0, <1>2 DEF UploadTypes
    <3>2. UploadTypes'
      BY Zenon, <1>0, <2>2, <3>1 DEF UploadTypes
    <3>3. CleanOK'
      BY Zenon, <1>0, <2>3 DEF UploadsInv, CleanOK
    <3> QED
      BY Zenon, <3>2, <3>3
  <2>6. ArchiveOK'
    BY Zenon, <1>0, <2>4 DEF UploadsInv, ArchiveOK
  <2>7. MoverOK'
    <3>1. \A q : q # NoFile /\ Working(q)' => Working(q)
      BY Zenon, <2>2 DEF Working
    <3>2. mover # NoFile => at[mover.move] \in CleanPaths
      BY Zenon, <1>0 DEF UploadTypes
    <3>3. Working(up[u].path)
      BY Zenon DEF Working
    <3>4. CASE mover # NoFile
      <4>1. PICK q \in CleanPaths : q = at[mover.move]
        BY Zenon, <3>2, <3>4
      <4>2. /\ mover.move \in begun /\ mover.file \in begun
            /\ at[mover.file] = q /\ data[mover.file] = Partial
            /\ clean[q] = mover.file \/ mover.move \in overlapped
            /\ Working(q) => mover.move \in overlapped
        BY Zenon, <3>4, <4>1 DEF UploadsInv, MoverOK
      <4>3. clean'[q] = mover.file \/ mover.move \in overlapped
        BY Zenon, <2>3, <3>3, <4>2
      <4>4. Working(q)' => mover.move \in overlapped
        BY Zenon, <3>1, <4>2
      <4>5. at'[mover'.move] = q
        BY Zenon, <1>0, <4>1
      <4> QED
        BY Zenon, <1>0, <4>1, <4>2, <4>3, <4>4, <4>5 DEF MoverOK, Working
    <3> QED
      BY Zenon, <1>0, <3>4 DEF MoverOK
  <2>8. UploadersOK'
    <3>1. UploaderOK(u)'
      BY Zenon, <2>2 DEF UploaderOK
    <3>2. ASSUME NEW v \in Uploaders, v # u PROVE UploaderOK(v)'
      <4>1. UploaderOK(v) /\ up'[v] = up[v]
        BY Zenon, <2>2, <3>2 DEF UploadsInv, UploadersOK
      <4>2. \A q \in CleanPaths : clean'[q] # NoFile => clean'[q] = clean[q]
        BY Zenon, <2>3
      <4>3. ASSUME NEW q \in CleanPaths, clean[q] # NoFile => Accounted(data[clean[q]])
            PROVE  clean'[q] # NoFile => Accounted(data[clean[q]])'
        BY Zenon, <1>0, <2>4, <4>2, <4>3
      <4>4. CASE up[v].pc \in {"create", "copy"}
        BY Zenon, <1>0, <2>4, <4>1, <4>2, <4>4 DEF UploaderOK
      <4>5. CASE up[v].pc \in {"src", "dest", "archive", "remove"}
        BY Zenon, <1>0, <2>4, <4>1, <4>3, <4>5 DEF UploaderOK
      <4>6. CASE up[v].pc \notin {"create", "copy", "src", "dest", "archive", "remove"}
        BY Zenon, <4>1, <4>6 DEF UploaderOK
      <4> QED
        BY Zenon, <4>4, <4>5, <4>6
    <3> QED
      BY Zenon, <3>1, <3>2 DEF UploadersOK
  <2>9. SentBeforeGone'
    <3> SUFFICES ASSUME NEW m \in settled
                 PROVE  \/ clean'[at[m]] # NoFile /\ data[clean'[at[m]]] = m
                        \/ \E v \in Uploaders : <<v, m>> \in sent
                        \/ m \in replaced \/ m \in overlapped
      BY Zenon, <1>0 DEF SentBeforeGone
    <3>1. CASE clean[at[m]] # NoFile /\ data[clean[at[m]]] = m
      <4>1. CASE at[m] = up[u].path
        BY Zenon, <2>1, <3>1, <4>1, <1>0 DEF Accounted, UploadTypes
      <4>2. CASE at[m] # up[u].path
        BY Zenon, <1>0, <1>2, <3>1, <4>2 DEF UploadTypes
      <4> QED
        BY Zenon, <4>1, <4>2
    <3> QED
      BY Zenon, <3>1 DEF UploadsInv, SentBeforeGone
  <2> QED
    BY Zenon, <2>5, <2>6, <2>7, <2>8, <2>9 DEF UploadsInv
<1> QED
  BY Zenon, <1>1, <1>2 DEF RemoveFromClean

-----------------------------------------------------------------------------
(* FileWatcher's move.                                                     *)

LEMMA MoveBeginsInv ==
  ASSUME UploadsInv, NEW m \in Moves, MoveBegins(m) PROVE UploadsInv'
<1>1. UploadTypes /\ CleanOK /\ UploadersOK /\ ArchiveOK /\ SentBeforeGone
  BY Zenon DEF UploadsInv
<1>a. PICK p \in CleanPaths : p = at[m]
  BY Zenon, <1>1 DEF UploadTypes
<1>b. PICK f \in Moves : f = IF clean[p] = NoFile THEN m ELSE clean[p]
  BY Zenon, <1>1 DEF UploadTypes
<1>2. /\ mover = NoFile /\ m \notin begun /\ begun' = begun \cup {m}
      /\ clean' = [clean EXCEPT ![p] = f] /\ data' = [data EXCEPT ![f] = Partial]
      /\ replaced' = IF clean[p] = NoFile THEN replaced ELSE replaced \cup {data[f]}
      /\ mover' = [move |-> m, file |-> f]
      /\ overlapped' = IF Working(p) THEN overlapped \cup {m} ELSE overlapped
      /\ UNCHANGED <<at, settled, up, archive, sent>>
  BY Zenon, <1>a, <1>b DEF MoveBegins
<1>3. at[f] = p /\ f \in begun'
  BY Zenon, <1>1, <1>2, <1>a, <1>b DEF UploadTypes, CleanOK
<1>4. \A q \in CleanPaths : q # p /\ clean[q] # NoFile => clean[q] # f /\ clean[q] \in Moves
  BY Zenon, <1>1, <1>2, <1>3, <1>b DEF CleanOK, UploadTypes
<1>5. clean[p] # NoFile => clean[p] = f
  BY Zenon, <1>b
<1>7. /\ \A q \in CleanPaths : clean'[q] = IF q = p THEN f ELSE clean[q]
      /\ \A g \in Moves : data'[g] = IF g = f THEN Partial ELSE data[g]
  BY Zenon, <1>1, <1>2 DEF UploadTypes
<1>8. \A x : Accounted(x) => Accounted(x)'
  BY Zenon, <1>2 DEF Accounted
<1>9. UploadTypes'
  BY Zenon, <1>1, <1>2, <1>3 DEF UploadTypes, Contents
<1>10. CleanOK'
  <2>1. at' = at /\ begun \subseteq begun'
    BY Zenon, <1>2
  <2>2. ASSUME NEW q \in CleanPaths, clean'[q] # NoFile
        PROVE  clean'[q] \in begun' /\ at'[clean'[q]] = q
    <3>1. CASE q = p
      BY Zenon, <1>3, <1>7, <2>1, <3>1
    <3>2. CASE q # p
      <4>1. clean'[q] = clean[q]
        BY Zenon, <1>7, <3>2
      <4> QED
        BY Zenon, <1>1, <2>1, <2>2, <4>1 DEF CleanOK
    <3> QED
      BY Zenon, <3>1, <3>2
  <2> QED
    BY Zenon, <2>2 DEF CleanOK
<1>11. MoverOK'
  <2>1. mover'.move = m /\ mover'.file = f /\ m \in begun' /\ at'[m] = p /\ at' = at
    BY Zenon, <1>2, <1>a
  <2>2. Working(p)' => m \in overlapped'
    BY Zenon, <1>2 DEF Working
  <2> QED
    BY Zenon, <1>3, <1>7, <2>1, <2>2 DEF MoverOK
<1>12. Accounted(Partial)'
  BY Zenon DEF Accounted
<1>13. ASSUME NEW u \in Uploaders PROVE UploaderOK(u)'
  <2>1. up' = up /\ at' = at /\ begun \subseteq begun' /\ UploaderOK(u)
    BY Zenon, <1>1, <1>2 DEF UploadersOK
  <2>2. up[u].path \in CleanPaths => \/ up[u].path = p /\ clean'[p] = f /\ data'[f] = Partial
                                    \/ /\ clean'[up[u].path] = clean[up[u].path]
                                       /\ clean[up[u].path] # NoFile =>
                                            data'[clean[up[u].path]] = data[clean[up[u].path]]
    BY Zenon, <1>3, <1>4, <1>7
  <2>3. up[u].src \in Moves => data'[up[u].src] \in {Partial, data[up[u].src]}
    BY Zenon, <1>7
  <2>4. up[u].path \in CleanPaths /\ clean'[up[u].path] # NoFile
          /\ (clean[up[u].path] # NoFile => Accounted(data[clean[up[u].path]]))
          => Accounted(data[clean[up[u].path]])'
    BY Zenon, <1>8, <1>12, <2>1, <2>2
  <2>5. up[u].pc \in {"create", "copy"} /\ clean'[up[u].path] # NoFile =>
          clean'[up[u].path] = up[u].file \/ Accounted(data[clean[up[u].path]])'
    BY Zenon, <1>8, <1>12, <2>1, <2>2 DEF UploaderOK
  <2>6. up[u].pc \in {"dest", "archive"} => Accounted(data[up[u].src])'
    BY Zenon, <1>8, <1>12, <2>1, <2>3 DEF UploaderOK
  <2> QED
    BY Zenon, <2>1, <2>4, <2>5, <2>6 DEF UploaderOK
<1>14. UploadersOK'
  BY Zenon, <1>13 DEF UploadersOK
<1>15. ArchiveOK'
  BY Zenon, <1>1, <1>2, <1>8 DEF ArchiveOK
<1>16. SentBeforeGone'
  <2> SUFFICES ASSUME NEW x \in settled
               PROVE  \/ clean'[at[x]] # NoFile /\ data'[clean'[at[x]]] = x
                      \/ \E u \in Uploaders : <<u, x>> \in sent
                      \/ x \in replaced' \/ x \in overlapped'
    BY Zenon, <1>2 DEF SentBeforeGone
  <2>1. x \in Moves /\ at[x] \in CleanPaths
    BY Zenon, <1>1 DEF UploadTypes
  <2>2. CASE clean[at[x]] # NoFile /\ data[clean[at[x]]] = x
    <3>1. CASE at[x] = p
      BY Zenon, <1>2, <1>5, <2>2, <3>1
    <3>2. CASE at[x] # p
      BY Zenon, <1>4, <1>7, <2>1, <2>2, <3>2
    <3> QED
      BY Zenon, <3>1, <3>2
  <2> QED
    BY Zenon, <1>1, <1>2, <2>2 DEF SentBeforeGone
<1> QED
  BY Zenon, <1>9, <1>10, <1>11, <1>14, <1>15, <1>16 DEF UploadsInv

LEMMA MoveEndsInv == ASSUME UploadsInv, MoveEnds PROVE UploadsInv'
<1>1. UploadTypes /\ CleanOK /\ MoverOK /\ UploadersOK /\ ArchiveOK /\ SentBeforeGone
  BY Zenon DEF UploadsInv
<1>a. PICK m \in Moves : m = mover.move
  BY Zenon, <1>1 DEF UploadTypes, MoveEnds
<1>b. PICK f \in Moves : f = mover.file
  BY Zenon, <1>1 DEF UploadTypes, MoveEnds
<1>2. /\ mover # NoFile /\ mover' = NoFile
      /\ data' = [data EXCEPT ![f] = m] /\ settled' = settled \cup {m}
      /\ overlapped' = IF Working(at[m]) THEN overlapped \cup {m} ELSE overlapped
      /\ UNCHANGED <<clean, begun, at, replaced, up, archive, sent>>
  BY Zenon, <1>a, <1>b DEF MoveEnds
<1>3. /\ at[f] = at[m] /\ data[f] = Partial
      /\ clean[at[m]] = f \/ m \in overlapped
  BY Zenon, <1>1, <1>2, <1>a, <1>b DEF MoverOK
<1>4. \A g \in Moves : data'[g] = IF g = f THEN m ELSE data[g]
  BY Zenon, <1>1, <1>2 DEF UploadTypes
<1>5. \A x : Accounted(x) => Accounted(x)'
  BY Zenon, <1>2 DEF Accounted
<1>6. UploadTypes'
  BY Zenon, <1>1, <1>2, <1>3 DEF UploadTypes, Contents
<1>7. CleanOK' /\ ArchiveOK' /\ MoverOK'
  BY Zenon, <1>1, <1>2, <1>5 DEF CleanOK, ArchiveOK, MoverOK
<1>8. ASSUME NEW u \in Uploaders PROVE UploaderOK(u)'
  <2>1. up' = up /\ at' = at /\ begun' = begun /\ clean' = clean /\ UploaderOK(u)
    BY Zenon, <1>1, <1>2 DEF UploadersOK
  <2>2. up[u].path = at[m] => Accounted(m)'
    BY Zenon, <1>2 DEF Working, Accounted
  <2>3. up[u].path \in CleanPaths /\ clean[up[u].path] # NoFile =>
          clean[up[u].path] \in Moves /\ at[clean[up[u].path]] = up[u].path
    BY Zenon, <1>1 DEF UploadTypes, CleanOK
  <2>4. \A g \in Moves : at[g] = up[u].path /\ Accounted(data[g]) => Accounted(data[g])'
    <3> TAKE g \in Moves
    <3>1. CASE g = f
      <4>1. data'[g] = m
        BY Zenon, <1>4, <3>1
      <4> QED
        BY Zenon, <1>3, <2>2, <3>1, <4>1
    <3>2. CASE g # f
      <4>1. data'[g] = data[g]
        BY Zenon, <1>4, <3>2
      <4> QED
        BY Zenon, <1>5, <4>1
    <3> QED
      BY Zenon, <3>1, <3>2
  <2>5. up[u].path \in CleanPaths /\ clean[up[u].path] # NoFile
          /\ Accounted(data[clean[up[u].path]]) => Accounted(data[clean[up[u].path]])'
    BY Zenon, <2>1, <2>3, <2>4
  <2>6. up[u].pc \in {"dest", "archive"} => Accounted(data[up[u].src])'
    BY Zenon, <2>1, <2>4 DEF UploaderOK
  <2> QED
    BY Zenon, <2>1, <2>5, <2>6 DEF UploaderOK
<1>9. UploadersOK'
  BY Zenon, <1>8 DEF UploadersOK
<1>10. SentBeforeGone'
  <2> SUFFICES ASSUME NEW x \in settled'
               PROVE  \/ clean[at[x]] # NoFile /\ data'[clean[at[x]]] = x
                      \/ \E u \in Uploaders : <<u, x>> \in sent
                      \/ x \in replaced \/ x \in overlapped'
    BY Zenon, <1>2 DEF SentBeforeGone
  <2>1. CASE x = m
    BY Zenon, <1>2, <1>3, <1>4, <2>1 DEF Contents
  <2>2. CASE x \in settled
    <3>1. x \in Moves /\ x # Partial
      BY Zenon, <1>1, <2>2 DEF UploadTypes
    <3>2. CASE clean[at[x]] # NoFile /\ data[clean[at[x]]] = x
      <4>1. clean[at[x]] \in Moves
        BY Zenon, <1>1, <3>1, <3>2 DEF UploadTypes
      <4> QED
        BY Zenon, <1>3, <1>4, <3>1, <3>2, <4>1
    <3> QED
      BY Zenon, <1>1, <1>2, <2>2, <3>2 DEF SentBeforeGone
  <2> QED
    BY Zenon, <1>2, <2>1, <2>2
<1> QED
  BY Zenon, <1>6, <1>7, <1>9, <1>10 DEF UploadsInv

\* The move comes to nothing: an error, or the loss of the process with its Uploaders.
LEMMA MoveGoneInv ==
  ASSUME UploadsInv, mover' = NoFile, up' = up \/ UploadersCrash,
         UNCHANGED <<clean, data, begun, at, settled, replaced, overlapped, archive, sent>>
  PROVE  UploadsInv'
<1>1. \A x : Accounted(x)' <=> Accounted(x)
  BY Zenon DEF Accounted
<1>2. CleanOK' /\ MoverOK' /\ ArchiveOK' /\ SentBeforeGone'
  BY Zenon, <1>1 DEF UploadsInv, CleanOK, MoverOK, ArchiveOK, SentBeforeGone
<1>3. CASE up' = up
  <2>1. UploadTypes'
    BY Zenon, <1>3 DEF UploadsInv, UploadTypes
  <2>2. UploadersOK'
    BY Zenon, <1>1, <1>3 DEF UploadsInv, UploadersOK, UploaderOK
  <2> QED
    BY Zenon, <1>2, <2>1, <2>2 DEF UploadsInv
<1>4. CASE UploadersCrash
  <2>1. OffUp \in UpRecord /\ up' = [u \in Uploaders |-> OffUp]
    BY Zenon, <1>4 DEF UploadersCrash, OffUp, UpRecord
  <2>2. UploadTypes'
    BY Zenon, <2>1 DEF UploadsInv, UploadTypes
  <2>3. UploadersOK'
    BY Zenon, <2>1 DEF UploadersOK, UploaderOK, OffUp
  <2> QED
    BY Zenon, <1>2, <2>2, <2>3 DEF UploadsInv
<1> QED
  BY Zenon, <1>3, <1>4

-----------------------------------------------------------------------------

\* Everything that can change what the invariant is about.
uploadState ==
  <<clean, data, mover, begun, at, settled, replaced, overlapped, up, archive, sent>>

LEMMA FrameUploads == ASSUME UploadsInv, UNCHANGED uploadState PROVE UploadsInv'
<1> USE DEF uploadState
<1>1. \A x : Accounted(x)' <=> Accounted(x)
  BY Zenon DEF Accounted
<1>2. UploadTypes' /\ CleanOK' /\ MoverOK' /\ ArchiveOK' /\ SentBeforeGone'
  BY Zenon, <1>1 DEF UploadsInv, UploadTypes, CleanOK, MoverOK, ArchiveOK, SentBeforeGone, Working
<1>3. UploadersOK'
  BY Zenon, <1>1 DEF UploadsInv, UploadersOK, UploaderOK
<1> QED
  BY Zenon, <1>2, <1>3 DEF UploadsInv

LEMMA UploadStepInv ==
  ASSUME UploadsInv, NEW u \in Uploaders, UploadStep(u) PROVE UploadsInv'
BY Zenon, WalkCleanInv, OpenLocalInv, CreateRemoteInv, CopyToRemoteInv, OpenForArchiveInv,
   CreateArchiveInv, CopyToArchiveInv, RemoveFromCleanInv, EndUploadInv DEF UploadStep

-----------------------------------------------------------------------------
INSTANCE FiniteSetTheorems

(***************************************************************************)
(* Rounds. wg.Add follows the go statement, so the wait group does not     *)
(* count the goroutine that was started last. What is inductive is that it *)
(* counts all the others (Counted): wg.Wait is reached only when no Add is *)
(* due, and then zero means that nobody runs.                              *)
(***************************************************************************)

RunSet(s) == {c \in Clients(s) : Running(c)}

\* The goroutine wg.Add has still to count.
Due(s) == IF loop[s] = "add" THEN 1 ELSE 0

Counted == \A s \in Loops : Cardinality(RunSet(s)) = wg[s] + Due(s)

RoundTypes ==
  /\ loop \in [Loops -> {"idle", "connect", "add"}]
  /\ todo \in [Loops -> SUBSET (Downloaders \cup Uploaders)]
  /\ wg \in [Loops -> Nat]
  /\ DOMAIN dl = Downloaders /\ \A d \in Downloaders : "pc" \in DOMAIN dl[d]
  /\ DOMAIN up = Uploaders /\ \A u \in Uploaders : "pc" \in DOMAIN up[u]

RoundsInv == RoundTypes /\ Counted /\ RoundsDisjoint

-----------------------------------------------------------------------------
USE TransfersAssumptions

LEMMA LoopOfClient == \A s \in Loops : \A c \in Clients(s) : Loop(c) = s
BY Zenon DEF Loops, Loop, Clients

LEMMA RunSetFinite == \A s \in Loops : IsFiniteSet(RunSet(s))
<1> TAKE s \in Loops
<1>1. IsFiniteSet(Clients(s)) /\ RunSet(s) \in SUBSET Clients(s)
  BY Zenon DEF Clients, RunSet
<1> QED
  BY Zenon, <1>1, FS_Subset

\* Nobody runs and nobody is counted.
LEMMA NobodyRuns ==
  ASSUME \A c \in Downloaders \cup Uploaders : ~Running(c),
         loop = [s \in Loops |-> "idle"], todo = [s \in Loops |-> {}], wg = [s \in Loops |-> 0]
  PROVE  Counted /\ RoundsDisjoint
<1>1. \A s \in Loops : RunSet(s) = {} /\ Due(s) = 0 /\ wg[s] = 0
  BY Zenon DEF RunSet, Clients, Due
<1>2. Counted
  <2>1. ASSUME NEW s \in Loops PROVE Cardinality(RunSet(s)) = 0
    BY <1>1, FS_EmptySet, Zenon
  <2> QED
    BY <1>1, <2>1 DEF Counted
<1>3. RoundsDisjoint
  BY Zenon DEF RoundsDisjoint, Clients
<1> QED
  BY Zenon, <1>2, <1>3

LEMMA OffTypes ==
  /\ "pc" \in DOMAIN Off /\ Off.pc = "off" /\ "pc" \in DOMAIN OffUp /\ OffUp.pc = "off"
BY Zenon DEF Off, OffUp

LEMMA InitRounds == Init => RoundsInv
<1> SUFFICES ASSUME Init PROVE RoundsInv
  BY Zenon
<1>1. dl = [d \in Downloaders |-> Off] /\ up = [u \in Uploaders |-> OffUp]
  BY Zenon DEF Init, DownloaderInit, UploaderInit
<1>2. RoundTypes
  BY Zenon, <1>1, OffTypes DEF RoundTypes, Init
<1>3. \A c \in Downloaders \cup Uploaders : ~Running(c)
  BY Zenon, <1>1, OffTypes DEF Running
<1> QED
  BY Zenon, <1>2, <1>3, NobodyRuns DEF RoundsInv, Init

\* A step that neither starts nor ends a goroutine, of the loop s or of a client of it.
Quiet ==
  /\ DOMAIN dl' = Downloaders /\ \A d \in Downloaders : "pc" \in DOMAIN dl'[d]
  /\ DOMAIN up' = Uploaders /\ \A u \in Uploaders : "pc" \in DOMAIN up'[u]
  /\ \A c \in Downloaders \cup Uploaders : Running(c)' <=> Running(c)

LEMMA QuietInv == ASSUME RoundsInv, Quiet, UNCHANGED <<loop, todo, wg>> PROVE RoundsInv'
<1>1. RoundTypes'
  BY Zenon DEF RoundsInv, RoundTypes, Quiet
<1>2. \A s \in Loops : RunSet(s)' = RunSet(s)
  BY Zenon DEF RunSet, Quiet, Clients
<1>3. Counted'
  BY Zenon, <1>2 DEF RoundsInv, Counted, Due
<1>4. RoundsDisjoint'
  BY Zenon DEF RoundsInv, RoundsDisjoint, Quiet, Clients
<1> QED
  BY Zenon, <1>1, <1>3, <1>4 DEF RoundsInv

LEMMA FrameQuiet ==
  ASSUME RoundsInv, UNCHANGED <<dl, up>> PROVE Quiet
BY Zenon DEF RoundsInv, RoundTypes, Quiet, Running

LEMMA DownloadQuiet ==
  ASSUME RoundsInv, NEW d \in Downloaders, DownloadStep(d), UNCHANGED up PROVE Quiet
<1>1. dl[d].pc # "off"
  BY Zenon DEF DownloadStep, ListDir, Visit, createLocalFile, CopyFile, DeleteRemote, EndWalk,
         unMarkFileInDownloadingState
<1>2. /\ DOMAIN dl' = Downloaders /\ \A e \in Downloaders : "pc" \in DOMAIN dl'[e]
      /\ \A e \in Downloaders : e # d => dl'[e] = dl[e]
      /\ dl'[d].pc # "off"
  <2> USE DEF RoundsInv, RoundTypes, Return, NextFile, Goto
  <2>1. CASE \E dir \in RemoteDirs : ListDir(d, dir)
    BY <2>1 DEF ListDir
  <2>2. CASE \E p \in RemotePaths : Visit(d, p)
    BY <2>2 DEF Visit
  <2>3. CASE createLocalFile(d)
    BY <2>3 DEF createLocalFile
  <2>4. CASE CopyFile(d)
    <3>1. CASE Return(d)
      BY Zenon, <3>1
    <3>2. CASE dl' = [dl EXCEPT ![d].defers = Append(@, Base(dl[d].cur)),
                                ![d].pc = IF d \in deleting THEN "delete" ELSE "walk",
                                ![d].cur = IF d \in deleting THEN dl[d].cur ELSE None]
      <4> DEFINE pc == IF d \in deleting THEN "delete" ELSE "walk"
                 cur == IF d \in deleting THEN dl[d].cur ELSE None
                 defers == Append(dl[d].defers, Base(dl[d].cur))
      <4>1. pc # "off"
        BY Zenon
      <4>2. dl' = [dl EXCEPT ![d] = [dl[d] EXCEPT !.defers = defers, !.pc = pc, !.cur = cur]]
        BY Zenon, <3>2
      <4> HIDE DEF pc, cur, defers
      <4> QED
        BY Zenon, <4>1, <4>2
    <3> QED
      BY Zenon, <2>4, <3>1, <3>2 DEF CopyFile
  <2>5. CASE DeleteRemote(d)
    BY <2>5 DEF DeleteRemote
  <2>6. CASE EndWalk(d)
    BY Zenon, <2>6 DEF EndWalk
  <2>7. CASE unMarkFileInDownloadingState(d)
    BY Zenon, <2>7 DEF unMarkFileInDownloadingState
  <2> QED
    BY Zenon, <2>1, <2>2, <2>3, <2>4, <2>5, <2>6, <2>7 DEF DownloadStep
<1> QED
  BY Zenon, <1>1, <1>2 DEF Quiet, Running, RoundsInv, RoundTypes

LEMMA UploadQuiet ==
  ASSUME RoundsInv, NEW u \in Uploaders, UploadStep(u), UNCHANGED dl PROVE Quiet
<1>1. up[u].pc # "off"
  BY Zenon DEF UploadStep, WalkClean, OpenLocal, CreateRemote, CopyToRemote, OpenForArchive,
         CreateArchive, CopyToArchive, RemoveFromClean, EndUpload
<1>2. /\ DOMAIN up' = Uploaders /\ \A v \in Uploaders : "pc" \in DOMAIN up'[v]
      /\ \A v \in Uploaders : v # u => up'[v] = up[v]
      /\ up'[u].pc # "off"
  <2> USE DEF RoundsInv, RoundTypes, GotoUp, NextUpload
  <2>1. CASE WalkClean(u)
    BY <2>1 DEF WalkClean
  <2>2. CASE \E p \in CleanPaths : OpenLocal(u, p)
    BY <2>2 DEF OpenLocal
  <2>3. CASE CreateRemote(u)
    BY <2>3 DEF CreateRemote
  <2>4. CASE CopyToRemote(u)
    BY <2>4 DEF CopyToRemote
  <2>5. CASE OpenForArchive(u)
    BY <2>5 DEF OpenForArchive
  <2>6. CASE CreateArchive(u)
    BY <2>6 DEF CreateArchive
  <2>7. CASE CopyToArchive(u)
    BY <2>7 DEF CopyToArchive
  <2>8. CASE RemoveFromClean(u)
    BY Zenon, <2>8 DEF RemoveFromClean
  <2>9. CASE EndUpload(u)
    BY Zenon, <2>9 DEF EndUpload
  <2> QED
    BY Zenon, <2>1, <2>2, <2>3, <2>4, <2>5, <2>6, <2>7, <2>8, <2>9 DEF UploadStep
<1> QED
  BY Zenon, <1>1, <1>2 DEF Quiet, Running, RoundsInv, RoundTypes

-----------------------------------------------------------------------------
(* The steps of the loops and of wg.Done.                                  *)

\* A client is started, from its loop's list.
LEMMA GoRounds ==
  ASSUME RoundsInv, NEW s \in Loops, NEW c \in Clients(s), Go(c) PROVE RoundsInv'
<1>1. Loop(c) = s /\ c \in Downloaders \cup Uploaders
  BY Zenon, LoopOfClient DEF Clients
<1>2. /\ loop[s] = "connect" /\ c \in todo[s] /\ wg' = wg
      /\ todo' = [todo EXCEPT ![s] = @ \ {c}] /\ loop' = [loop EXCEPT ![s] = "add"]
  BY Zenon, <1>1 DEF Go
<1>3. RoundTypes /\ Counted /\ RoundsDisjoint
  BY Zenon DEF RoundsInv
<1>4. /\ DOMAIN dl' = Downloaders /\ \A d \in Downloaders : "pc" \in DOMAIN dl'[d]
      /\ DOMAIN up' = Uploaders /\ \A u \in Uploaders : "pc" \in DOMAIN up'[u]
      /\ Running(c)'
      /\ \A b \in Downloaders \cup Uploaders : b # c => (Running(b)' <=> Running(b))
  <2>1. CASE s = "down"
    <3>1. c \in Downloaders /\ dl' = [dl EXCEPT ![c] = [Off EXCEPT !.pc = "walk", !.dirs = RemoteDirs]]
          /\ up' = up
      BY Zenon, <1>1, <2>1 DEF Go, StartWalk, Clients
    <3>2. "pc" \in DOMAIN [Off EXCEPT !.pc = "walk", !.dirs = RemoteDirs]
          /\ [Off EXCEPT !.pc = "walk", !.dirs = RemoteDirs].pc = "walk"
      BY Zenon DEF Off
    <3> QED
      BY Zenon, <1>3, <3>1, <3>2 DEF RoundTypes, Running
  <2>2. CASE s # "down"
    <3>1. c \in Uploaders /\ up' = [up EXCEPT ![c] = [OffUp EXCEPT !.pc = "start"]] /\ dl' = dl
      BY Zenon, <1>1, <2>2 DEF Go, StartUpload, Clients
    <3>2. "pc" \in DOMAIN [OffUp EXCEPT !.pc = "start"] /\ [OffUp EXCEPT !.pc = "start"].pc = "start"
      BY Zenon DEF OffUp
    <3> QED
      BY Zenon, <1>3, <3>1, <3>2 DEF RoundTypes, Running
  <2> QED
    BY Zenon, <2>1, <2>2
<1>5. RoundTypes'
  BY Zenon, <1>2, <1>3, <1>4 DEF RoundTypes
<1>6. ~Running(c)
  BY Zenon, <1>2, <1>3 DEF RoundsDisjoint
<1>7. RunSet(s)' = RunSet(s) \cup {c} /\ c \notin RunSet(s)
  BY Zenon, <1>4, <1>6 DEF RunSet, Clients
<1>8. \A t \in Loops : t # s => RunSet(t)' = RunSet(t)
  <2> SUFFICES ASSUME NEW t \in Loops, t # s PROVE RunSet(t)' = RunSet(t)
    BY Zenon
  <2>1. \A b \in Clients(t) : b # c /\ b \in Downloaders \cup Uploaders
    BY Zenon, <1>1, LoopOfClient DEF Clients
  <2>2. \A b \in Clients(t) : Running(b)' <=> Running(b)
    BY Zenon, <1>4, <2>1
  <2> QED
    BY Zenon, <2>2 DEF RunSet, Clients
<1>9. ASSUME NEW t \in Loops PROVE (Cardinality(RunSet(t)) = wg[t] + Due(t))'
  <2>1. CASE t = s
    <3>1. Cardinality(RunSet(s)') = Cardinality(RunSet(s)) + 1
      BY Zenon, <1>7, RunSetFinite, FS_AddElement
    <3>2. Due(s) = 0 /\ Due(s)' = 1
      BY Zenon, <1>2, <1>3 DEF Due, RoundTypes
    <3>3. Cardinality(RunSet(s)) = wg[s] + 0 /\ wg[s] \in Nat
      BY Zenon, <1>3, <3>2 DEF Counted, RoundTypes
    <3> QED
      BY <1>2, <2>1, <3>1, <3>2, <3>3
  <2>2. CASE t # s
    BY Zenon, <1>2, <1>3, <1>8, <2>2 DEF Counted, Due, RoundTypes
  <2> QED
    BY Zenon, <2>1, <2>2
<1>10. Counted'
  BY Zenon, <1>9 DEF Counted
<1>11. RoundsDisjoint'
  <2> SUFFICES ASSUME NEW t \in Loops, NEW b \in Clients(t), Running(b)'
               PROVE  b \notin todo'[t] /\ loop'[t] # "idle"
    BY Zenon DEF RoundsDisjoint, Clients
  <2>1. CASE b = c
    BY ZenonT(60), <1>1, <1>2, <1>3, <2>1, LoopOfClient DEF RoundTypes
  <2>2. CASE b # c
    <3>1. Running(b)
      BY Zenon, <1>4, <2>2 DEF Clients
    <3> QED
      BY Zenon, <1>2, <1>3, <3>1 DEF RoundsDisjoint, RoundTypes
  <2> QED
    BY Zenon, <2>1, <2>2
<1> QED
  BY Zenon, <1>5, <1>10, <1>11 DEF RoundsInv

\* The loops' own steps: no goroutine starts or ends.
LEMMA LoopRounds ==
  ASSUME RoundsInv, NEW s \in Loops,
         BeginRound(s) \/ Add(s) \/ Wait(s) \/ \E c \in Clients(s) : ConnectFails(c)
  PROVE  RoundsInv'
<1>1. RoundTypes /\ Counted /\ RoundsDisjoint
  BY Zenon DEF RoundsInv
<1>2. UNCHANGED <<dl, up>>
  BY Zenon DEF BeginRound, Add, Wait, ConnectFails, dlVars, upVars
<1>3. /\ \A t \in Loops : RunSet(t)' = RunSet(t)
      /\ \A t \in Loops : \A c \in Clients(t) : Running(c)' <=> Running(c)
  BY Zenon, <1>2 DEF RunSet, Running, Clients
<1>4. CASE BeginRound(s)
  <2>1. RoundTypes'
    BY Zenon, <1>1, <1>2, <1>4 DEF RoundTypes, BeginRound, Clients
  <2>2. Counted'
    BY Zenon, <1>1, <1>3, <1>4 DEF Counted, BeginRound, Due, RoundTypes
  <2>3. RoundsDisjoint'
    BY Zenon, <1>1, <1>3, <1>4 DEF RoundsDisjoint, BeginRound, RoundTypes
  <2> QED
    BY Zenon, <2>1, <2>2, <2>3 DEF RoundsInv
<1>5. CASE Add(s)
  <2>1. RoundTypes'
    BY <1>1, <1>2, <1>5 DEF RoundTypes, Add
  <2>2. ASSUME NEW t \in Loops PROVE (Cardinality(RunSet(t)) = wg[t] + Due(t))'
    <3>1. CASE t = s
      <4>1. wg'[s] = wg[s] + 1 /\ Due(s) = 1 /\ Due(s)' = 0 /\ wg[s] \in Nat
        BY Zenon, <1>1, <1>5 DEF Add, Due, RoundTypes
      <4>2. Cardinality(RunSet(s)) = wg[s] + 1
        BY Zenon, <1>1, <4>1 DEF Counted
      <4> QED
        BY <1>3, <3>1, <4>1, <4>2
    <3>2. CASE t # s
      BY Zenon, <1>1, <1>3, <1>5, <3>2 DEF Counted, Due, Add, RoundTypes
    <3> QED
      BY Zenon, <3>1, <3>2
  <2>3. RoundsDisjoint'
    BY Zenon, <1>1, <1>3, <1>5 DEF RoundsDisjoint, Add, RoundTypes
  <2> QED
    BY Zenon, <2>1, <2>2, <2>3 DEF RoundsInv, Counted
<1>6. CASE Wait(s)
  <2>1. RoundTypes'
    BY Zenon, <1>1, <1>2, <1>6 DEF RoundTypes, Wait
  <2>2. Counted'
    BY Zenon, <1>1, <1>3, <1>6 DEF Counted, Wait, Due, RoundTypes
  <2>3. RunSet(s) = {}
    <3>1. Cardinality(RunSet(s)) = 0
      <4>1. wg[s] = 0 /\ Due(s) = 0
        BY Zenon, <1>6 DEF Wait, Due
      <4>2. Cardinality(RunSet(s)) = wg[s] + Due(s)
        BY Zenon, <1>1 DEF Counted
      <4> QED
        BY <4>1, <4>2
    <3> QED
      BY Zenon, <3>1, RunSetFinite, FS_EmptySet
  <2>4. RoundsDisjoint'
    BY Zenon, <1>1, <1>3, <1>6, <2>3 DEF RoundsDisjoint, Wait, RoundTypes, RunSet
  <2> QED
    BY Zenon, <2>1, <2>2, <2>4 DEF RoundsInv
<1>7. ASSUME NEW c \in Clients(s), ConnectFails(c) PROVE RoundsInv'
  <2>1. todo' = [todo EXCEPT ![s] = @ \ {c}] /\ UNCHANGED <<loop, wg>>
    BY Zenon, <1>7, LoopOfClient DEF ConnectFails
  <2>2. RoundTypes'
    BY Zenon, <1>1, <1>2, <2>1 DEF RoundTypes
  <2>3. Counted'
    BY Zenon, <1>1, <1>3, <2>1 DEF Counted, Due
  <2>4. RoundsDisjoint'
    BY Zenon, <1>1, <1>3, <2>1 DEF RoundsDisjoint, RoundTypes
  <2> QED
    BY Zenon, <2>2, <2>3, <2>4 DEF RoundsInv
<1> QED
  BY Zenon, <1>4, <1>5, <1>6, <1>7

\* The process is lost: every goroutine is gone.
LEMMA LostRounds == ASSUME RoundsInv, Lost PROVE RoundsInv'
<1>1. /\ dl' = [d \in Downloaders |-> Off] /\ up' = [u \in Uploaders |-> OffUp]
      /\ loop' = [s \in Loops |-> "idle"] /\ todo' = [s \in Loops |-> {}]
      /\ wg' = [s \in Loops |-> 0]
  BY Zenon DEF Lost, DownloadersCrash, UploadersCrash
<1>2. RoundTypes'
  BY <1>1, OffTypes DEF RoundTypes
<1>3. \A c \in Downloaders \cup Uploaders : ~Running(c)'
  BY <1>1, OffTypes DEF Running
<1>4. \A s \in Loops : RunSet(s)' = {} /\ Due(s)' = 0 /\ wg'[s] = 0 /\ todo'[s] = {}
  BY Zenon, <1>1, <1>3 DEF RunSet, Clients, Due
<1>5. Counted'
  <2>1. ASSUME NEW s \in Loops PROVE Cardinality(RunSet(s)') = 0
    <3>1. Cardinality({}) = 0
      BY FS_EmptySet, Zenon
    <3> QED
      BY <1>4, <3>1, Zenon
  <2> QED
    BY <1>4, <2>1 DEF Counted
<1>6. RoundsDisjoint'
  BY Zenon, <1>3 DEF RoundsDisjoint, Clients
<1> QED
  BY Zenon, <1>2, <1>5, <1>6 DEF RoundsInv

\* A goroutine ends and is no longer counted; before wg.Add the process is lost.
LEMMA DoneRounds ==
  ASSUME RoundsInv, NEW s \in Loops, NEW c \in Clients(s), Done(c) PROVE RoundsInv'
<1>1. Loop(c) = s /\ c \in Downloaders \cup Uploaders
  BY LoopOfClient DEF Clients
<1>2. CASE wg[s] = 0
  BY Zenon, <1>1, <1>2, LostRounds DEF Done
<1>3. CASE wg[s] # 0
  <2>1. RoundTypes /\ Counted /\ RoundsDisjoint
    BY DEF RoundsInv
  <2>2. wg' = [wg EXCEPT ![s] = @ - 1] /\ loop' = loop /\ todo' = todo /\ Finished(c)
    BY Zenon, <1>1, <1>3 DEF Done
  <2>3. /\ DOMAIN dl' = Downloaders /\ \A d \in Downloaders : "pc" \in DOMAIN dl'[d]
        /\ DOMAIN up' = Uploaders /\ \A u \in Uploaders : "pc" \in DOMAIN up'[u]
        /\ Running(c) /\ ~Running(c)'
        /\ \A b \in Downloaders \cup Uploaders : b # c => (Running(b)' <=> Running(b))
    <3>1. CASE c \in Downloaders
      <4>1. dl' = [dl EXCEPT ![c] = Off] /\ up' = up
        BY Zenon, <1>1, <1>3, <3>1 DEF Done
      <4> QED
        BY Zenon, <2>1, <2>2, <3>1, <4>1, OffTypes DEF RoundTypes, Running, Finished
    <3>2. CASE c \notin Downloaders
      <4>1. up' = [up EXCEPT ![c] = OffUp] /\ dl' = dl /\ c \in Uploaders
        BY Zenon, <1>1, <1>3, <3>2 DEF Done
      <4> QED
        BY Zenon, <2>1, <2>2, <3>2, <4>1, OffTypes DEF RoundTypes, Running, Finished
    <3> QED
      BY Zenon, <3>1, <3>2
  <2>4. wg[s] \in Nat /\ wg[s] - 1 \in Nat /\ wg'[s] = wg[s] - 1
    BY <1>3, <2>1, <2>2 DEF RoundTypes
  <2>5. RoundTypes'
    BY Zenon, <2>1, <2>2, <2>3, <2>4 DEF RoundTypes
  <2>6. RunSet(s)' = RunSet(s) \ {c} /\ c \in RunSet(s)
    BY Zenon, <2>3 DEF RunSet, Clients
  <2>7. \A t \in Loops : t # s => RunSet(t)' = RunSet(t)
    <3> SUFFICES ASSUME NEW t \in Loops, t # s PROVE RunSet(t)' = RunSet(t)
      BY Zenon
    <3>1. \A b \in Clients(t) : b # c /\ b \in Downloaders \cup Uploaders
      BY Zenon, <1>1, LoopOfClient DEF Clients
    <3>2. \A b \in Clients(t) : Running(b)' <=> Running(b)
      BY Zenon, <2>3, <3>1
    <3> QED
      BY Zenon, <3>2 DEF RunSet, Clients
  <2>8. ASSUME NEW t \in Loops PROVE (Cardinality(RunSet(t)) = wg[t] + Due(t))'
    <3>1. CASE t = s
      <4>1. Cardinality(RunSet(s)') = Cardinality(RunSet(s)) - 1
        BY ZenonT(60), <2>6, RunSetFinite, FS_RemoveElement
      <4>2. Cardinality(RunSet(s)) = wg[s] + Due(s) /\ Due(s)' = Due(s) /\ Due(s) \in Nat
        BY Zenon, <2>1, <2>2 DEF Counted, Due
      <4> QED
        BY <2>4, <3>1, <4>1, <4>2
    <3>2. CASE t # s
      BY Zenon, <2>1, <2>2, <2>7, <3>2 DEF Counted, Due, RoundTypes
    <3> QED
      BY <3>1, <3>2
  <2>9. RoundsDisjoint'
    <3> SUFFICES ASSUME NEW t \in Loops, NEW b \in Clients(t), Running(b)'
                 PROVE  b \notin todo'[t] /\ loop'[t] # "idle"
      BY DEF RoundsDisjoint, Clients
    <3>1. Running(b)
      BY Zenon, <2>3 DEF Clients
    <3> QED
      BY Zenon, <2>1, <2>2, <3>1 DEF RoundsDisjoint
  <2> QED
    BY Zenon, <2>5, <2>8, <2>9 DEF RoundsInv, Counted
<1> QED
  BY Zenon, <1>2, <1>3

LEMMA NextRounds == RoundsInv /\ [Next]_vars => RoundsInv'
<1> SUFFICES ASSUME RoundsInv, [Next]_vars PROVE RoundsInv'
  OBVIOUS
<1> USE DEF dlVars, upVars, loopVars
<1>1. CASE Environment
  <2>1. UNCHANGED <<dl, up, loop, todo, wg>>
    BY Zenon, <1>1 DEF Environment, RemoteWrite, MoveBegins
  <2> QED
    BY Zenon, <2>1, FrameQuiet, QuietInv
<1>2. CASE Moving
  <2>1. UNCHANGED <<dl, up, loop, todo, wg>>
    BY Zenon, <1>2 DEF Moving, MoveEnds, MoveFails
  <2> QED
    BY <2>1, FrameQuiet, QuietInv
<1>3. CASE Crash
  BY <1>3, LostRounds DEF Crash
<1>4. ASSUME NEW s \in Loops, LoopStep(s) PROVE RoundsInv'
  BY Zenon, <1>4, LoopRounds, GoRounds DEF LoopStep
<1>5. ASSUME NEW d \in Downloaders, Downloading(d) PROVE RoundsInv'
  <2>1. CASE DownloadStep(d) /\ UNCHANGED <<upVars, loopVars>>
    BY Zenon, <2>1, DownloadQuiet, QuietInv
  <2>2. CASE Done(d)
    <3>1. "down" \in Loops /\ d \in Clients("down")
      BY Zenon DEF Loops, Clients
    <3> QED
      BY Zenon, <2>2, <3>1, DoneRounds
  <2> QED
    BY Zenon, <1>5, <2>1, <2>2 DEF Downloading
<1>6. ASSUME NEW u \in Uploaders, Uploading(u) PROVE RoundsInv'
  <2>1. CASE UploadStep(u) /\ UNCHANGED <<dlVars, loopVars>>
    BY Zenon, <2>1, UploadQuiet, QuietInv
  <2>2. CASE Done(u)
    <3>1. "up" \in Loops /\ u \in Clients("up")
      BY Zenon DEF Loops, Clients
    <3> QED
      BY Zenon, <2>2, <3>1, DoneRounds
  <2> QED
    BY Zenon, <1>6, <2>1, <2>2 DEF Uploading
<1>7. CASE UNCHANGED vars
  <2>1. UNCHANGED <<dl, up, loop, todo, wg>>
    BY Zenon, <1>7 DEF vars
  <2> QED
    BY <2>1, FrameQuiet, QuietInv
<1> QED
  BY Zenon, <1>1, <1>2, <1>3, <1>4, <1>5, <1>6, <1>7 DEF Next

\* A client's connection is never replaced under its goroutine (overlord.go:186, :239): a
\* round begins only when all goroutines of the last one have returned, with any number of
\* clients and although wg.Add follows the go statement (overlord.go:193, :247).
THEOREM RoundsDisjointHolds == Spec => []RoundsDisjoint
<1>1. RoundsInv => RoundsDisjoint
  BY Zenon DEF RoundsInv
<1> QED
  BY <1>1, InitRounds, NextRounds, PTL DEF Spec

-----------------------------------------------------------------------------
(***************************************************************************)
(* Downloads: their steps, in the loop.                                *)
(***************************************************************************)

LEMMA DoneDownloads ==
  ASSUME DownInv, NEW c \in Downloaders \cup Uploaders, Done(c) PROVE DownInv'
<1>1. CASE Lost
  BY <1>1, DownloadersCrashInv DEF Lost
<1>2. CASE c \in Downloaders /\ dl' = [dl EXCEPT ![c] = Off] /\ UNCHANGED dlRest
  BY Zenon, <1>2, FreshInv
<1>3. CASE UNCHANGED dl /\ UNCHANGED dlRest
  BY <1>3, DownFrame DEF dlVars
<1> QED
  BY Zenon, <1>1, <1>2, <1>3 DEF Done

LEMMA LoopDownloads == ASSUME DownInv, NEW s \in Loops, LoopStep(s) PROVE DownInv'
<1>1. CASE UNCHANGED dlVars
  BY Zenon, <1>1, DownFrame
<1>2. ASSUME NEW c \in Clients(s), Go(c) PROVE DownInv'
  <2>1. CASE UNCHANGED dl
    BY Zenon, <1>2, <2>1, DownFrame DEF Go, dlVars
  <2>2. CASE StartWalk(c) /\ Loop(c) = "down"
    <3>1. c \in Downloaders
      BY Zenon, <2>2 DEF Loop
    <3> QED
      BY Zenon, <1>2, <2>2, <3>1, FreshInv DEF Go
  <2> QED
    BY Zenon, <1>2, <2>1, <2>2 DEF Go
<1> QED
  BY Zenon, <1>1, <1>2 DEF LoopStep, BeginRound, Add, Wait, ConnectFails

LEMMA NextDownloads == DownInv /\ [Next]_vars => DownInv'
<1> SUFFICES ASSUME DownInv, [Next]_vars PROVE DownInv'
  OBVIOUS
<1>1. CASE UNCHANGED dlVars
  BY <1>1, DownFrame
<1>2. CASE UNCHANGED vars
  BY Zenon, <1>1, <1>2 DEF vars
<1>3. ASSUME NEW d \in Downloaders, NEW p \in RemotePaths, RemoteWrite(d, p) PROVE DownInv'
  BY <1>3, RemoteWriteInv
<1>4. CASE Crash
  BY <1>4, DownloadersCrashInv DEF Crash, Lost
<1>5. ASSUME NEW s \in Loops, LoopStep(s) PROVE DownInv'
  BY Zenon, <1>5, LoopDownloads
<1>6. ASSUME NEW d \in Downloaders, Downloading(d) PROVE DownInv'
  BY Zenon, <1>6, DownloadStepInv, DoneDownloads DEF Downloading
<1>7. ASSUME NEW u \in Uploaders, Uploading(u) PROVE DownInv'
  BY Zenon, <1>1, <1>7, DoneDownloads DEF Uploading
<1> QED
  BY Zenon, <1>1, <1>2, <1>3, <1>4, <1>5, <1>6, <1>7 DEF Next, Environment, Moving

-----------------------------------------------------------------------------

\* DownInv holds in every reachable state: in particular the file a Downloader deletes
\* (sftpclient.go:160) is the version it fetched or one that was put there meanwhile.
THEOREM DownloadsInvariant == Spec => []DownInv
<1>1. Init => DownInv
  BY InitDownloads DEF Init
<1> QED
  BY <1>1, NextDownloads, PTL DEF Spec

\* FileWatcher only ever sees files that were downloaded completely (sftpclient.go:133, :151),
\* for any Downloaders, files, failures and crashes, while no two files of a remote server
\* have the same name in different directories.
THEOREM DepositsAreWhole == Spec => [](NamesDistinct => DepositsWhole)
<1>1. DownInv => (NamesDistinct => DepositsWhole)
  BY DEF DownInv
<1> QED
  BY <1>1, DownloadsInvariant, PTL

\* What a Downloader has deleted from a remote server is in Staging or complete in its
\* ".download" file (sftpclient.go:125-166), in the same generality, while no file has
\* ".download" in its name.
THEOREM DownloadsAreKept == Spec => [](NamesDistinct /\ NamesUnmarked => DownloadedKept)
<1>1. DownInv => (NamesDistinct /\ NamesUnmarked => DownloadedKept)
  BY DEF DownInv
<1> QED
  BY <1>1, DownloadsInvariant, PTL

-----------------------------------------------------------------------------
(* Uploads: their steps, in the loops.                                 *)

\* The crash of the process, and the panic of wg.Done.
LEMMA LostUploads == ASSUME UploadsInv, Lost PROVE UploadsInv'
BY Zenon, MoveGoneInv DEF Lost, UploadersCrash

LEMMA DoneUploads ==
  ASSUME UploadsInv, NEW c \in Downloaders \cup Uploaders, Done(c) PROVE UploadsInv'
<1>1. CASE Lost
  BY <1>1, LostUploads
<1>2. CASE c \in Downloaders /\ UNCHANGED up /\ UNCHANGED upRest
  BY <1>2, FrameUploads DEF uploadState, upRest
<1>3. CASE c \in Uploaders /\ up' = [up EXCEPT ![c] = OffUp] /\ UNCHANGED upRest
  <2>2. up' = [up EXCEPT ![c] = [OffUp EXCEPT !.pc = "off"]]
    BY Zenon, <1>3, OffUpOff
  <2> QED
    BY Zenon, <1>3, <2>2, OffInv DEF upRest, PathKept
<1> QED
  BY Zenon, <1>1, <1>2, <1>3 DEF Done

LEMMA LoopStepInv == ASSUME UploadsInv, NEW s \in Loops, LoopStep(s) PROVE UploadsInv'
<1>1. CASE UNCHANGED upVars
  BY <1>1, FrameUploads DEF upVars, upRest, uploadState
<1>2. ASSUME NEW c \in Clients(s), Go(c) PROVE UploadsInv'
  <2>1. CASE UNCHANGED up
    BY Zenon, <1>2, <2>1, FrameUploads DEF Go, upRest, uploadState
  <2>2. CASE StartUpload(c) /\ Loop(c) # "down"
    <3>1. c \in Uploaders
      BY <2>2 DEF Loop, Clients, Loops
    <3> QED
      BY Zenon, <1>2, <2>2, <3>1, OffInv DEF Go, StartUpload, upRest, PathKept
  <2> QED
    BY Zenon, <1>2, <2>1, <2>2 DEF Go
<1> QED
  BY Zenon, <1>1, <1>2 DEF LoopStep, BeginRound, Add, Wait, ConnectFails

LEMMA NextUploads == UploadsInv /\ [Next]_vars => UploadsInv'
<1> SUFFICES ASSUME UploadsInv, [Next]_vars PROVE UploadsInv'
  OBVIOUS
<1>1. CASE UNCHANGED vars
  BY Zenon, <1>1, FrameUploads DEF vars, upVars, upRest, uploadState
<1>2. CASE UNCHANGED upVars
  BY Zenon, <1>2, FrameUploads DEF upVars, upRest, uploadState
<1>3. ASSUME NEW m \in Moves, MoveBegins(m) PROVE UploadsInv'
  BY <1>3, MoveBeginsInv
<1>4. CASE Moving
  BY Zenon, <1>4, MoveEndsInv, MoveGoneInv DEF Moving, MoveFails
<1>5. CASE Crash
  BY <1>5, LostUploads DEF Crash
<1>6. ASSUME NEW s \in Loops, LoopStep(s) PROVE UploadsInv'
  BY <1>6, LoopStepInv
<1>7. ASSUME NEW d \in Downloaders, Downloading(d) PROVE UploadsInv'
  BY <1>2, <1>7, DoneUploads DEF Downloading
<1>8. ASSUME NEW u \in Uploaders, Uploading(u) PROVE UploadsInv'
  BY <1>8, UploadStepInv, DoneUploads DEF Uploading
<1> QED
  BY Zenon, <1>1, <1>2, <1>3, <1>4, <1>5, <1>6, <1>7, <1>8 DEF Next, Environment

-----------------------------------------------------------------------------

\* UploadsInv holds in every reachable state.
THEOREM UploadsInvariant == Spec => []UploadsInv
<1>1. Init => UploadsInv
  BY InitUploads DEF Init
<1>2. UploadsInv /\ [Next]_vars => UploadsInv'
  BY NextUploads
<1> QED
  BY <1>1, <1>2, PTL DEF Spec

\* A file moved into Clean is there until an Uploader has sent the whole of it
\* (sftpclient.go:233-276), for any number of Uploaders, paths, moves, failures and crashes,
\* with the exceptions SentBeforeGone names.
THEOREM SentBeforeGoneHolds == Spec => []SentBeforeGone
<1>1. UploadsInv => SentBeforeGone
  BY DEF UploadsInv
<1> QED
  BY <1>1, UploadsInvariant, PTL

\* What is whole in the archive was sent (sftpclient.go:265-271), in the same generality.
THEOREM ArchivedWasSentHolds == Spec => []ArchivedWasSent
<1>1. UploadsInv => ArchivedWasSent
  BY Zenon, UploaderAssumptions DEF UploadsInv, ArchiveOK, ArchivedWasSent, Accounted, Contents
<1> QED
  BY <1>1, UploadsInvariant, PTL

-----------------------------------------------------------------------------
(***************************************************************************)
(* Types, from the three invariants and the bounds below.                  *)
(***************************************************************************)

LoopBounds ==
  /\ on \subseteq Loops /\ faults \in 0..MaxFaults
  /\ \A s \in Loops : todo[s] \subseteq Clients(s)

\* Every failing call and every crash is counted, and what is enabled stays so.
Accounts == UNCHANGED on /\ (Fault \/ UNCHANGED faults)

LEMMA ClientAccounts ==
  ASSUME NEW c \in Downloaders \cup Uploaders,
         \/ c \in Downloaders /\ Downloading(c)
         \/ c \in Uploaders /\ Uploading(c)
  PROVE  Accounts
<1> USE DEF Accounts, loopVars
<1>1. CASE Done(c)
  BY Zenon, <1>1 DEF Done, Lost
<1>2. CASE c \in Downloaders /\ DownloadStep(c) /\ UNCHANGED loopVars
  <2>1. Fault \/ UNCHANGED faults
    BY Zenon, <1>2 DEF DownloadStep, ListDir, Visit, createLocalFile, CopyFile, DeleteRemote,
                       EndWalk, unMarkFileInDownloadingState
  <2> QED
    BY Zenon, <1>2, <2>1
<1>3. CASE c \in Uploaders /\ UploadStep(c) /\ UNCHANGED loopVars
  <2>1. Fault \/ UNCHANGED faults
    BY Zenon, <1>3 DEF UploadStep, WalkClean, OpenLocal, CreateRemote, CopyToRemote,
                       OpenForArchive, CreateArchive, CopyToArchive, RemoveFromClean, EndUpload
  <2> QED
    BY Zenon, <1>3, <2>1
<1> QED
  BY Zenon, <1>1, <1>2, <1>3 DEF Downloading, Uploading

LEMMA StepAccounts == [Next]_vars => Accounts
<1> SUFFICES ASSUME [Next]_vars PROVE Accounts
  OBVIOUS
<1>1. CASE Environment
  BY Zenon, <1>1 DEF Environment, RemoteWrite, MoveBegins, Accounts, loopVars
<1>2. CASE Moving
  BY Zenon, <1>2 DEF Moving, MoveEnds, MoveFails, Accounts, loopVars
<1>3. CASE Crash
  BY Zenon, <1>3 DEF Crash, Lost, Accounts
<1>4. ASSUME NEW s \in Loops, LoopStep(s) PROVE Accounts
  BY Zenon, <1>4 DEF LoopStep, BeginRound, Add, Wait, ConnectFails, Go, Accounts
<1>5. ASSUME NEW d \in Downloaders, Downloading(d) PROVE Accounts
  BY Zenon, <1>5, ClientAccounts
<1>6. ASSUME NEW u \in Uploaders, Uploading(u) PROVE Accounts
  BY Zenon, <1>6, ClientAccounts
<1>7. CASE UNCHANGED vars
  BY Zenon, <1>7 DEF vars, loopVars, Accounts
<1> QED
  BY Zenon, <1>1, <1>2, <1>3, <1>4, <1>5, <1>6, <1>7 DEF Next

\* A loop's list is filled with its own clients and gets shorter after that.
LEMMA ListsShrink ==
  ASSUME RoundTypes, LoopBounds, [Next]_vars
  PROVE  \A s \in Loops : todo'[s] \subseteq Clients(s)
<1>1. CASE UNCHANGED todo
  BY Zenon, <1>1 DEF LoopBounds
<1>2. CASE Lost
  BY Zenon, <1>2 DEF Lost
<1>3. ASSUME NEW s \in Loops, BeginRound(s) PROVE \A t \in Loops : todo'[t] \subseteq Clients(t)
  BY Zenon, <1>3 DEF BeginRound, RoundTypes, LoopBounds
<1>4. ASSUME NEW s \in Loops, NEW c \in Clients(s), ConnectFails(c) \/ Go(c)
      PROVE  \A t \in Loops : todo'[t] \subseteq Clients(t)
  <2>1. todo' = [todo EXCEPT ![s] = @ \ {c}]
    BY Zenon, <1>4, LoopOfClient DEF ConnectFails, Go
  <2> QED
    BY Zenon, <2>1 DEF RoundTypes, LoopBounds
<1>5. ASSUME NEW c, Done(c) PROVE \A t \in Loops : todo'[t] \subseteq Clients(t)
  BY Zenon, <1>1, <1>2, <1>5 DEF Done
<1>6. \/ UNCHANGED todo \/ Lost \/ \E c : Done(c)
      \/ \E s \in Loops : BeginRound(s) \/ \E c \in Clients(s) : ConnectFails(c) \/ Go(c)
  BY Zenon DEF Next, Environment, Moving, Crash, LoopStep, Add, Wait, Downloading, Uploading,
               loopVars, vars
<1> QED
  BY Zenon, <1>1, <1>2, <1>3, <1>4, <1>5, <1>6

\* Every variable of the loops and of their clients has its type, for any sets of clients,
\* paths and files (overlord.go, sftpclient.go).
THEOREM TransferTypes == Spec => []TypeOK
<1> DEFINE Inv == RoundsInv /\ DownInv /\ UploadsInv /\ LoopBounds
<1>1. Init => Inv
  <2>1. Init => LoopBounds
    BY FaultsAssumption DEF Init, LoopBounds
  <2> QED
    BY <2>1, InitRounds, InitDownloads, InitUploads DEF Init
<1>2. Inv /\ [Next]_vars => Inv'
  <2> SUFFICES ASSUME Inv, [Next]_vars PROVE Inv'
    OBVIOUS
  <2>1. RoundsInv' /\ DownInv' /\ UploadsInv'
    BY Zenon, NextRounds, NextDownloads, NextUploads
  <2>2. on' \subseteq Loops /\ faults' \in 0..MaxFaults
    BY StepAccounts, FaultsAssumption DEF Accounts, LoopBounds, Fault
  <2>3. LoopBounds'
    BY Zenon, <2>2, ListsShrink DEF LoopBounds, RoundsInv, Clients
  <2> QED
    BY <2>1, <2>3
<1>3. Inv => TypeOK
  <2> SUFFICES ASSUME Inv PROVE TypeOK
    OBVIOUS
  <2>1. /\ on \subseteq Loops /\ faults \in 0..MaxFaults
        /\ loop \in [Loops -> {"idle", "connect", "add"}] /\ wg \in [Loops -> Nat]
    BY Zenon DEF LoopBounds, RoundsInv, RoundTypes
  <2>2. todo["down"] \subseteq Downloaders /\ todo["up"] \subseteq Uploaders
    BY Zenon DEF LoopBounds, Clients, Loops
  <2>3. /\ remote \in [Downloaders -> [RemotePaths -> 0..MaxWrites]]
        /\ part \in [Downloaders -> [Names -> Parts]]
        /\ dl \in [Downloaders -> DlRecord]
    BY Zenon DEF DownInv, DownTypes
  <2>4. \A d \in Downloaders : \A n \in Names :
          part[d][n] = None \/ part[d][n] \in RemotePaths \X (0..MaxWrites)
    <3> TAKE d \in Downloaders
    <3> TAKE n \in Names
    <3>0. part \in [Downloaders -> [Names -> Parts]]
      BY Zenon, <2>3
    <3>1. part[d][n] \in Parts
      BY ZenonT(60), <3>0
    <3> QED
      BY Zenon, <3>1 DEF Parts
  <2>5. \A d \in Downloaders :
          /\ dl[d].pc \in {"off", "walk", "create", "copy", "delete", "return"}
          /\ dl[d].dirs \subseteq RemoteDirs /\ dl[d].todo \subseteq RemotePaths
          /\ dl[d].cur \in RemotePaths \cup {None} /\ dl[d].ver \in 0..MaxWrites
          /\ dl[d].defers \in Seq(Names)
    <3> TAKE d \in Downloaders
    <3>1. dl[d] \in DlRecord
      BY Zenon, <2>3
    <3> QED
      BY Zenon, <3>1 DEF DlRecord
  <2>6. /\ clean \in [CleanPaths -> Moves \cup {NoFile}] /\ data \in [Moves -> Contents]
        /\ archive \in [CleanPaths -> Contents \cup {NoFile}] /\ up \in [Uploaders -> UpRecord]
    BY Zenon DEF UploadsInv, UploadTypes
  <2> QED
    BY Zenon, <2>1, <2>2, <2>3, <2>4, <2>5, <2>6 DEF TypeOK, UpRecord
<1> QED
  BY <1>1, <1>2, <1>3, PTL DEF Spec
=============================================================================
