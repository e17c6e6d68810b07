------------------------------ MODULE RemoteFs ------------------------------
(***************************************************************************)
(* What the SFTP server does with the requests that name files             *)
(* (handlePacket and the respond methods of pkgsftp/server.go), as         *)
(* functions from a server's state and a request to the state after it and *)
(* the response.                                                           *)
(*                                                                         *)
(* A state is [fs, open, count, user, conn]: the file system, OpenFiles,   *)
(* handleCount, the server's jailPath and User, and the connection, which  *)
(* only ClientCalls looks at.  A path is absolute and clean, a sequence of *)
(* names, and a name a sequence of characters; a file system maps paths to *)
(* nodes.  Links are not followed within a path, only at its end.  The     *)
(* calls of package os are modelled from how they are used here.           *)
(***************************************************************************)
EXTENDS Integers, Sequences, FiniteSets, TLC, SequencesExt

CONSTANT ReaddirBatch   \* 128: entries in one response to Readdir

sshFxOk == 0
sshFxEOF == 1
sshFxNoSuchFile == 2
sshFxPermissionDenied == 3
sshFxFailure == 4

-----------------------------------------------------------------------------
(* Package os.  An error is <<its type, errno>>.                           *)

Nil == <<"nil", "">>
PathError(errno) == <<"PathError", errno>>
LinkError(errno) == <<"LinkError", errno>>
EOF == <<"EOF", "">>
EBADF == <<"Errno", "EBADF">>

\* Attributes are what a setstat request carries, in words of 32 bits.  Of the times only what
\* os.Chtimes sets is followed.
Dir == [kind |-> "dir", size |-> <<0, 0>>, perm |-> <<755>>, times |-> <<0, 0>>,
        owner |-> <<0, 0>>, to |-> <<>>]
File(size) == [Dir EXCEPT !.kind = "file", !.size = <<0, size>>, !.perm = <<644>>]
Link(to) == [Dir EXCEPT !.kind = "link", !.to = to]

Follow(fs, p) == IF p \in DOMAIN fs /\ fs[p].kind = "link" THEN fs[p].to ELSE p
IsDir(fs, p) == p \in DOMAIN fs /\ fs[p].kind = "dir"
Children(fs, p) == {q \in DOMAIN fs : q # <<>> /\ Front(q) = p}
Names(fs, p) == {Last(q) : q \in Children(fs, p)}

Missing(fs, p) ==
  IF \E i \in 1..Len(p) - 1 : SubSeq(p, 1, i) \in DOMAIN fs /\ ~IsDir(fs, SubSeq(p, 1, i))
  THEN "ENOTDIR" ELSE "ENOENT"

\* Why no entry can be made at p; "" if one can.
NoEntry(fs, p) ==
  IF p \in DOMAIN fs THEN "EEXIST" ELSE IF IsDir(fs, Front(p)) THEN "" ELSE Missing(fs, p)

osStat(fs, p) == IF Follow(fs, p) \in DOMAIN fs THEN Nil ELSE PathError(Missing(fs, p))
osLstat(fs, p) == IF p \in DOMAIN fs THEN Nil ELSE PathError(Missing(fs, p))

\* The other calls change the file system, or return an error.
Done(fs) == [fs |-> fs, err |-> Nil]
Fails(fs, err) == [fs |-> fs, err |-> err]
Delete(fs, p) == [q \in DOMAIN fs \ {p} |-> fs[q]]

osMkdir(fs, p) ==
  IF NoEntry(fs, p) = "" THEN Done((p :> Dir) @@ fs) ELSE Fails(fs, PathError(NoEntry(fs, p)))

osRemove(fs, p) ==
  CASE p \notin DOMAIN fs -> Fails(fs, PathError(Missing(fs, p)))
    [] p \in DOMAIN fs /\ Children(fs, p) # {} -> Fails(fs, PathError("ENOTEMPTY"))
    [] OTHER -> Done(Delete(fs, p))

\* A directory takes along what is in it; no directory is replaced.
osRename(fs, p, q) ==
  LET moved == {r \in DOMAIN fs : IsPrefix(p, r)}
      To(r) == q \o SubSeq(r, Len(p) + 1, Len(r))
      left == [r \in DOMAIN fs \ (moved \cup {q}) |-> fs[r]]
      why == CASE p \notin DOMAIN fs -> Missing(fs, p)
               [] IsDir(fs, q) -> "EEXIST"
               [] q \notin DOMAIN fs /\ NoEntry(fs, q) # "" -> NoEntry(fs, q)
               [] IsDir(fs, p) /\ IsPrefix(p, q) -> "EINVAL"
               [] IsDir(fs, p) /\ q \in DOMAIN fs -> "ENOTDIR"
               [] OTHER -> ""
  IN IF why # "" THEN Fails(fs, LinkError(why))
     ELSE Done([t \in {To(r) : r \in moved} |-> fs[CHOOSE r \in moved : To(r) = t]] @@ left)

osSymlink(fs, target, p) ==
  IF NoEntry(fs, p) = "" THEN Done((p :> Link(target)) @@ fs)
  ELSE Fails(fs, LinkError(NoEntry(fs, p)))

osLink(fs, p, q) ==
  LET why == CASE p \notin DOMAIN fs -> Missing(fs, p) [] IsDir(fs, p) -> "EPERM"
               [] OTHER -> NoEntry(fs, q)
  IN IF why = "" THEN Done((q :> fs[p]) @@ fs) ELSE Fails(fs, LinkError(why))

osReadlink(fs, p) ==
  IF p \in DOMAIN fs /\ fs[p].kind # "link" THEN PathError("EINVAL") ELSE osLstat(fs, p)

\* os.Truncate, os.Chmod, os.Chown, os.Chtimes.
Change(fs, p, field, v) ==
  LET q == Follow(fs, p)
  IN IF q \notin DOMAIN fs THEN Fails(fs, osStat(fs, p))
     ELSE IF field = "size" /\ IsDir(fs, q) THEN Fails(fs, PathError("EISDIR"))
     ELSE Done([fs EXCEPT ![q] = [@ EXCEPT ![field] = v]])

\* flags: a subset of {"O_RDONLY", "O_WRONLY", "O_RDWR", "O_CREATE", "O_TRUNC", "O_EXCL"}.
osOpenFile(fs, p, flags) ==
  LET q == Follow(fs, p)
  IN CASE p \in DOMAIN fs /\ {"O_CREATE", "O_EXCL"} \subseteq flags -> Fails(fs, PathError("EEXIST"))
       [] q \notin DOMAIN fs /\ "O_CREATE" \notin flags -> Fails(fs, osStat(fs, p))
       [] q \notin DOMAIN fs /\ "O_CREATE" \in flags ->
            IF NoEntry(fs, q) = "" THEN Done((q :> File(0)) @@ fs)
            ELSE Fails(fs, PathError(NoEntry(fs, q)))
       [] IsDir(fs, q) /\ flags # {"O_RDONLY"} -> Fails(fs, PathError("EISDIR"))
       [] "O_TRUNC" \in flags -> Change(fs, q, "size", <<0, 0>>)
       [] OTHER -> Done(fs)

-----------------------------------------------------------------------------
(* Responses.                                                              *)

translateErrno(errno) ==
  CASE errno = "ENOENT" -> sshFxNoSuchFile
    [] errno = "EPERM" -> sshFxPermissionDenied
    [] OTHER -> sshFxFailure

\* An os.LinkError is none of the types it knows.
statusFromError(err) ==
  CASE err = Nil -> sshFxOk
    [] err = EOF -> sshFxEOF
    [] err[1] \in {"Errno", "PathError"} -> translateErrno(err[2])
    [] OTHER -> sshFxFailure

Status(s, err) == [s |-> s, typ |-> "Status", code |-> statusFromError(err)]
Attrs(s, node) == [s |-> s, typ |-> "Attrs", node |-> node]
Name(s, names) == [s |-> s, typ |-> "Name", names |-> names]
NewHandle(s, h) == [s |-> s, typ |-> "Handle", handle |-> h]

\* The call's result is the new file system and the status.
Called(s, r) == Status([s EXCEPT !.fs = r.fs], r.err)

-----------------------------------------------------------------------------
(* The requests.                                                           *)

nextHandle(s, p, mode) ==
  LET f == [name |-> p, path |-> Follow(s.fs, p), off |-> 0, mode |-> mode]
  IN [s EXCEPT !.count = @ + 1, !.open = ((s.count + 1) :> f) @@ @]

\* strings.HasPrefix of two paths written out: the last name need not be whole.
HasPrefix(p, c) ==
  /\ Len(p) >= Len(c) /\ IsPrefix(Front(c), p)
  /\ IsPrefix(Last(c), p[Len(c)])

\* Where the server takes a path to be, in the requests that ask: below the user's directory,
\* unless it is already there.
Everywhere == <<<<"*">>>>
getUserJailPath(s, p) ==
  LET u == s.user
      chroot == IF u.IsCleanDirUser /\ u.JailDirectory = Everywhere THEN u.jailPath
                ELSE u.jailPath \o u.JailDirectory
  IN IF u.jailPath = <<>> THEN p ELSE IF HasPrefix(p, chroot) THEN p ELSE chroot \o p

sshFxpStatPacket(s, path) ==
  LET p == getUserJailPath(s, path)
  IN IF osStat(s.fs, p) = Nil THEN Attrs(s, s.fs[Follow(s.fs, p)]) ELSE Status(s, osStat(s.fs, p))

sshFxpLstatPacket(s, p) ==
  IF osLstat(s.fs, p) = Nil THEN Attrs(s, s.fs[p]) ELSE Status(s, osLstat(s.fs, p))

\* The file stays what it was when it was opened: the requests between are not part of a call.
sshFxpFstatPacket(s, h) ==
  IF h \in DOMAIN s.open THEN Attrs(s, s.fs[s.open[h].path]) ELSE Status(s, EBADF)

sshFxpMkdirPacket(s, p) == Called(s, osMkdir(s.fs, getUserJailPath(s, p)))
sshFxpRmdirPacket(s, p) == Called(s, osRemove(s.fs, getUserJailPath(s, p)))
sshFxpRemovePacket(s, p) == Called(s, osRemove(s.fs, p))
sshFxpRenamePacket(s, p, q) == Called(s, osRename(s.fs, p, q))
sshFxpSymlinkPacket(s, target, p) ==
  Called(s, osSymlink(s.fs, getUserJailPath(s, target), getUserJailPath(s, p)))
sshFxpExtendedPacketPosixRename(s, p, q) == Called(s, osRename(s.fs, p, q))
sshFxpExtendedPacketHardlink(s, p, q) == Called(s, osLink(s.fs, p, q))

sshFxpReadlinkPacket(s, path) ==
  LET p == getUserJailPath(s, path)
      err == osReadlink(s.fs, p)
  IN IF err = Nil THEN Name(s, <<s.fs[p].to>>) ELSE Status(s, err)

sshFxpRealpathPacket(s, p) == Name(s, <<getUserJailPath(s, p)>>)

sshFxpClosePacket(s, h) ==
  IF h \in DOMAIN s.open
  THEN Status([s EXCEPT !.open = [g \in DOMAIN @ \ {h} |-> @[g]]], Nil)
  ELSE Status(s, EBADF)

\* respond of sshFxpOpenPacket; the append flag is not looked at.
OpenFlags(pflags) ==
  (CASE {"Read", "Write"} \subseteq pflags -> {"O_RDWR"}
     [] {"Read", "Write"} \cap pflags = {"Write"} -> {"O_WRONLY"}
     [] {"Read", "Write"} \cap pflags = {"Read"} -> {"O_RDONLY"}
     [] OTHER -> {})
  \cup (IF "Creat" \in pflags THEN {"O_CREATE"} ELSE {})
  \cup (IF "Trunc" \in pflags THEN {"O_TRUNC"} ELSE {})
  \cup (IF "Excl" \in pflags THEN {"O_EXCL"} ELSE {})

sshFxpOpenPacket(s, p, pflags) ==
  LET r == osOpenFile(s.fs, p, OpenFlags(pflags))
      opened == nextHandle([s EXCEPT !.fs = r.fs], p, OpenFlags(pflags))
  IN CASE {"Read", "Write"} \cap pflags = {} -> Status(s, <<"Errno", "EINVAL">>)
       [] {"Read", "Write"} \cap pflags # {} /\ r.err # Nil -> Status(s, r.err)
       [] OTHER -> NewHandle(opened, opened.count)

\* The directory is looked for below the user's directory, and opened where the request says.
sshFxpOpendirPacket(s, path) ==
  LET p == getUserJailPath(s, path)
  IN CASE osStat(s.fs, p) # Nil -> Status(s, osStat(s.fs, p))
       [] osStat(s.fs, p) = Nil /\ ~IsDir(s.fs, Follow(s.fs, p)) -> Status(s, PathError("ENOTDIR"))
       [] OTHER -> sshFxpOpenPacket(s, path, {"Read"})

\* f.Readdir(128): the next entries, and EOF once there are none.
sshFxpReaddirPacket(s, h) ==
  LET o == s.open[h]
      all == SetToSeq(Names(s.fs, o.path))
      upto == IF o.off + ReaddirBatch < Len(all) THEN o.off + ReaddirBatch ELSE Len(all)
  IN CASE h \notin DOMAIN s.open -> Status(s, EBADF)
       [] h \in DOMAIN s.open /\ o.off = Len(all) -> Status(s, EOF)
       [] OTHER -> Name([s EXCEPT !.open[h].off = upto], SubSeq(all, o.off + 1, upto))

\* The attributes that flags names, taken off b in this order; each result replaces the error
\* of the one before it.
Order == <<"size", "perm", "times", "owner">>
Words == [size |-> 2, perm |-> 1, times |-> 2, owner |-> 2]
errShortPacket == <<"error", "short packet">>
SetAttrs(fs, flags, b, Set(_, _, _)) ==
  FoldLeft(LAMBDA acc, a :
             LET r == Set(acc.fs, a, SubSeq(acc.b, 1, Words[a]))
             IN IF a \notin flags THEN acc
                ELSE IF Len(acc.b) < Words[a] THEN [acc EXCEPT !.b = <<>>, !.err = errShortPacket]
                ELSE [fs |-> r.fs, err |-> r.err, b |-> SubSeq(acc.b, Words[a] + 1, Len(acc.b))],
           [fs |-> fs, err |-> Nil, b |-> b], Order)

\* os.IsExist is false of the error of os.Stat, whether there is one or not: no time is set.
sshFxpSetstatPacket(s, p, flags, b) ==
  LET Set(fs, a, v) == IF a = "times" THEN Done(fs) ELSE Change(fs, p, a, v)
  IN Called(s, SetAttrs(s.fs, flags, b, Set))

\* Times are set by the name of the file; a file opened for reading cannot be truncated.
sshFxpFsetstatPacket(s, h, flags, b) ==
  LET f == s.open[h]
      Set(fs, a, v) == CASE a = "times" -> Change(fs, f.name, a, v)
                         [] a = "size" /\ "O_RDONLY" \in f.mode -> Fails(fs, PathError("EINVAL"))
                         [] OTHER -> Change(fs, f.path, a, v)
  IN IF h \in DOMAIN s.open THEN Called(s, SetAttrs(s.fs, flags, b, Set)) ELSE Status(s, EBADF)
=============================================================================
