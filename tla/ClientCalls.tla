----------------------------- MODULE ClientCalls ----------------------------
(***************************************************************************)
(* The calls of an SFTP client that name files (pkgsftp/client.go and      *)
(* match.go), made to the server of RemoteFs one request at a time: what   *)
(* each returns and leaves on the server.  A result is [s, err, ...]; err  *)
(* is "" for nil, what normaliseError makes of a status ("EOF",            *)
(* "NotExist", or the code of a StatusError), or the connection's error.   *)
(*                                                                         *)
(* s.conn is [left, runs, end]: the answers that still arrive before the   *)
(* connection ends, whether the server still serves the first request that *)
(* stays without one, and the error the client then has.                   *)
(***************************************************************************)
EXTENDS RemoteFs

Forever == -1

normaliseError(code) ==
  CASE code = sshFxOk -> ""
    [] code = sshFxEOF -> "EOF"
    [] code = sshFxNoSuchFile -> "NotExist"
    [] code = sshFxPermissionDenied -> "PermissionDenied"
    [] OTHER -> "Failure"

\* r is what the server makes of the request; it may not get as far, nor the answer back.
sendPacket(s, r) ==
  CASE s.conn.left = Forever -> r
    [] s.conn.left > 0 -> [r EXCEPT !.s.conn.left = @ - 1]
    [] OTHER -> [s |-> [(IF s.conn.runs THEN r.s ELSE s) EXCEPT !.conn.runs = FALSE], typ |-> "none"]

\* What a method makes of the answer to its request, for which it expects type typ.
Ask(s, typ, request) ==
  LET r == sendPacket(s, request)
      err == CASE r.typ = "none" -> s.conn.end
               [] r.typ = "Status" -> normaliseError(r.code)
               [] r.typ = typ -> ""
               [] OTHER -> "unimplementedPacketErr"
  IN r @@ [err |-> err]

Stat(s, p) == Ask(s, "Attrs", sshFxpStatPacket(s, p))
Lstat(s, p) == Ask(s, "Attrs", sshFxpLstatPacket(s, p))
ReadLink(s, p) == Ask(s, "Name", sshFxpReadlinkPacket(s, p))
HardLink(s, p, q) == Ask(s, "Status", sshFxpExtendedPacketHardlink(s, p, q))
Symlink(s, target, p) == Ask(s, "Status", sshFxpSymlinkPacket(s, target, p))
setfstat(s, h, fl, b) == Ask(s, "Status", sshFxpFsetstatPacket(s, h, fl, b))
setstat(s, p, fl, b) == Ask(s, "Status", sshFxpSetstatPacket(s, p, fl, b))
Chtimes(s, p, atime, mtime) == setstat(s, p, {"times"}, <<atime, mtime>>)
Chown(s, p, uid, gid) == setstat(s, p, {"owner"}, <<uid, gid>>)
Chmod(s, p, mode) == setstat(s, p, {"perm"}, <<mode>>)
Truncate(s, p, size) == setstat(s, p, {"size"}, <<0, size>>)
removeFile(s, p) == Ask(s, "Status", sshFxpRemovePacket(s, p))
RemoveDirectory(s, p) == Ask(s, "Status", sshFxpRmdirPacket(s, p))
Rename(s, p, q) == Ask(s, "Status", sshFxpRenamePacket(s, p, q))
PosixRename(s, p, q) == Ask(s, "Status", sshFxpExtendedPacketPosixRename(s, p, q))
realpath(s, p) == Ask(s, "Name", sshFxpRealpathPacket(s, p))
Mkdir(s, p) == Ask(s, "Status", sshFxpMkdirPacket(s, p))
close(s, h) == Ask(s, "Status", sshFxpClosePacket(s, h))
fstat(s, h) == Ask(s, "Attrs", sshFxpFstatPacket(s, h))

ClientRemove(s, p) ==
  LET r == removeFile(s, p)
  IN IF r.err \in {"PermissionDenied", "Failure"} THEN RemoveDirectory(r.s, p) ELSE r

\* flags converts the flags of OpenFile; f names the access mode and the other flags.
flags(f) ==
  (IF "O_WRONLY" \in f THEN {"Write"} ELSE {"Read"})
  \cup (IF "O_RDWR" \in f THEN {"Read", "Write"} ELSE {})
  \cup (IF "O_APPEND" \in f THEN {"Append"} ELSE {})
  \cup (IF "O_CREATE" \in f THEN {"Creat"} ELSE {})
  \cup (IF "O_TRUNC" \in f THEN {"Trunc"} ELSE {})
  \cup (IF "O_EXCL" \in f THEN {"Excl"} ELSE {})

open_(s, p, f) == Ask(s, "Handle", sshFxpOpenPacket(s, p, flags(f)))
opendir(s, p) == Ask(s, "Handle", sshFxpOpendirPacket(s, p))

\* The loop of ReadDir: batches until there is another answer, or none.  An answer of another
\* type loses the entries read before.
RECURSIVE ReadBatches(_, _, _)
ReadBatches(s, h, names) ==
  LET r == Ask(s, "Name", sshFxpReaddirPacket(s, h))
  IN IF r.typ = "Name" THEN ReadBatches(r.s, h, names \o r.names)
     ELSE [s |-> r.s, err |-> r.err, names |-> IF r.typ \in {"Status", "none"} THEN names ELSE <<>>]

\* Mutant: whatever ends the listing is taken for its end.
ReadToAnyEnd(s, p) ==
  LET d == opendir(s, p)
      r == ReadBatches(d.s, d.handle, <<>>)
  IN IF d.err # "" THEN [s |-> d.s, err |-> d.err, names |-> <<>>]
     ELSE [s |-> close(r.s, d.handle).s, err |-> "", names |-> r.names]

\* The handle is closed whatever happened.
ReadDir(s, p) ==
  LET d == opendir(s, p)
      r == ReadBatches(d.s, d.handle, <<>>)
  IN IF d.err # "" THEN [s |-> d.s, err |-> d.err, names |-> <<>>]
     ELSE [s |-> close(r.s, d.handle).s, err |-> IF r.err = "EOF" THEN "" ELSE r.err,
           names |-> r.names]

RECURSIVE MkdirAll(_, _)
MkdirAll(s, p) ==
  LET st == Stat(s, p)
      up == IF Len(p) > 1 THEN MkdirAll(st.s, Front(p)) ELSE [s |-> st.s, err |-> ""]
      mk == Mkdir(up.s, p)
      again == Lstat(mk.s, p)
  IN CASE st.err = "" -> [s |-> st.s, err |-> IF st.node.kind = "dir" THEN "" ELSE "ENOTDIR"]
       [] st.err # "" /\ up.err # "" -> up
       [] st.err # "" /\ up.err = "" /\ mk.err = "" -> mk
       [] OTHER -> [s |-> again.s,
                    err |-> IF again.err # "" THEN mk.err
                            ELSE IF again.node.kind = "dir" THEN "" ELSE mk.err]

-----------------------------------------------------------------------------
(* Glob.  A pattern is a sequence of patterns, one for each element of the *)
(* paths; Split takes off the last one, and Join puts it on again.  A      *)
(* pattern for an element is [text, meta, fits, bad]: whether it has a     *)
(* character of hasMeta, the names that path.Match matches with it, and    *)
(* the names with which it finds the pattern malformed.                    *)

Literal(n) == [text |-> n, meta |-> FALSE, fits |-> {n}, bad |-> {}]
Text(pattern) == [i \in DOMAIN pattern |-> pattern[i].text]
hasMeta(pattern) == \E i \in DOMAIN pattern : pattern[i].meta

\* path.Match, which looks at no more of the pattern than the name needs.
Match(pattern, name) ==
  [matched |-> name \in pattern.fits, err |-> IF name \in pattern.bad THEN "ErrBadPattern" ELSE ""]

\* The names of directory dir that match, appended to matches, up to the first with which the
\* pattern is malformed.  Without a directory, or a listing of it, there are none.
glob(s, dir, pattern, matches) ==
  LET st == Stat(s, dir)
      d == ReadDir(st.s, dir)
      fails == {i \in DOMAIN d.names : Match(pattern, d.names[i]).err # ""}
      upTo == IF fails = {} THEN Len(d.names) ELSE Min(fails) - 1
      names == SelectSeq(SubSeq(d.names, 1, upTo), LAMBDA n : Match(pattern, n).matched)
  IN CASE st.err # "" -> [s |-> st.s, m |-> matches, err |-> ""]
       [] st.err = "" /\ st.node.kind # "dir" -> [s |-> st.s, m |-> matches, err |-> ""]
       [] st.err = "" /\ st.node.kind = "dir" /\ d.err # "" -> [s |-> d.s, m |-> matches, err |-> ""]
       [] OTHER -> [s |-> d.s, m |-> matches \o [i \in DOMAIN names |-> Append(dir, names[i])],
                    err |-> IF fails = {} THEN "" ELSE "ErrBadPattern"]

RECURSIVE Glob(_, _)
Glob(s, pattern) ==
  LET file == Lstat(s, Text(pattern))
      dir == Front(pattern)
      dirs == Glob(s, dir)
  IN CASE ~hasMeta(pattern) ->
            [s |-> file.s, m |-> IF file.err = "" THEN <<Text(pattern)>> ELSE <<>>, err |-> ""]
       [] hasMeta(pattern) /\ ~hasMeta(dir) -> glob(s, Text(dir), Last(pattern), <<>>)
       [] hasMeta(dir) /\ dirs.err # "" -> [dirs EXCEPT !.m = <<>>]
       [] OTHER -> FoldLeft(LAMBDA acc, d : IF acc.err # "" THEN acc
                                            ELSE glob(acc.s, d, Last(pattern), acc.m),
                            [dirs EXCEPT !.m = <<>>], dirs.m)

-----------------------------------------------------------------------------
(* What the calls promise, for a server in state s without open files,     *)
(* over a connection that lasts unless it says otherwise.                  *)

\* err is nil exactly if ok, and the file system is then the given one; otherwise it has
\* not changed.
Exactly(s, r, ok, fs) ==
  /\ (r.err = "") = ok
  /\ r.s = [s EXCEPT !.fs = IF ok THEN fs ELSE @]

\* Remove takes away a file or an empty directory, and os.ErrNotExist is returned where there
\* is neither, unless part of the path is a file (client.go:630-644, server.go:263-278).
RemoveExact(s, p) ==
  /\ Exactly(s, ClientRemove(s, p), p \in DOMAIN s.fs /\ Children(s.fs, p) = {}, Delete(s.fs, p))
  /\ (ClientRemove(s, p).err = "NotExist") = (p \notin DOMAIN s.fs /\ Missing(s.fs, p) = "ENOENT")

\* Mkdir makes one directory; MkdirAll makes those that are missing on the way to p and fails
\* only if something on the way is not a directory, having made none (client.go:754-820).
Way(p) == {SubSeq(p, 1, i) : i \in 0..Len(p)}
MkdirExact(s, p) ==
  LET made == [q \in Way(p) \ DOMAIN s.fs |-> Dir] @@ s.fs
  IN /\ Exactly(s, Mkdir(s, p), p \notin DOMAIN s.fs /\ IsDir(s.fs, Front(p)), (p :> Dir) @@ s.fs)
     /\ Exactly(s, MkdirAll(s, p), \A q \in Way(p) : q \in DOMAIN s.fs => IsDir(s.fs, Follow(s.fs, q)),
                made)

\* ReadDir gives every entry once, in however many responses, and leaves no handle open on the
\* server, whether it succeeds or not (client.go:241-290).
ReadDirExact(s, p) ==
  LET r == ReadDir(s, p)
  IN /\ Exactly(s, [r EXCEPT !.s.count = s.count], IsDir(s.fs, Follow(s.fs, p)), s.fs)
     /\ r.err = "" => IsInjective(r.names) /\ ToSet(r.names) = Names(s.fs, Follow(s.fs, p))

\* A file is opened the way it was asked for: created, truncated or refused as os.OpenFile
\* would do it with the same flags on the server (client.go:521-544, :1358-1382,
\* server.go:514-547).
OpenExact(s, p, f) ==
  LET r == open_(s, p, f)
      there == osOpenFile(s.fs, p, f \ {"O_APPEND"})
  IN /\ (r.err = "") = (there.err = Nil) /\ r.s.fs = there.fs
     /\ r.err = "" => /\ fstat(r.s, r.handle).node = there.fs[Follow(there.fs, p)]
                      /\ close(r.s, r.handle).s.open = s.open
                      /\ setfstat(r.s, r.handle, {"times"}, <<5, 6>>).s.fs
                           = [there.fs EXCEPT ![Follow(there.fs, p)].times = <<5, 6>>]
                      /\ LET cut == setfstat(r.s, r.handle, {"size"}, <<0, 7>>)
                         IN IF "O_RDONLY" \in f THEN cut.err # "" /\ cut.s = r.s
                            ELSE cut.err = "" /\ cut.s.fs = Truncate(r.s, p, 7).s.fs

\* Rename moves a file or directory with all below it, onto no directory; a link leads to what
\* it was made for (client.go:397-434, :681-718).
MovesExact(s, p, q) ==
  LET r == Rename(s, p, q)
      Below(t) == {x \in DOMAIN s.fs : IsPrefix(t, x)}
  IN /\ r = PosixRename(s, p, q)
     /\ r.err = "" =>
          /\ \A x \in Below(p) : r.s.fs[q \o SubSeq(x, Len(p) + 1, Len(x))] = s.fs[x]
          /\ \A x \in DOMAIN s.fs \ (Below(p) \cup {q}) : r.s.fs[x] = s.fs[x]
          /\ Cardinality(DOMAIN r.s.fs) = Cardinality(DOMAIN s.fs \ ({q} \ Below(p)))
     /\ r.err # "" => r.s = s
     /\ LET l == Symlink(s, p, q)
        IN l.err = "" => ReadLink(l.s, q).names = <<p>> /\ Lstat(l.s, q).node.kind = "link"
                         /\ (p \in DOMAIN s.fs /\ s.fs[p].kind # "link" => Stat(l.s, q).node = s.fs[p])
     /\ LET l == HardLink(s, p, q) IN l.err = "" => Lstat(l.s, q).node = Lstat(s, p).node

\* Chmod, Chown and Truncate change what they say and nothing else, of what a link leads to.
\* Chtimes is not among them: it returns nil and no time changes, whether the file exists or
\* not, because of the os.IsExist of server.go:598 (client.go:473-505).
SettingsExact(s, p) ==
  LET q == Follow(s.fs, p)
      there == q \in DOMAIN s.fs
  IN /\ Exactly(s, Chmod(s, p, 600), there, [s.fs EXCEPT ![q].perm = <<600>>])
     /\ Exactly(s, Chown(s, p, 1, 2), there, [s.fs EXCEPT ![q].owner = <<1, 2>>])
     /\ Exactly(s, Truncate(s, p, 7), there /\ ~IsDir(s.fs, q), [s.fs EXCEPT ![q].size = <<0, 7>>])
     /\ Exactly(s, Chtimes(s, p, 5, 6), TRUE, s.fs)

\* Where the server sees a path it keeps seeing it, and the calls it takes there do with the
\* path as given what they do with the one RealPath returns (server.go:44-72).
SeenAlike(s, p) ==
  LET q == realpath(s, p).names[1]
  IN /\ realpath(s, q).names = <<q>>
     /\ Stat(s, p) = Stat(s, q) /\ ReadLink(s, p) = ReadLink(s, q)
     /\ Mkdir(s, p) = Mkdir(s, q) /\ RemoveDirectory(s, p) = RemoveDirectory(s, q)

\* When the connection ends in the middle of a call of several requests, the call returns nil
\* only if it did all it does over one that lasts.  ReadDir returns only entries there are, and
\* all of them if it returns nil: only a connection that ends with io.EOF it takes for the end
\* of the listing (client.go:255-258, :285-287).
LostExact(s, p) ==
  \A k \in 0..4, runs \in BOOLEAN, end \in {"EOF", "ConnectionLost"} :
    LET t == [s EXCEPT !.conn = [left |-> k, runs |-> runs, end |-> end]]
        Whole(r, whole) == r.err = "" => whole.err = "" /\ r.s.fs = whole.s.fs
        d == ReadDir(t, p)
        all == ReadDir(s, p)
    IN /\ Whole(ClientRemove(t, p), ClientRemove(s, p))
       /\ Whole(MkdirAll(t, p), MkdirAll(s, p))
       /\ IsPrefix(d.names, all.names)
       /\ d.err = "" => all.err = "" /\ (d.names = all.names \/ end = "EOF")

\* Glob finds the paths whose elements match those of the pattern, each once, and fails only
\* with ErrBadPattern, exactly when it compares a name with a malformed pattern; what it
\* then returns are paths that match (match.go:184-281).
GlobExact(s, pattern) ==
  LET found == Glob(s, pattern)
      All == DOMAIN s.fs \cup UNION {{Append(p, n) : n \in Names(s.fs, Follow(s.fs, p))} : p \in DOMAIN s.fs}
      Fits(p, n) == Len(p) >= n /\ \A i \in 1..n : p[i] \in pattern[i].fits
      malformed == \E p \in All \ {<<>>} : /\ Len(p) <= Len(pattern) /\ Fits(p, Len(p) - 1)
                                          /\ Last(p) \in pattern[Len(p)].bad
      fitting == {p \in All : Len(p) = Len(pattern) /\ Fits(p, Len(p))}
  IN /\ found.err = IF malformed THEN "ErrBadPattern" ELSE ""
     /\ IsInjective(found.m) /\ ToSet(found.m) \subseteq fitting
     /\ malformed \/ ToSet(found.m) = fitting
=============================================================================
