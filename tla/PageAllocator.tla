---------------------------- MODULE PageAllocator ----------------------------
(***************************************************************************)
(* The page allocator of the SFTP servers (pkgsftp/allocator.go): pages    *)
(* for incoming packets and for data that is read, kept for reuse once the *)
(* response of their request has been sent.  A page is a number; the state *)
(* of an allocator is a record of its two fields and the number of pages   *)
(* made so far.  Its methods hold its lock from start to end.              *)
(***************************************************************************)
EXTENDS Naturals, Sequences

\* OrderIds is the set of keys of the used map that can occur.
newAllocator(OrderIds) ==
  [available |-> <<>>, used |-> [id \in OrderIds |-> <<>>], made |-> 0]

\* The page that GetPage returns: the last available one, or a new one.
NextPage(a) ==
  IF a.available # <<>> THEN a.available[Len(a.available)] ELSE a.made + 1

\* Mutant: the page that is handed out stays available.
GetPageKeepsIt(a, id) ==
  [a EXCEPT !.used[id] = Append(@, NextPage(a)),
            !.made = IF a.available = <<>> THEN @ + 1 ELSE @]

GetPage(a, id) ==
  [a EXCEPT !.available = IF @ = <<>> THEN @ ELSE SubSeq(@, 1, Len(@) - 1),
            !.used[id] = Append(@, NextPage(a)),
            !.made = IF a.available = <<>> THEN @ + 1 ELSE @]

ReleasePages(a, id) ==
  [a EXCEPT !.available = @ \o a.used[id], !.used[id] = <<>>]

\* The pages are left to the garbage collector.
Free(a) == [a EXCEPT !.available = <<>>, !.used = [id \in DOMAIN @ |-> <<>>]]

\* Every place that refers to a page, with the page.
Places(a, Ids) ==
  {<<"available", 0, i, a.available[i]>> : i \in DOMAIN a.available}
    \cup UNION {{<<"used", id, i, a.used[id][i]>> : i \in DOMAIN a.used[id]} : id \in Ids}
=============================================================================
