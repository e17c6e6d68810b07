--------------------------- MODULE ConfigValidator ---------------------------
(***************************************************************************)
(* What ssftp.yaml says, and the rules a configuration has to pass         *)
(* (ssftp/configvalidator.go), with the look-ups of logins in the list of  *)
(* users (user/usergov.go).                                                *)
(*                                                                         *)
(* Names, hosts, directories, passwords and keys are strings; "" is the    *)
(* empty one.  A configuration is a record of the fields of Config that    *)
(* the program reads.                                                      *)
(***************************************************************************)
EXTENDS Naturals, Sequences, SequencesExt, FiniteSetsExt

CONSTANTS
  BadUrls,   \* the strings url.Parse refuses
  BadKeys    \* the strings ssh.ParseAuthorizedKey refuses

ValidWebhookNames == {"virusFound"}

\* The errors of addErrf are only counted: Validate fails when there is any.

\* Mutant: the last element is not looked at.
DupButLast(s) == \E i \in 1..(Len(s) - 1) : s[i] \in {s[j] : j \in 1..(i - 1)}

\* An element that is in the map already, where those before it are.
hasDupElements(s) == \E i \in DOMAIN s : s[i] \in {s[j] : j \in 1..(i - 1)}

Field(s, f) == [i \in DOMAIN s |-> s[i][f]]

validatePortSetDefault(c) == IF c.SftpPort = 0 THEN [c EXCEPT !.SftpPort = 2002] ELSE c

isValidWebhookName(n) == n \in ValidWebhookNames

validateWebhook(c) ==
  \A w \in ToSet(c.Webhooks) : isValidWebhookName(w.Name) /\ w.Url \notin BadUrls

validateDownloaders(c) ==
  /\ \A d \in ToSet(c.ClientDownloaders) : d.Name # ""
  /\ ~hasDupElements(Field(c.ClientDownloaders, "Name"))
  /\ ~hasDupElements(Field(c.ClientDownloaders, "LocalStagingDirectory"))
  /\ \A d \in ToSet(c.ClientDownloaders) :
       d.Port # 0 /\ d.Host # "" /\ d.LocalStagingDirectory # ""

validateUploaders(c) ==
  /\ \A u \in ToSet(c.ClientUploaders) : u.Name # ""
  /\ ~hasDupElements(Field(c.ClientUploaders, "Name"))
  /\ \A u \in ToSet(c.ClientUploaders) : u.Port # 0 /\ u.Host # ""

validateUsersCleanDir(c) ==
  \A v \in ToSet(c.Users) :
    v.IsCleanDirUser => v.Username # "" /\ v.Password # "" /\ v.JailDirectory # ""

validateUsersStagingDir(c) ==
  \A v \in ToSet(c.Users) :
    ~v.IsCleanDirUser => v.Username # "" /\ v.Password # "" /\ v.JailDirectory \notin {"*", ""}

Validate(c) ==
  /\ validateWebhook(c)
  /\ validateDownloaders(c) /\ validateUploaders(c)
  /\ validateUsersCleanDir(c) /\ validateUsersStagingDir(c)

-----------------------------------------------------------------------------
(* Configurations and users.                                               *)

\* Mutant: the users of the clean directory are left out.
MergeStagingOnly(y) == y.StagingDirUsers

mergeStagingCleanDirUsers(y) ==
  y.StagingDirUsers
    \o [i \in DOMAIN y.CleanDirUsers |-> [y.CleanDirUsers[i] EXCEPT !.IsCleanDirUser = TRUE]]

\* The user at the first of the positions in hits.
Refused == [user |-> <<>>, ok |-> FALSE]
Accept(us, hits) == IF hits = {} THEN Refused ELSE [user |-> us[Min(hits)], ok |-> TRUE]

AuthPass(us, name, pass) ==
  Accept(us, {i \in DOMAIN us : us[i].Username = name /\ us[i].Password = pass})

\* The search ends at the first user of that name whose own key cannot be parsed.
AuthPublicKey(us, name, key) ==
  LET named == {i \in DOMAIN us : us[i].Username = name}
      ends == {i \in named : us[i].PublicKey \in BadKeys \cup {key}}
  IN IF ends # {} /\ us[Min(ends)].PublicKey \in BadKeys THEN Refused ELSE Accept(us, ends)

-----------------------------------------------------------------------------
(* What the rules amount to, checked over Samples in MCConfigService.      *)

Distinct(s) == \A i, j \in DOMAIN s : s[i] = s[j] => i = j

\* A configuration that passes gives every Downloader a directory of its own in Staging and
\* every client and user a name, a place and a password (configvalidator.go:77-211); what it
\* refuses has one of these faults.
Acceptable(c) ==
  /\ \A i, j \in DOMAIN c.ClientDownloaders :
       LET d == c.ClientDownloaders[i]
           e == c.ClientDownloaders[j]
       IN /\ i # j => d.LocalStagingDirectory # e.LocalStagingDirectory /\ d.Name # e.Name
          /\ "" \notin {d.Name, d.Host, d.LocalStagingDirectory} /\ d.Port # 0
  /\ Distinct(Field(c.ClientUploaders, "Name"))
  /\ \A u \in ToSet(c.ClientUploaders) : "" \notin {u.Name, u.Host} /\ u.Port # 0
  /\ \A w \in ToSet(c.Webhooks) : w.Name = "virusFound" /\ w.Url \notin BadUrls
  /\ \A v \in ToSet(c.Users) :
       /\ "" \notin {v.Username, v.Password, v.JailDirectory}
       /\ v.JailDirectory = "*" => v.IsCleanDirUser
=============================================================================
