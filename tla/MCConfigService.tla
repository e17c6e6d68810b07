--------------------------- MODULE MCConfigService ---------------------------
(* Instances of ConfigService.  In a state with an input nothing happens   *)
(* but that the functions of ConfigValidator are applied to it.            *)
EXTENDS ConfigService

VARIABLE input

User(name, dir, key) ==
  [Username |-> name, Password |-> name, PublicKey |-> key, JailDirectory |-> dir,
   IsCleanDirUser |-> FALSE]
Client(name, dir) == [Name |-> name, Host |-> "h", Port |-> 22, LocalStagingDirectory |-> dir]

Yaml(port, staging, clean, downloaders, on) ==
  [SftpPort |-> port, Webhooks |-> <<[Name |-> "virusFound", Url |-> "u"]>>, LogDests |-> <<>>,
   Flags |-> [k \in Loops |-> on], StagingDirUsers |-> staging, CleanDirUsers |-> clean,
   ClientDownloaders |-> downloaders, ClientUploaders |-> <<>>]

\* One that leaves the port out, a complete one, and one that fails: two Downloaders share a
\* directory, and a user has none.  All have a user "u" and, sooner or later in the list, a
\* user "w" with the key "k".
Minimal == Yaml(0, <<>>, <<User("u", "*", ""), User("w", "*", "k")>>, <<>>, FALSE)
Full ==
  Yaml(22, <<User("w", "e", "l"), User("u", "d", "")>>, <<User("v", "*", ""), User("w", "*", "k")>>,
       <<Client("c", "d")>>, TRUE)
Faulty ==
  Yaml(22, <<User("w", "e", "k"), User("u", "", "")>>, <<>>, <<Client("c", "d"), Client("e", "d")>>, TRUE)
MCYamls == {Minimal, Full, Faulty}

-----------------------------------------------------------------------------
(* Small configurations, for the validator.                                *)

Strings == {"", "a", "*"}
UpTo2(S) == {<<>>} \cup {<<x>> : x \in S} \cup (S \X S)
SomeUsers == [Username : {"", "a"}, Password : {"", "p"}, PublicKey : {""}, JailDirectory : Strings,
              IsCleanDirUser : BOOLEAN]
SomeClients == [Name : {"a", "b", ""}, Host : {"", "h"}, Port : {0, 22},
                LocalStagingDirectory : {"", "d", "e"}]
SomeWebhooks == [Name : {"virusFound", "other"}, Url : {"u", "bad"}]

With(f, values) == {[EmptyConfig EXCEPT ![f] = v] : v \in values}
Samples ==
  With("Users", UpTo2(SomeUsers)) \cup With("ClientDownloaders", UpTo2(SomeClients))
    \cup With("ClientUploaders", UpTo2(SomeClients)) \cup With("Webhooks", UpTo2(SomeWebhooks))

None == <<"none">>
Inputs == {<<"config", c>> : c \in Samples}

Runs(Action) == input = None /\ Action /\ UNCHANGED input

MCInit == Init /\ (input = None \/ (input \in Inputs /\ file = Unparsable))
MCNext ==
  \/ \E y \in Yamls \cup {Unparsable} : Runs(ChangeFile(y))
  \/ Runs(ResetValid) \/ Runs(ReadYaml) \/ Runs(StoreField) \/ Runs(ValidateConfig)
  \/ Runs(Publish) \/ Runs(StartUp) \/ Runs(Loaded)
  \/ Runs(Poll) \/ Runs(TakeEvent) \/ Runs(Notify) \/ Runs(NewDownloaders)
  \/ Runs(NewUploaders) \/ Runs(SetUsers)
  \/ \E k \in Loops : Runs(waitConfigValid(k)) \/ Runs(ReadFlag(k)) \/ Runs(EndRound(k))
mcVars == <<vars, input>>
MCSpec ==
  /\ MCInit /\ [][MCNext]_mcVars
  /\ WF_mcVars(Runs(Load)) /\ WF_mcVars(Runs(Reload))
  /\ \A k \in Loops : WF_mcVars(Runs(LoopStep(k)))

\* Validate accepts exactly the acceptable configurations, hasDupElements finding duplicates
\* at any position (configvalidator.go:26-211).
ValidatorExact == input[1] = "config" => (Validate(input[2]) <=> Acceptable(input[2]))
=============================================================================
