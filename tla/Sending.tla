------------------------------ MODULE Sending ------------------------------
(***************************************************************************)
(* send and account test, and the settings they rest on: what Parse and    *)
(* Validate let pass, which account Resolve finds, and the transport that  *)
(* ForAccount makes of it.  A user may run a command again.                *)
(*                                                                         *)
(* A setting that Validate looks at is good or bad; in which way it is bad *)
(* is left out.  The servers are external: they take a message for all its *)
(* recipients or for none, and their answer may be lost.                   *)
(***************************************************************************)
EXTENDS Integers, FiniteSets, FiniteSetsExt

CONSTANTS
  MaxAccount,  \* bound on accounts, numbered in the order of their names
  People,      \* who may be written to
  Settings,    \* the settings a user may have written
  Orders,      \* the commands a user may give
  MaxCommands  \* bound on commands

NoAccount == 0
Accounts  == 1..MaxAccount

\* "absent": there is no such account; "null": its block is empty.
AccountSettings ==
  [block    : {"absent", "null", "given"},
   from     : BOOLEAN,
   outbound : {"missing", "unknown", "bad", "smtp", "resend", "resend without key"},
   imap     : {"missing", "bad", "good"}]

ASSUME SendingAssumption ==
  /\ MaxAccount \in Nat /\ MaxCommands \in Nat
  /\ Settings \subseteq [accounts  : [Accounts -> AccountSettings],
                         default   : Accounts \cup {NoAccount},
                         embedding : {"missing", "bad", "good"}]
  /\ Orders \subseteq [account : Accounts \cup {NoAccount},
                       to : SUBSET People, cc : SUBSET People, bcc : SUBSET People,
                       kind : {"send", "dry-run", "account test"}]

VARIABLES
  settings,
  order,      \* the command
  phase,      \* where it stands
  account,    \* the account it has resolved
  got,        \* got[p]: how often p has got a message
  \* auxiliary
  told,       \* told[p]: how many commands reported a message to p as sent
  tried,      \* tried[p]: how many were to send one
  commands    \* how many have been run

sendingVars == <<settings, order, phase, account, got, told, tried, commands>>

Phases == {"idle", "load", "resolve", "compose", "send", "verify", "imap", "panic"}
NoOrder == [account |-> NoAccount, to |-> {}, cc |-> {}, bcc |-> {}, kind |-> "send"]
NoSettings == [accounts  |-> [a \in Accounts |-> [block |-> "absent", from |-> FALSE,
                                outbound |-> "missing", imap |-> "missing"]],
               default   |-> NoAccount,
               embedding |-> "missing"]

SendingTypeOK ==
  /\ settings \in Settings \cup {NoSettings}
  /\ order \in Orders \cup {NoOrder}
  /\ phase \in Phases
  /\ account \in Accounts \cup {NoAccount}
  /\ phase \in {"compose", "send", "verify", "imap"} => account # NoAccount
  /\ got \in [People -> Nat] /\ told \in [People -> Nat] /\ tried \in [People -> Nat]
  /\ commands \in 0..MaxCommands

SendingInit ==
  /\ settings = NoSettings
  /\ order = NoOrder /\ phase = "idle" /\ account = NoAccount
  /\ got = [p \in People |-> 0] /\ told = [p \in People |-> 0]
  /\ tried = [p \in People |-> 0] /\ commands = 0

-----------------------------------------------------------------------------
(***************************************************************************)
(* The settings.                                                           *)
(***************************************************************************)
Given == {a \in Accounts : settings.accounts[a].block # "absent"}
Of(a) == settings.accounts[a]

\* Seeded fault: an account may lack its outbound block.
ValidInbound(a) ==
  Of(a).from /\ Of(a).outbound \notin {"unknown", "bad"} /\ Of(a).imap # "bad"

\* What Validate asks of an account and its blocks.
ValidAccount(a) ==
  Of(a).from /\ Of(a).outbound \notin {"missing", "unknown", "bad"} /\ Of(a).imap # "bad"

\* The accounts are looked at by name, up to the first that is not valid; to
\* look at an empty one is a nil dereference.
Faulty == {a \in Given : Of(a).block = "null" \/ ~ValidAccount(a)}
Panics == Faulty # {} /\ Of(Min(Faulty)).block = "null"

\* Validate
Valid ==
  /\ Given # {} /\ Faulty = {}
  /\ settings.embedding # "bad"
  /\ settings.default \in Given \cup {NoAccount}

\* Resolve: the account named, else the default, else the only one.
Resolved(name) ==
  LET n == IF name # NoAccount THEN name ELSE settings.default
  IN  IF n # NoAccount THEN {n} \cap Given
      ELSE IF Cardinality(Given) = 1 THEN Given
      ELSE {}

-----------------------------------------------------------------------------
(***************************************************************************)
(* The commands.                                                           *)
(***************************************************************************)
Counted(count, S) == [p \in People |-> IF p \in S THEN count[p] + 1 ELSE count[p]]

\* The command ends.
Finish ==
  /\ phase' = "idle" /\ order' = NoOrder /\ account' = NoAccount

\* It goes on.
Onward(where) == phase' = where /\ UNCHANGED <<order, account>>

\* A user writes the settings, and then runs commands.
StartCommand(o) ==
  /\ phase = "idle" /\ commands < MaxCommands
  /\ commands' = commands + 1
  /\ settings' \in IF commands = 0 THEN Settings ELSE {settings}
  /\ order' = o /\ phase' = "load"
  /\ tried' = IF o.kind = "send" THEN Counted(tried, o.to \cup o.cc \cup o.bcc) ELSE tried
  /\ UNCHANGED <<account, got, told>>

\* Load: Parse and Validate.
LoadSettings ==
  /\ phase = "load"
  /\ \/ Panics /\ Onward("panic")
     \/ ~Panics /\ ~Valid /\ Finish
     \/ ~Panics /\ Valid /\ Onward("resolve")
  /\ UNCHANGED <<settings, got, told, tried, commands>>

ResolveAccount ==
  /\ phase = "resolve"
  /\ IF Resolved(order.account) = {}
     THEN Finish
     ELSE /\ account' \in Resolved(order.account)
          /\ phase' = IF order.kind = "account test" THEN "verify" ELSE "compose"
          /\ UNCHANGED order
  /\ UNCHANGED <<settings, got, told, tried, commands>>

\* composeInput and buildMessage may fail for reasons of their own; without
\* --to the command fails, and a dry run ends here.
ComposeMessage ==
  /\ phase = "compose"
  /\ \/ Finish
     \/ order.to # {} /\ order.kind = "send" /\ Onward("send")
  /\ UNCHANGED <<settings, got, told, tried, commands>>

\* Seeded fault: the blind copies are left out.
WithoutBcc == order.to \cup order.cc

Recipients == order.to \cup order.cc \cup order.bcc

\* Send, by the transport that ForAccount makes: the server is not reached or
\* refuses, and Resend without its key is not even asked;
SendFails ==
  /\ phase = "send"
  /\ Finish
  /\ UNCHANGED <<settings, got, told, tried, commands>>

\* or it takes the message, and its answer arrives or is lost.
SendTaken ==
  /\ phase = "send" /\ Of(account).outbound # "resend without key"
  /\ got' = Counted(got, Recipients)
  /\ told' \in {told, Counted(told, order.to \cup order.cc \cup order.bcc)}
  /\ Finish
  /\ UNCHANGED <<settings, tried, commands>>

\* account test: Verify,
Verify ==
  /\ phase = "verify"
  /\ IF Of(account).imap = "missing" THEN Finish ELSE Onward("imap")
  /\ UNCHANGED <<settings, got, told, tried, commands>>

\* then a connection to the IMAP server.
ConnectImap ==
  /\ phase = "imap"
  /\ Finish
  /\ UNCHANGED <<settings, got, told, tried, commands>>

SendingNext ==
  \/ \E o \in Orders : StartCommand(o)
  \/ LoadSettings \/ ResolveAccount \/ ComposeMessage \/ SendFails \/ SendTaken
  \/ Verify \/ ConnectImap

-----------------------------------------------------------------------------
(***************************************************************************)
(* Properties.                                                             *)
(***************************************************************************)
\* Settings that load can be used: no command that goes on with them meets an
\* empty block, a transport that ForAccount does not know, or an IMAP block
\* without a server (transport.go:26-38, config.go:162).
LoadedIsUsable ==
  phase \in {"compose", "send", "verify", "imap"} =>
    /\ Of(account).block = "given" /\ Of(account).from
    /\ Of(account).outbound \in {"smtp", "resend", "resend without key"}
    /\ phase = "imap" => Of(account).imap = "good"

\* However often a user runs send again, nobody gets more messages than there
\* were commands to send one, and everybody addressed, the blind copies too,
\* gets each that was reported as sent; a dry run and account test send none.
SentAsReported ==
  \A p \in People : told[p] <= got[p] /\ got[p] <= tried[p]
=============================================================================
