----------------------------- MODULE MCCommands -----------------------------
(***************************************************************************)
(* Instances of Commands for TLC.                                          *)
(***************************************************************************)
EXTENDS Commands

CONSTANTS a, b, p, q

\* Search: the filters let every mail through, or all but one.
AllButOne == {Mails, Mails \ {2}}

\* Listing: two folders, where a criterion is met by some.
TwoBoxes == {a, b}
Some == {<<a, 1>>, <<a, 3>>, <<b, 2>>, <<b, 3>>}

\* Sending: one account may be anything, a second one less; two people.
TwoPeople == {p, q}
Absent == NoSettings.accounts[1]
Null   == [Absent EXCEPT !.block = "null"]
Good   == [block |-> "given", from |-> TRUE, outbound |-> "resend", imap |-> "missing"]
Anything == {Absent, Null} \cup {s \in AccountSettings : s.block = "given"}
SomeSettings ==
  [accounts  : {<<s, t>> : s \in Anything, t \in {Absent, Null, Good}},
   default   : Accounts \cup {NoAccount},
   embedding : {"missing", "bad"}]
SomeOrders ==
  {[account |-> n, to |-> {p}, cc |-> {}, bcc |-> {q}, kind |-> k] :
     n \in 0..2, k \in {"send", "dry-run", "account test"}}
  \cup {[account |-> 0, to |-> t, cc |-> {p}, bcc |-> {}, kind |-> "send"] :
     t \in {{}, {p, q}}}
=============================================================================
