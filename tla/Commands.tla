------------------------------ MODULE Commands ------------------------------
(***************************************************************************)
(* The commands that read or send: a search of the index, a listing of the *)
(* mailbox, the plain text of a mail, and the sending of one.  They share  *)
(* no state, and a process runs one of them (app.go), so once one of them  *)
(* has begun the others stay as they are.                                  *)
(***************************************************************************)
EXTENDS Search, Listing, PlainText, Sending

commandVars == <<searchVars, listingVars, textVars, sendingVars>>

TypeOK == SearchTypeOK /\ ListingTypeOK /\ TextTypeOK /\ SendingTypeOK

Init == SearchInit /\ ListingInit /\ TextInit /\ SendingInit

\* A command goes on while the others are as they began.
OneSearch ==
  /\ ListingInit /\ TextInit /\ SendingInit
  /\ SearchNext
  /\ UNCHANGED <<listingVars, textVars, sendingVars>>

OneListing ==
  /\ SearchInit /\ TextInit /\ SendingInit
  /\ ListingNext
  /\ UNCHANGED <<searchVars, textVars, sendingVars>>

OneText ==
  /\ SearchInit /\ ListingInit /\ SendingInit
  /\ TextNext
  /\ UNCHANGED <<searchVars, listingVars, sendingVars>>

Sends ==
  /\ SearchInit /\ ListingInit /\ TextInit
  /\ SendingNext
  /\ UNCHANGED <<searchVars, listingVars, textVars>>

Next == OneSearch \/ OneListing \/ OneText \/ Sends

Spec == Init /\ [][Next]_commandVars
=============================================================================
