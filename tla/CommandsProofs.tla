--------------------------- MODULE CommandsProofs ---------------------------
(***************************************************************************)
(* Proofs about the commands that read or send: type correctness; that     *)
(* settings that load can be used (LoadedIsUsable) and that what is sent   *)
(* is reported (SentAsReported); that the plain text of a mail follows its *)
(* HTML (Tracks); and that a listing shows the newest messages             *)
(* (NewestShown) and a search the best ones (RightHits).                   *)
(***************************************************************************)
EXTENDS Commands, FiniteSetTheorems, SequenceTheorems, TLAPS

-----------------------------------------------------------------------------
(***************************************************************************)
(* Ordering.                                                               *)
(***************************************************************************)
\* A strict total order of S.
TotalOrder(S, R) ==
  /\ \A x \in S : <<x, x>> \notin R
  /\ \A x, y \in S : x # y => <<x, y>> \in R \/ <<y, x>> \in R
  /\ \A x, y, z \in S : <<x, y>> \in R /\ <<y, z>> \in R => <<x, z>> \in R

\* Who comes first has fewer ahead.
LEMMA FewerAhead ==
  ASSUME NEW S, IsFiniteSet(S), NEW R, TotalOrder(S, R),
         NEW x \in S, NEW y \in S, <<x, y>> \in R
  PROVE  Cardinality(Ahead(x, S, R)) < Cardinality(Ahead(y, S, R))
<1>1. Ahead(x, S, R) \cup {x} \subseteq Ahead(y, S, R)
  BY DEF Ahead, TotalOrder
<1>2. x \notin Ahead(x, S, R)
  BY DEF Ahead, TotalOrder
<1>3. IsFiniteSet(Ahead(x, S, R)) /\ IsFiniteSet(Ahead(y, S, R))
  BY FS_Subset DEF Ahead
<1>4. Cardinality(Ahead(x, S, R) \cup {x}) = Cardinality(Ahead(x, S, R)) + 1
  BY <1>2, <1>3, FS_AddElement
<1>5. Cardinality(Ahead(x, S, R) \cup {x}) <= Cardinality(Ahead(y, S, R))
  BY <1>1, <1>3, FS_Subset
<1> QED BY <1>3, <1>4, <1>5, FS_CardinalityType

\* Each number below the size of the set is the place of one element.
LEMMA Places ==
  ASSUME NEW S, IsFiniteSet(S), NEW R, TotalOrder(S, R)
  PROVE  /\ \A x \in S : Cardinality(Ahead(x, S, R)) \in 0 .. Cardinality(S) - 1
         /\ \A x, y \in S : Cardinality(Ahead(x, S, R)) = Cardinality(Ahead(y, S, R))
                              => x = y
         /\ \A n \in 1 .. Cardinality(S) :
              \E x \in S : Cardinality(Ahead(x, S, R)) = n - 1
<1> DEFINE place(x) == Cardinality(Ahead(x, S, R))
           F == [x \in S |-> place(x) + 1]
<1>n. Cardinality(S) \in Nat
  BY FS_CardinalityType
<1>1. ASSUME NEW x \in S PROVE place(x) \in 0 .. Cardinality(S) - 1
  <2>1. Ahead(x, S, R) \subseteq S /\ x \notin Ahead(x, S, R)
    BY DEF Ahead, TotalOrder
  <2>2. IsFiniteSet(Ahead(x, S, R)) /\ place(x) <= Cardinality(S)
        /\ place(x) # Cardinality(S)
    BY <2>1, FS_Subset
  <2>3. place(x) \in Nat
    BY <2>2, FS_CardinalityType
  <2> QED BY <1>n, <2>2, <2>3
<1>2. ASSUME NEW x \in S, NEW y \in S, place(x) = place(y) PROVE x = y
  <2>1. ~(place(x) < place(y)) /\ ~(place(y) < place(x))
    BY <1>1, <1>2
  <2> HIDE DEF place
  <2>2. <<x, y>> \notin R /\ <<y, x>> \notin R
    BY <2>1, FewerAhead DEF place
  <2> QED BY <2>2 DEF TotalOrder
<1> HIDE DEF place
<1>3. F \in [S -> 1 .. Cardinality(S)]
  BY <1>1, <1>n
<1>4. F \in Injection(S, 1 .. Cardinality(S))
  <2>1. \A x, y \in S : F[x] = F[y] => x = y
    BY <1>1, <1>2
  <2> QED BY <1>3, <2>1 DEF Injection, IsInjective
<1>5. IsFiniteSet(1 .. Cardinality(S)) /\ Cardinality(1 .. Cardinality(S)) = Cardinality(S)
  BY <1>n, FS_Interval
<1>6. F \in Surjection(S, 1 .. Cardinality(S))
  BY <1>4, <1>5, FS_Injection
<1>7. \A n \in 1 .. Cardinality(S) : \E x \in S : F[x] = n
  BY <1>6 DEF Surjection
<1>8. ASSUME NEW n \in 1 .. Cardinality(S) PROVE \E x \in S : place(x) = n - 1
  <2>1. PICK x \in S : F[x] = n
    BY <1>7
  <2> QED BY <2>1, <1>1, <1>n
<1> QED BY <1>1, <1>2, <1>8 DEF place

\* Arranged puts the elements in their order, each of them once.
LEMMA ArrangedInOrder ==
  ASSUME NEW S, IsFiniteSet(S), NEW R, TotalOrder(S, R),
         NEW s, s = Arranged(S, R)
  PROVE  /\ Cardinality(S) \in Nat
         /\ s \in [1 .. Cardinality(S) -> S]
         /\ s \in Seq(S) /\ Len(s) = Cardinality(S)
         /\ \A x \in S : \E n \in 1 .. Cardinality(S) : s[n] = x
         /\ \A m, n \in 1 .. Cardinality(S) : m < n => <<s[m], s[n]>> \in R
<1> DEFINE place(x) == Cardinality(Ahead(x, S, R))
<1>n. Cardinality(S) \in Nat
  BY FS_CardinalityType
<1>1. ASSUME NEW n \in 1 .. Cardinality(S)
      PROVE  s[n] \in S /\ place(s[n]) = n - 1
  <2>1. \E x \in S : place(x) = n - 1
    BY Places
  <2>2. s[n] = CHOOSE x \in S : place(x) = n - 1
    BY DEF Arranged
  <2> QED BY <2>1, <2>2
<1>2. s \in [1 .. Cardinality(S) -> S]
  BY <1>1 DEF Arranged
<1>3. s \in Seq(S) /\ Len(s) = Cardinality(S)
  BY <1>2, <1>n
<1>4. ASSUME NEW x \in S PROVE \E n \in 1 .. Cardinality(S) : s[n] = x
  <2>1. place(x) \in 0 .. Cardinality(S) - 1
    BY Places
  <2>2. place(x) + 1 \in 1 .. Cardinality(S) /\ place(x) = (place(x) + 1) - 1
    BY <2>1, <1>n
  <2>3. place(s[place(x) + 1]) = place(x) /\ s[place(x) + 1] \in S
    BY <2>2, <1>1
  <2>4. s[place(x) + 1] = x
    BY <2>3, Places
  <2> QED BY <2>2, <2>4
<1>5. ASSUME NEW m \in 1 .. Cardinality(S), NEW n \in 1 .. Cardinality(S), m < n
      PROVE  <<s[m], s[n]>> \in R
  <2>1. place(s[m]) < place(s[n]) /\ s[m] \in S /\ s[n] \in S
    BY <1>1, <1>5, <1>n
  <2>2. place(s[m]) \in Int /\ place(s[n]) \in Int
    BY <2>1, Places
  <2> HIDE DEF place
  <2>3. <<s[n], s[m]>> \notin R
    <3>1. SUFFICES ASSUME <<s[n], s[m]>> \in R PROVE FALSE
      OBVIOUS
    <3>2. place(s[n]) < place(s[m])
      BY <2>1, <3>1, FewerAhead DEF place
    <3> QED BY <3>2, <2>1, <2>2
  <2>4. s[m] # s[n]
    BY <2>1, <2>2
  <2> QED BY <2>1, <2>3, <2>4 DEF TotalOrder
<1> QED BY <1>n, <1>2, <1>3, <1>4, <1>5

-----------------------------------------------------------------------------
(***************************************************************************)
(* Sending.                                                                *)
(***************************************************************************)
\* How often each person was counted stays a number.
LEMMA CountedType ==
  ASSUME NEW count \in [People -> Nat], NEW S
  PROVE  /\ Counted(count, S) \in [People -> Nat]
         /\ \A q \in People : Counted(count, S)[q] = IF q \in S THEN count[q] + 1 ELSE count[q]
BY DEF Counted

LEMMA SendingConstants ==
  /\ MaxAccount \in Nat /\ MaxCommands \in Nat
  /\ NoAccount \notin Accounts
<1>1. MaxAccount \in Nat /\ MaxCommands \in Nat
  BY SendingAssumption
<1>2. NoAccount \notin Accounts
  BY <1>1 DEF NoAccount, Accounts
<1> QED BY <1>1, <1>2

LEMMA SettingsType ==
  ASSUME SendingTypeOK
  PROVE  settings.accounts \in [Accounts -> AccountSettings]
<1>1. CASE settings = NoSettings
  <2>1. NoSettings.accounts = [a \in Accounts |-> [block |-> "absent", from |-> FALSE,
                                outbound |-> "missing", imap |-> "missing"]]
    BY DEF NoSettings
  <2>2. [block |-> "absent", from |-> FALSE, outbound |-> "missing", imap |-> "missing"]
          \in AccountSettings
    BY DEF AccountSettings
  <2> QED BY <1>1, <2>1, <2>2
<1>2. CASE settings \in Settings
  <2>1. Settings \subseteq [accounts  : [Accounts -> AccountSettings],
                            default   : Accounts \cup {NoAccount},
                            embedding : {"missing", "bad", "good"}]
    BY SendingAssumption
  <2> QED BY <1>2, <2>1
<1> QED BY <1>1, <1>2 DEF SendingTypeOK

\* An account that is resolved is one of those there are.
LEMMA ResolvedIsGiven == ASSUME NEW n PROVE Resolved(n) \subseteq Given
BY DEF Resolved

\* What an accepted configuration says of an account.
LEMMA ValidIsUsable ==
  ASSUME SendingTypeOK, Valid, NEW a \in Given
  PROVE  /\ Of(a).block = "given" /\ Of(a).from
         /\ Of(a).outbound \in {"smtp", "resend", "resend without key"}
         /\ Of(a).imap \in {"missing", "good"}
<1>1. a \in Accounts /\ Of(a).block # "absent"
  BY DEF Given, Of
<1>2. ValidAccount(a) /\ Of(a).block # "null"
  BY DEF Valid, Faulty
<1>3. settings.accounts \in [Accounts -> AccountSettings]
  BY SettingsType
<1>4. Of(a) \in AccountSettings
  BY <1>1, <1>3 DEF Of
<1> QED BY <1>1, <1>2, <1>4 DEF AccountSettings, ValidAccount

\* Behind Load the settings are valid, and the account is one of them.
LoadedInv ==
  /\ phase \in {"resolve", "compose", "send", "verify", "imap"} => Valid
  /\ phase \in {"compose", "send", "verify", "imap"} => account \in Given
  /\ phase = "imap" => Of(account).imap # "missing"

\* A command that has not sent its message yet is counted in tried.
ReportInv ==
  /\ SentAsReported
  /\ phase = "send" => order.kind = "send"
  /\ phase \in {"load", "resolve", "compose", "send"} /\ order.kind = "send" =>
       \A q \in order.to \cup order.cc \cup order.bcc : q \in People => got[q] < tried[q]

SendingInv == SendingTypeOK /\ LoadedInv /\ ReportInv

LEMMA SendingStart == SendingInit => SendingInv
<1> SUFFICES ASSUME SendingInit PROVE SendingInv
  OBVIOUS
<1>1. SendingTypeOK
  <2>1. /\ got \in [People -> Nat] /\ told \in [People -> Nat] /\ tried \in [People -> Nat]
    BY DEF SendingInit
  <2>2. 0 \in 0 .. MaxCommands
    BY SendingConstants
  <2> QED BY <2>1, <2>2 DEF SendingInit, SendingTypeOK, Phases
<1>2. LoadedInv
  BY DEF SendingInit, LoadedInv
<1>3. ReportInv
  BY DEF SendingInit, ReportInv, SentAsReported
<1> QED BY <1>1, <1>2, <1>3 DEF SendingInv

LEMMA SendingTypeStep ==
  ASSUME SendingTypeOK, SendingNext
  PROVE  SendingTypeOK'
<1> USE DEF SendingTypeOK, Phases
<1>f. ASSUME Finish, UNCHANGED <<settings, tried, commands>>,
             got' \in [People -> Nat], told' \in [People -> Nat]
      PROVE  SendingTypeOK'
  BY <1>f DEF Finish
<1>1. ASSUME NEW o \in Orders, StartCommand(o)
      PROVE  SendingTypeOK'
  <2>1. tried' \in [People -> Nat]
    <3>1. tried' \in {tried, Counted(tried, o.to \cup o.cc \cup o.bcc)}
      BY <1>1 DEF StartCommand
    <3> QED BY <3>1, CountedType
  <2>2. settings' \in Settings \cup {NoSettings}
    BY <1>1 DEF StartCommand
  <2>3. commands' \in 0 .. MaxCommands
    <3>1. commands \in 0 .. MaxCommands /\ commands < MaxCommands /\ commands' = commands + 1
      BY <1>1 DEF StartCommand
    <3> QED BY <3>1, SendingConstants
  <2> QED BY <1>1, <2>1, <2>2, <2>3 DEF StartCommand
<1>2. CASE LoadSettings
  BY <1>2, <1>f DEF LoadSettings, Onward
<1>3. CASE ResolveAccount
  <2>1. \A a \in Given : a \in Accounts /\ a # NoAccount
    BY SendingConstants DEF Given
  <2>2. CASE Resolved(order.account) # {}
    <3>1. account' \in Given
      BY <1>3, <2>2, ResolvedIsGiven DEF ResolveAccount
    <3> QED BY <1>3, <2>1, <2>2, <3>1 DEF ResolveAccount
  <2> QED BY <1>3, <1>f, <2>2 DEF ResolveAccount
<1>4. CASE ComposeMessage
  BY <1>4, <1>f DEF ComposeMessage, Onward
<1>5. CASE SendFails \/ ConnectImap
  BY <1>5, <1>f DEF SendFails, ConnectImap
<1>6. CASE SendTaken
  <2>1. got' \in [People -> Nat] /\ told' \in [People -> Nat]
    <3>1. /\ got' = Counted(got, Recipients)
          /\ told' \in {told, Counted(told, order.to \cup order.cc \cup order.bcc)}
      BY <1>6 DEF SendTaken
    <3> QED BY <3>1, CountedType
  <2> QED BY <1>6, <1>f, <2>1 DEF SendTaken
<1>7. CASE Verify
  BY <1>7, <1>f DEF Verify, Onward
<1> HIDE DEF SendingTypeOK
<1> QED BY <1>1, <1>2, <1>3, <1>4, <1>5, <1>6, <1>7 DEF SendingNext

LEMMA LoadedStep ==
  ASSUME SendingTypeOK, LoadedInv, SendingNext
  PROVE  LoadedInv'
<1> USE DEF LoadedInv
<1>v. ASSUME settings' = settings
      PROVE  Valid' = Valid /\ Given' = Given /\ Of(account)' = settings.accounts[account']
  BY <1>v DEF Valid, Given, Faulty, ValidAccount, Of
<1>f. CASE Finish
  BY <1>f DEF Finish
<1>1. ASSUME NEW o \in Orders, StartCommand(o)
      PROVE  LoadedInv'
  BY <1>1 DEF StartCommand
<1>2. CASE LoadSettings
  BY <1>2, <1>f, <1>v DEF LoadSettings, Onward
<1>3. CASE ResolveAccount
  BY <1>3, <1>f, <1>v, ResolvedIsGiven DEF ResolveAccount
<1>4. CASE ComposeMessage
  BY <1>4, <1>f, <1>v DEF ComposeMessage, Onward
<1>5. CASE SendFails \/ SendTaken \/ ConnectImap
  BY <1>5, <1>f DEF SendFails, SendTaken, ConnectImap
<1>6. CASE Verify
  BY <1>6, <1>f, <1>v DEF Verify, Onward, Of
<1> HIDE DEF LoadedInv
<1> QED BY <1>1, <1>2, <1>3, <1>4, <1>5, <1>6 DEF SendingNext

LEMMA ReportStep ==
  ASSUME SendingTypeOK, ReportInv, SendingNext
  PROVE  ReportInv'
<1> USE DEF ReportInv, SentAsReported
<1>t. /\ got \in [People -> Nat] /\ told \in [People -> Nat] /\ tried \in [People -> Nat]
      /\ phase \in Phases
  BY DEF SendingTypeOK
<1>f. ASSUME Finish, UNCHANGED <<got, told, tried>>
      PROVE  ReportInv'
  BY <1>f DEF Finish
<1>1. ASSUME NEW o \in Orders, StartCommand(o)
      PROVE  ReportInv'
  <2>1. CASE o.kind = "send"
    <3>1. /\ tried' = Counted(tried, o.to \cup o.cc \cup o.bcc) /\ order' = o
          /\ phase' = "load" /\ got' = got /\ told' = told
      BY <1>1, <2>1 DEF StartCommand
    <3>2. \A q \in People : tried'[q] = IF q \in o.to \cup o.cc \cup o.bcc
                                        THEN tried[q] + 1 ELSE tried[q]
      BY <3>1, <1>t, CountedType
    <3>3. \A q \in People : tried'[q] >= tried[q] /\ tried'[q] \in Nat
      BY <3>2, <1>t
    <3>p. \A q \in People : /\ got[q] \in Nat /\ tried[q] \in Nat /\ told[q] \in Nat
                            /\ told[q] <= got[q] /\ got[q] <= tried[q]
      BY <1>t
    <3>4. \A q \in People : told'[q] <= got'[q] /\ got'[q] <= tried'[q]
      <4> TAKE q \in People
      <4>1. got'[q] = got[q] /\ told'[q] = told[q]
        BY <3>1
      <4> QED BY <4>1, <3>p, <3>3
    <3>5. \A q \in o.to \cup o.cc \cup o.bcc : q \in People => got'[q] < tried'[q]
      <4> TAKE q \in o.to \cup o.cc \cup o.bcc
      <4> HAVE q \in People
      <4>1. got'[q] = got[q] /\ tried'[q] = tried[q] + 1
        BY <3>1, <3>2
      <4> QED BY <4>1, <3>p
    <3> QED BY <3>1, <3>4, <3>5
  <2>2. CASE o.kind # "send"
    BY <1>1, <2>2 DEF StartCommand
  <2> QED BY <2>1, <2>2
<1>2. CASE LoadSettings
  BY <1>2, <1>f DEF LoadSettings, Onward
<1>3. CASE ResolveAccount
  BY <1>3, <1>f DEF ResolveAccount
<1>4. CASE ComposeMessage
  BY <1>4, <1>f DEF ComposeMessage, Onward
<1>5. CASE SendFails \/ ConnectImap
  BY <1>5, <1>f DEF SendFails, ConnectImap
<1>6. CASE SendTaken
  <2>1. /\ phase = "send" /\ phase' = "idle" /\ tried' = tried
        /\ got' = Counted(got, Recipients)
        /\ told' = told \/ told' = Counted(told, Recipients)
    BY <1>6 DEF SendTaken, Finish, Recipients
  <2>2. \A q \in Recipients : q \in People => got[q] < tried[q]
    BY <2>1 DEF Recipients
  <2>3. \A q \in People : /\ got'[q] = IF q \in Recipients THEN got[q] + 1 ELSE got[q]
                          /\ told'[q] \in {told[q], IF q \in Recipients THEN told[q] + 1
                                                                         ELSE told[q]}
    BY <2>1, <1>t, CountedType
  <2>4. \A q \in People : told'[q] <= got'[q] /\ got'[q] <= tried'[q]
    BY <2>1, <2>2, <2>3, <1>t
  <2> QED BY <2>1, <2>4
<1>7. CASE Verify
  BY <1>7, <1>f DEF Verify, Onward
<1> HIDE DEF ReportInv
<1> QED BY <1>1, <1>2, <1>3, <1>4, <1>5, <1>6, <1>7 DEF SendingNext

LEMMA SendingStep ==
  ASSUME SendingInv, SendingNext \/ UNCHANGED sendingVars
  PROVE  SendingInv'
<1>1. CASE SendingNext
  BY <1>1, SendingTypeStep, LoadedStep, ReportStep DEF SendingInv
<1>2. CASE UNCHANGED sendingVars
  <2>1. SendingTypeOK'
    BY <1>2 DEF SendingInv, sendingVars, SendingTypeOK
  <2>2. LoadedInv'
    BY <1>2 DEF SendingInv, sendingVars, LoadedInv, Valid, Given, Faulty, ValidAccount, Of
  <2>3. ReportInv'
    BY <1>2 DEF SendingInv, sendingVars, ReportInv, SentAsReported
  <2> QED BY <2>1, <2>2, <2>3 DEF SendingInv
<1> QED BY <1>1, <1>2

LEMMA SendingSafe == SendingInv => LoadedIsUsable /\ SentAsReported
<1> SUFFICES ASSUME SendingInv PROVE LoadedIsUsable /\ SentAsReported
  OBVIOUS
<1>1. ASSUME phase \in {"compose", "send", "verify", "imap"}
      PROVE  /\ Of(account).block = "given" /\ Of(account).from
             /\ Of(account).outbound \in {"smtp", "resend", "resend without key"}
             /\ Of(account).imap \in {"missing", "good"}
  BY <1>1, ValidIsUsable DEF SendingInv, LoadedInv
<1>2. phase = "imap" => Of(account).imap # "missing"
  BY DEF SendingInv, LoadedInv
<1> QED BY <1>1, <1>2 DEF LoadedIsUsable, SendingInv, ReportInv

-----------------------------------------------------------------------------
(***************************************************************************)
(* The plain text of a mail.                                               *)
(***************************************************************************)
LEMMA OneLess ==
  ASSUME NEW k \in Nat, k >= 1
  PROVE  (IF 1 <= k - 1 THEN k - 1 - 1 + 1 ELSE 0) = k - 1
OBVIOUS

\* The last element of a sequence, and those before it.
LEMMA Shortened ==
  ASSUME NEW S, NEW s \in Seq(S), s # <<>>
  PROVE  /\ Len(s) \in Nat \ {0} /\ s[Len(s)] \in S
         /\ SubSeq(s, 1, Len(s) - 1) \in Seq(S) 
         /\ Len(SubSeq(s, 1, Len(s) - 1)) = Len(s) - 1
         /\ DOMAIN SubSeq(s, 1, Len(s) - 1) = 1 .. Len(s) - 1
         /\ \A i \in 1 .. Len(s) - 1 : SubSeq(s, 1, Len(s) - 1)[i] = s[i]
<1> DEFINE t == SubSeq(s, 1, Len(s) - 1)
<1>1. Len(s) \in Nat /\ Len(s) >= 1
  OBVIOUS
<1>2. s[Len(s)] \in S /\ \A i \in 1 .. Len(s) - 1 : s[i] \in S
  OBVIOUS
<1>3. t \in Seq(S)
  BY <1>1, <1>2, SubSeqProperties
<1>4. Len(t) = IF 1 <= Len(s) - 1 THEN Len(s) - 1 - 1 + 1 ELSE 0
  BY <1>1, <1>2, SubSeqProperties
<1>5. \A i \in 1 .. Len(s) - 1 - 1 + 1 : t[i] = s[1 + i - 1]
  BY <1>1, <1>2, SubSeqProperties
<1> HIDE DEF t
<1>6. Len(t) = Len(s) - 1
  BY <1>1, <1>4, OneLess, Zenon
<1>7. ASSUME NEW i \in 1 .. Len(s) - 1 PROVE t[i] = s[i]
  <2>1. i \in 1 .. Len(s) - 1 - 1 + 1 /\ 1 + i - 1 = i
    BY <1>1
  <2>2. t[i] = s[1 + i - 1]
    BY <2>1, <1>5
  <2> QED BY <2>1, <2>2
<1>8. DOMAIN t = 1 .. Len(s) - 1
  BY <1>3, <1>6, LenProperties
<1> QED BY <1>1, <1>2, <1>3, <1>6, <1>7, <1>8 DEF t

\* How deep the document is outside of what is hidden.
Depth == Len(open) - hidden

\* Nothing outside is hidden; hidden counts from the element that hides; and
\* the innermost elements outside, as many as skip says, are the skipTags.
DepthInv ==
  /\ Depth >= 0 /\ skip <= Depth
  /\ \A i \in 1 .. Depth : /\ ~open[i].hides
                           /\ open[i].kind = "skip" <=> i > Depth - skip
  /\ hidden > 0 => open[Depth + 1].hides

\* The links awaited are those outside.
LinksInv ==
  /\ {links[n] : n \in DOMAIN links} = {i \in 1 .. Depth : open[i].kind = "link"}
  /\ \A m, n \in DOMAIN links : m < n => links[m] < links[n]

TextInv == TextTypeOK /\ (~miscounted => DepthInv /\ LinksInv)

LEMMA TextStart == TextInit => TextInv
<1> SUFFICES ASSUME TextInit PROVE TextInv
  OBVIOUS
<1>1. TextTypeOK
  <2>1. <<>> \in Seq(Element) /\ Len(<<>>) = 0 /\ <<>> \in Seq(1 .. MaxDepth)
    OBVIOUS
  <2>2. open = <<>> /\ links = <<>> /\ skip = 0 /\ hidden = 0
    BY DEF TextInit
  <2>3. miscounted \in BOOLEAN
    BY DEF TextInit
  <2> QED BY <2>1, <2>2, <2>3, DepthAssumption DEF TextTypeOK
<1>2. DepthInv /\ LinksInv
  BY DEF TextInit, DepthInv, LinksInv, Depth
<1> QED BY <1>1, <1>2 DEF TextInv

\* A start tag with an end tag adds an element at the end.
LEMMA Opened ==
  ASSUME TextTypeOK, NEW kind \in Kinds \ {"void"}, NEW hides \in BOOLEAN,
         Len(open) < MaxDepth, open' = Append(open, [kind |-> kind, hides |-> hides])
  PROVE  /\ open' \in Seq(Element) /\ Len(open') = Len(open) + 1
         /\ Len(open') \in 1 .. MaxDepth /\ Len(open) \in Nat
         /\ \A i \in 1 .. Len(open) : open'[i] = open[i]
         /\ open'[Len(open) + 1] = [kind |-> kind, hides |-> hides]
<1>1. [kind |-> kind, hides |-> hides] \in Element
  BY DEF Element
<1>2. open \in Seq(Element) /\ Len(open) \in Nat
  BY DEF TextTypeOK
<1> QED BY <1>1, <1>2, AppendProperties, DepthAssumption

LEMMA StartTagStep ==
  ASSUME TextInv, ~miscounted, NEW kind \in Kinds, NEW hides \in BOOLEAN, StartTag(kind, hides)
  PROVE  TextInv'
<1> USE DEF TextInv, TextTypeOK
<1>t. /\ open \in Seq(Element) /\ Len(open) \in Nat /\ skip \in Nat /\ hidden \in Nat
      /\ DOMAIN open = 1 .. Len(open) /\ miscounted' = miscounted
      /\ links \in Seq(1 .. MaxDepth)
  BY DEF StartTag
<1>l. LinksInv
  OBVIOUS
<1>1. CASE kind = "void"
  <2>1. UNCHANGED textVars
    BY <1>1, <1>t DEF StartTag, Opens, textVars
  <2> QED BY <2>1 DEF textVars, DepthInv, LinksInv, Depth
<1>2. CASE kind # "void"
  <2>o. Len(open) < MaxDepth /\ open' = Append(open, [kind |-> kind, hides |-> hides])
    BY <1>2 DEF StartTag
  <2>a. /\ open' \in Seq(Element) /\ Len(open') = Len(open) + 1
        /\ Len(open') \in 1 .. MaxDepth
        /\ \A i \in 1 .. Len(open) : open'[i] = open[i]
        /\ open'[Len(open) + 1] = [kind |-> kind, hides |-> hides]
    BY <1>2, <2>o, Opened
  <2>1. CASE hidden > 0 \/ hides
    <3>1. hidden' = hidden + 1 /\ UNCHANGED <<skip, links>>
      BY <1>2, <2>1, <1>t DEF StartTag, Opens
    <3>2. Depth' = Depth /\ Depth \in Int /\ Depth <= Len(open)
      BY <3>1, <2>a, <1>t DEF Depth
    <3>3. DepthInv'
      <4>1. Depth + 1 <= Len(open) => Depth + 1 \in 1 .. Len(open)
        BY <3>2, <1>t DEF DepthInv
      <4>2. hidden = 0 => Depth = Len(open) /\ hides
        BY <2>1, <1>t DEF Depth
      <4>3. hidden > 0 => Depth + 1 <= Len(open)
        BY <1>t DEF Depth
      <4>4. open'[Depth + 1].hides
        BY <4>1, <4>2, <4>3, <2>a, <1>t DEF DepthInv
      <4>5. \A i \in 1 .. Depth : open'[i] = open[i]
        BY <3>2, <2>a, <1>t
      <4> QED BY <3>1, <3>2, <4>4, <4>5 DEF DepthInv
    <3>4. LinksInv'
      <4>1. \A i \in 1 .. Depth : open'[i] = open[i]
        BY <3>2, <2>a, <1>t
      <4> QED BY <3>1, <3>2, <4>1 DEF LinksInv
    <3> QED BY <3>1, <3>3, <3>4, <2>a, <1>t
  <2>2. CASE hidden = 0 /\ ~hides
    <3>1. /\ hidden' = hidden
          /\ skip' = (IF kind = "skip" THEN skip + 1 ELSE skip)
          /\ links' = (IF kind = "link" THEN Append(links, Len(open')) ELSE links)
          /\ kind \in {"link", "other"} => ~Holds("skip")
      BY <2>2, <1>t DEF StartTag, MayHold
    <3>2. Depth = Len(open) /\ Depth' = Len(open) + 1
      BY <3>1, <2>2, <2>a, <1>t DEF Depth
    <3>3. kind # "skip" => skip = 0
      <4> SUFFICES ASSUME kind # "skip", skip # 0 PROVE FALSE
        OBVIOUS
      <4>1. kind \in {"link", "other"}
        BY <1>2 DEF Kinds
      <4>2. Depth \in 1 .. Depth /\ Depth > Depth - skip
        BY <3>2, <1>t DEF DepthInv
      <4>3. open[Depth].kind = "skip"
        BY <4>2 DEF DepthInv
      <4> QED BY <4>1, <4>2, <4>3, <3>1, <3>2, <1>t DEF Holds
    <3>4. DepthInv'
      <4>1. skip' \in Nat /\ skip' <= Depth'
        BY <3>1, <3>2, <1>t DEF DepthInv
      <4>2. ASSUME NEW i \in 1 .. Depth'
            PROVE  ~open'[i].hides /\ (open'[i].kind = "skip" <=> i > Depth' - skip')
        <5>1. CASE i = Len(open) + 1
          BY <5>1, <3>1, <3>2, <3>3, <2>2, <2>a, <1>t
        <5>2. CASE i # Len(open) + 1
          <6>1. i \in 1 .. Depth /\ open'[i] = open[i]
            BY <5>2, <3>2, <2>a, <1>t
          <6>2. i > Depth - skip <=> i > Depth' - skip'
            BY <6>1, <3>1, <3>2, <3>3, <1>t
          <6> QED BY <6>1, <6>2 DEF DepthInv
        <5> QED BY <5>1, <5>2
      <4> QED BY <4>1, <4>2, <3>1, <3>2, <2>2, <1>t DEF DepthInv
    <3>5. links' \in Seq(1 .. MaxDepth) /\ LinksInv'
      <4>1. CASE kind = "link"
        <5>1. /\ links' \in Seq(1 .. MaxDepth) /\ Len(links') = Len(links) + 1
              /\ \A n \in 1 .. Len(links) : links'[n] = links[n]
              /\ links'[Len(links) + 1] = Len(open) + 1 /\ Len(links) \in Nat
              /\ DOMAIN links' = 1 .. Len(links) + 1 /\ DOMAIN links = 1 .. Len(links)
          BY <4>1, <3>1, <2>a, <1>t, AppendProperties, LenProperties
        <5>2. \A n \in DOMAIN links : links[n] \in 1 .. Len(open)
          BY <3>2 DEF LinksInv
        <5>3. \A i \in 1 .. Len(open) : open'[i] = open[i]
          BY <2>a
        <5>4. {links'[n] : n \in DOMAIN links'} = {links[n] : n \in DOMAIN links} \cup {Len(open) + 1}
          BY <5>1
        <5>5. {i \in 1 .. Depth' : open'[i].kind = "link"}
                = {i \in 1 .. Depth : open[i].kind = "link"} \cup {Len(open) + 1}
          BY <5>3, <3>2, <2>a, <1>t, <4>1
        <5>6. \A m, n \in DOMAIN links' : m < n => links'[m] < links'[n]
          <6> HIDE DEF TextInv, TextTypeOK
          <6>1. SUFFICES ASSUME NEW m \in DOMAIN links', NEW n \in DOMAIN links', m < n
                         PROVE  links'[m] < links'[n]
            OBVIOUS
          <6>2. m \in DOMAIN links /\ m \in 1 .. Len(links) /\ links'[m] = links[m]
            BY <6>1, <5>1
          <6>3. CASE n = Len(links) + 1
            <7>1. links'[n] = Len(open) + 1 /\ links[m] \in 1 .. Len(open)
              BY <6>2, <6>3, <5>1, <5>2
            <7> QED BY <7>1, <6>2, <2>a
          <6>4. CASE n # Len(links) + 1
            <7>1. n \in DOMAIN links /\ links'[n] = links[n]
              BY <6>4, <5>1
            <7>2. LinksInv
              BY <1>l
            <7>3. links[m] < links[n]
              BY <7>1, <7>2, <6>1, <6>2 DEF LinksInv
            <7> QED BY <7>1, <7>3, <6>2
          <6> QED BY <6>3, <6>4
        <5> QED BY <5>1, <5>4, <5>5, <5>6 DEF LinksInv
      <4>2. CASE kind # "link"
        <5>1. {i \in 1 .. Depth' : open'[i].kind = "link"} = {i \in 1 .. Depth : open[i].kind = "link"}
          BY <4>2, <3>2, <2>a, <1>t
        <5> QED BY <4>2, <3>1, <5>1, <1>t DEF LinksInv
      <4> QED BY <4>1, <4>2
    <3> QED BY <3>1, <3>4, <3>5, <2>a, <1>t
  <2> QED BY <2>1, <2>2, <1>t
<1> QED BY <1>1, <1>2

LEMMA EndTagStep ==
  ASSUME TextInv, ~miscounted, EndTag
  PROVE  TextInv'
<1> USE DEF TextInv, TextTypeOK
<1>t. /\ open \in Seq(Element) /\ skip \in Nat /\ hidden \in Nat
      /\ miscounted' = miscounted /\ links \in Seq(1 .. MaxDepth) /\ open # <<>>
  BY DEF EndTag
<1>a. /\ Len(open) \in Nat \ {0} /\ open[Len(open)] \in Element
      /\ open' \in Seq(Element) /\ Len(open') = Len(open) - 1
      /\ \A i \in 1 .. Len(open) - 1 : open'[i] = open[i]
  <2>1. open' = SubSeq(open, 1, Len(open) - 1)
    BY DEF EndTag, Outer
  <2> HIDE DEF TextInv, TextTypeOK
  <2> QED BY <2>1, <1>t, Shortened
<1>m. Len(open') <= MaxDepth
  BY <1>a, DepthAssumption
<1>i. DepthInv
  OBVIOUS
<1>1. CASE hidden > 0
  <2>1. hidden' = hidden - 1 /\ UNCHANGED <<skip, links>>
    BY <1>1 DEF EndTag, CountEnd
  <2>2. Depth' = Depth /\ Depth \in Int /\ Depth <= Len(open) - 1
    BY <2>1, <1>a, <1>1, <1>t DEF Depth
  <2>3. \A i \in 1 .. Depth : open'[i] = open[i]
    BY <2>2, <1>a
  <2>4. DepthInv'
    <3>1. hidden' > 0 => Depth + 1 \in 1 .. Len(open) - 1
      BY <2>1, <2>2, <1>a, <1>t DEF Depth, DepthInv
    <3>2. hidden' > 0 => open'[Depth + 1].hides
      BY <3>1, <1>a, <1>1 DEF DepthInv
    <3> QED BY <2>1, <2>2, <2>3, <3>2 DEF DepthInv
  <2>5. LinksInv'
    BY <2>1, <2>2, <2>3 DEF LinksInv
  <2> QED BY <2>1, <2>4, <2>5, <1>a, <1>m, <1>t, <1>1
<1>2. CASE hidden = 0
  <2>1. /\ hidden' = hidden
        /\ skip' = IF Innermost.kind = "skip" /\ skip > 0 THEN skip - 1 ELSE skip
        /\ links' = IF Innermost.kind = "link" /\ links # <<>>
                    THEN SubSeq(links, 1, Len(links) - 1) ELSE links
    BY <1>2, <1>t DEF EndTag, CountEnd
  <2>2. /\ Depth = Len(open) /\ Depth' = Len(open) - 1
        /\ Innermost = open[Depth] /\ Depth \in 1 .. Depth
    BY <2>1, <1>2, <1>a DEF Depth, Innermost
  <2>3. Innermost.kind = "skip" <=> skip > 0
    BY <2>2, <1>a, <1>t DEF DepthInv
  <2>4. /\ \A i \in 1 .. Depth' : i \in 1 .. Depth /\ open'[i] = open[i]
        /\ \A i \in 1 .. Depth : i \in 1 .. Depth' \/ i = Depth
    BY <2>2, <1>a
  <2>5. DepthInv'
    <3>1. skip' \in Nat /\ skip' <= Depth'
      BY <2>1, <2>2, <2>3, <1>a, <1>t DEF DepthInv
    <3>2. \A i \in 1 .. Depth' : i > Depth - skip <=> i > Depth' - skip'
      BY <2>1, <2>2, <2>3, <1>a, <1>t
    <3>3. \A i \in 1 .. Depth' :
            /\ ~open'[i].hides
            /\ open'[i].kind = "skip" <=> i > Depth' - skip'
      <4> HIDE DEF TextInv, TextTypeOK
      <4>1. TAKE i \in 1 .. Depth'
      <4>2. i \in 1 .. Depth /\ open'[i] = open[i]
        BY <2>4
      <4>3. i > Depth - skip <=> i > Depth' - skip'
        BY <3>2
      <4>4. DepthInv
        BY <1>i
      <4> QED BY <4>2, <4>3, <4>4 DEF DepthInv
    <3>4. Depth' >= 0 /\ ~(hidden' > 0)
      BY <2>1, <2>2, <1>2, <1>a
    <3> QED BY <3>1, <3>3, <3>4 DEF DepthInv
  <2>6. links' \in Seq(1 .. MaxDepth) /\ LinksInv'
    <3>1. CASE Innermost.kind = "link"
      <4>1. Depth \in {links[n] : n \in DOMAIN links}
        BY <3>1, <2>2 DEF LinksInv
      <4>2. PICK k \in DOMAIN links : links[k] = Depth
        BY <4>1
      <4>3. links # <<>>
        BY <4>2
      <4>4. /\ Len(links) \in Nat \ {0} /\ DOMAIN links = 1 .. Len(links)
            /\ links' \in Seq(1 .. MaxDepth) /\ DOMAIN links' = 1 .. Len(links) - 1
            /\ \A n \in 1 .. Len(links) - 1 : links'[n] = links[n]
        <5>1. links' = SubSeq(links, 1, Len(links) - 1)
          BY <4>3, <3>1, <2>1
        <5> HIDE DEF TextInv, TextTypeOK
        <5> QED BY <5>1, <4>3, <1>t, Shortened, LenProperties
      <4>5. \A n \in DOMAIN links : links[n] \in 1 .. Depth
        BY DEF LinksInv
      <4>6. k = Len(links)
        <5>1. ~(k < Len(links))
          BY <4>2, <4>4, <4>5, <2>2 DEF LinksInv
        <5> QED BY <5>1, <4>2, <4>4
      <4>7. \A n \in 1 .. Len(links) - 1 : links[n] < Depth
        BY <4>2, <4>4, <4>6 DEF LinksInv
      <4>8. {links'[n] : n \in DOMAIN links'} = {links[n] : n \in DOMAIN links} \ {Depth}
        <5>1. \A n \in DOMAIN links : n \in 1 .. Len(links) - 1 \/ n = Len(links)
          BY <4>4
        <5>2. \A n \in 1 .. Len(links) - 1 : n \in DOMAIN links /\ links[n] # Depth
          BY <4>4, <4>5, <4>7, <2>2
        <5> HIDE DEF TextInv, TextTypeOK
        <5> QED BY <5>1, <5>2, <4>2, <4>4, <4>6
      <4>9. {i \in 1 .. Depth' : open'[i].kind = "link"}
              = {i \in 1 .. Depth : open[i].kind = "link"} \ {Depth}
        BY <2>2, <2>4, <1>a
      <4>10. \A m, n \in DOMAIN links' : m < n => links'[m] < links'[n]
        BY <4>4 DEF LinksInv
      <4> QED BY <4>4, <4>8, <4>9, <4>10 DEF LinksInv
    <3>2. CASE Innermost.kind # "link"
      <4>1. {i \in 1 .. Depth' : open'[i].kind = "link"} = {i \in 1 .. Depth : open[i].kind = "link"}
        BY <3>2, <2>2, <2>4
      <4> QED BY <3>2, <2>1, <4>1, <1>t DEF LinksInv
    <3> QED BY <3>1, <3>2
  <2>7. skip' \in Nat
    BY <2>1, <1>t
  <2> QED BY <2>1, <2>5, <2>6, <2>7, <1>a, <1>m, <1>t
<1> QED BY <1>1, <1>2, <1>t

\* Outside of what is hidden and skipped an end tag too many changes nothing.
LEMMA StrayEndStep ==
  ASSUME TextInv, ~miscounted, NEW kind \in Kinds, StrayEnd(kind)
  PROVE  TextInv'
<1>t. /\ TextTypeOK /\ DepthInv /\ LinksInv /\ open' = open
      /\ skip \in Nat /\ hidden \in Nat /\ links \in Seq(1 .. MaxDepth)
      /\ DOMAIN open = 1 .. Len(open) /\ Len(open) \in Nat
  BY DEF TextInv, TextTypeOK, StrayEnd
<1>1. links' \in Seq(1 .. MaxDepth)
  <2>1. CASE links # <<>>
    <3>1. SubSeq(links, 1, Len(links) - 1) \in Seq(1 .. MaxDepth)
      BY <1>t, <2>1, Shortened
    <3> QED BY <1>t, <3>1 DEF StrayEnd, CountEnd
  <2>2. CASE links = <<>>
    BY <1>t, <2>2 DEF StrayEnd, CountEnd
  <2> QED BY <2>1, <2>2
<1>2. skip' \in Nat /\ hidden' \in Nat /\ miscounted' \in BOOLEAN
  <2>1. skip' \in Nat
    BY <1>t DEF StrayEnd, CountEnd
  <2>2. hidden' \in Nat
    BY <1>t DEF StrayEnd, CountEnd
  <2>3. miscounted' \in BOOLEAN
    BY DEF StrayEnd
  <2> QED BY <2>1, <2>2, <2>3
<1>3. TextTypeOK'
  BY <1>t, <1>1, <1>2 DEF TextTypeOK
<1>4. ASSUME ~miscounted'
      PROVE  DepthInv' /\ LinksInv'
  <2>1. hidden = 0 /\ ~(kind = "skip" /\ skip > 0)
    <3>1. ~(hidden > 0) /\ ~(kind = "skip" /\ skip > 0)
      BY <1>4, Zenon DEF StrayEnd
    <3> QED BY <3>1, <1>t
  <2>2. skip' = skip /\ hidden' = hidden
    BY <2>1 DEF StrayEnd, CountEnd
  <2>3. kind = "link" => links = <<>>
    <3> SUFFICES ASSUME kind = "link", links # <<>> PROVE FALSE
      OBVIOUS
    <3>1. 1 \in DOMAIN links
      BY <1>t
    <3>2. links[1] \in {i \in 1 .. Depth : open[i].kind = "link"}
      BY <1>t, <3>1 DEF LinksInv
    <3>3. Depth = Len(open)
      BY <2>1, <1>t DEF Depth
    <3> QED BY <1>t, <3>2, <3>3 DEF StrayEnd, Holds
  <2>4. links' = links
    BY <2>1, <2>3 DEF StrayEnd, CountEnd
  <2> QED BY <1>t, <2>2, <2>4 DEF DepthInv, LinksInv, Depth
<1> QED BY <1>3, <1>4 DEF TextInv

LEMMA OmitEndStep ==
  ASSUME TextInv, ~miscounted, OmitEnd
  PROVE  TextInv'
<1> USE DEF TextInv, TextTypeOK
<1>t. /\ open \in Seq(Element) /\ skip \in Nat /\ hidden \in Nat
      /\ links \in Seq(1 .. MaxDepth) /\ open # <<>>
      /\ UNCHANGED <<skip, hidden, links>>
  BY DEF OmitEnd
<1>a. /\ Len(open) \in Nat \ {0} /\ open[Len(open)] \in Element
      /\ open' \in Seq(Element) /\ Len(open') = Len(open) - 1
      /\ DOMAIN open' = 1 .. Len(open) - 1
      /\ \A i \in 1 .. Len(open) - 1 : open'[i] = open[i]
  <2>1. open' = SubSeq(open, 1, Len(open) - 1)
    BY DEF OmitEnd, Outer
  <2> HIDE DEF TextInv, TextTypeOK
  <2> QED BY <2>1, <1>t, Shortened
<1>1. TextTypeOK'
  <2>1. Len(open') <= MaxDepth
    BY <1>a, DepthAssumption
  <2>2. miscounted' \in BOOLEAN
    BY DEF OmitEnd
  <2> QED BY <2>1, <2>2, <1>a, <1>t
<1>2. ASSUME ~miscounted'
      PROVE  DepthInv' /\ LinksInv'
  <2>1. /\ ~open[Len(open)].hides /\ open[Len(open)].kind \notin {"skip", "link"}
        /\ \A i \in 1 .. Len(open) - 1 : ~open[i].hides
    BY <1>2, <1>a DEF OmitEnd, Innermost, Outer
  <2>2. hidden = 0
    <3> SUFFICES ASSUME hidden # 0 PROVE FALSE
      OBVIOUS
    <3>1. Depth + 1 \in 1 .. Len(open) /\ open[Depth + 1].hides
      BY <1>a, <1>t DEF Depth, DepthInv
    <3>2. Depth + 1 = Len(open) \/ Depth + 1 \in 1 .. Len(open) - 1
      BY <3>1, <1>a
    <3> QED BY <3>1, <3>2, <2>1
  <2>3. Depth = Len(open) /\ Depth' = Len(open) - 1 /\ Depth \in 1 .. Depth
    BY <2>2, <1>a, <1>t DEF Depth
  <2>4. skip = 0
    BY <2>1, <2>3, <1>a, <1>t DEF DepthInv
  <2>5. DepthInv'
    BY <2>2, <2>3, <2>4, <1>a, <1>t DEF DepthInv
  <2>6. {i \in 1 .. Depth' : open'[i].kind = "link"} = {i \in 1 .. Depth : open[i].kind = "link"}
    BY <2>1, <2>3, <1>a
  <2> QED BY <2>5, <2>6, <1>t DEF LinksInv
<1> QED BY <1>1, <1>2

LEMMA TextStep ==
  ASSUME TextInv, TextNext \/ UNCHANGED textVars
  PROVE  TextInv'
<1>1. CASE TextNext
  BY <1>1, StartTagStep, EndTagStep, OmitEndStep, StrayEndStep DEF TextNext
<1>2. CASE UNCHANGED textVars
  BY <1>2 DEF TextInv, TextTypeOK, DepthInv, LinksInv, Depth, textVars
<1> QED BY <1>1, <1>2

LEMMA TextSafe == TextInv => Tracks
<1> SUFFICES ASSUME TextInv, ~miscounted
             PROVE  /\ skip = 0 /\ hidden = 0 <=> \A i \in DOMAIN open : ~Invisible(i)
                    /\ hidden = 0 => AwaitsLinks
  BY DEF Tracks
<1>t. /\ Len(open) \in Nat /\ DOMAIN open = 1 .. Len(open) /\ skip \in Nat /\ hidden \in Nat
      /\ DepthInv /\ LinksInv
  BY DEF TextInv, TextTypeOK
<1>1. ASSUME skip = 0, hidden = 0, NEW i \in DOMAIN open
      PROVE  ~Invisible(i)
  BY <1>1, <1>t DEF DepthInv, Depth, Invisible
<1>2. ASSUME hidden # 0 PROVE \E i \in DOMAIN open : Invisible(i)
  <2>1. Depth + 1 \in DOMAIN open /\ open[Depth + 1].hides
    BY <1>2, <1>t DEF DepthInv, Depth
  <2> QED BY <2>1 DEF Invisible
<1>3. ASSUME hidden = 0, skip # 0 PROVE \E i \in DOMAIN open : Invisible(i)
  <2>1. Depth \in DOMAIN open /\ open[Depth].kind = "skip"
    BY <1>3, <1>t DEF DepthInv, Depth
  <2> QED BY <2>1 DEF Invisible
<1>4. ASSUME hidden = 0 PROVE AwaitsLinks
  <2>1. Depth = Len(open)
    BY <1>4, <1>t DEF Depth
  <2> QED BY <2>1, <1>t DEF LinksInv, AwaitsLinks
<1> QED BY <1>1, <1>2, <1>3, <1>4

-----------------------------------------------------------------------------
(***************************************************************************)
(* Listing.                                                                *)
(***************************************************************************)
LEMMA ListingConstants ==
  /\ MaxMsgUid \in Nat /\ IsFiniteSet(MsgUids) /\ MsgUids \subseteq Nat
  /\ Days \subseteq Nat /\ 0 \notin Days /\ Gone = 0
  /\ ListLimits \subseteq Nat /\ IsFiniteSet(Boxes)
<1>1. MaxMsgUid \in Nat /\ Days \subseteq Nat /\ 0 \notin Days /\ ListLimits \subseteq Nat
      /\ IsFiniteSet(Boxes)
  BY ListingAssumption
<1>2. IsFiniteSet(MsgUids)
  BY <1>1, FS_Interval DEF MsgUids
<1>3. MsgUids \subseteq Nat
  BY <1>1 DEF MsgUids
<1> QED BY <1>1, <1>2, <1>3 DEF Gone

\* Newest keeps at most n elements, and leaves out smaller ones only, once it
\* has n.
LEMMA NewestAre ==
  ASSUME NEW S \in SUBSET MsgUids, NEW n \in Nat
  PROVE  /\ Newest(S, n) \subseteq S
         /\ n > 0 => Cardinality(Newest(S, n)) <= n
         /\ \A u \in S : u \notin Newest(S, n) =>
              /\ n > 0 /\ Cardinality(Newest(S, n)) = n
              /\ \A v \in Newest(S, n) : v > u
<1> DEFINE R == {p \in S \X S : p[1] > p[2]}
           place(u) == Cardinality(Ahead(u, S, R))
           N == Newest(S, n)
<1>1. IsFiniteSet(S) /\ S \subseteq Nat
  BY ListingConstants, FS_Subset
<1>2. TotalOrder(S, R)
  BY <1>1 DEF TotalOrder
<1>3. \A u \in S : {v \in S : v > u} = Ahead(u, S, R)
  BY DEF Ahead
<1> HIDE DEF R
<1>4. N \subseteq S
  BY DEF Newest
<1>5. n > 0 => N = {u \in S : place(u) < n}
  BY <1>3 DEF Newest
<1>6. n = 0 => N = S
  BY DEF Newest
<1>7. /\ \A u \in S : place(u) \in 0 .. Cardinality(S) - 1
      /\ \A u, v \in S : place(u) = place(v) => u = v
      /\ \A k \in 1 .. Cardinality(S) : \E u \in S : place(u) = k - 1
      /\ Cardinality(S) \in Nat
  <2>1. Cardinality(S) \in Nat
    BY <1>1, FS_CardinalityType
  <2>2. \A u \in S : place(u) \in 0 .. Cardinality(S) - 1
    BY <1>1, <1>2, Places
  <2>3. \A u, v \in S : place(u) = place(v) => u = v
    BY <1>1, <1>2, Places
  <2>4. \A k \in 1 .. Cardinality(S) : \E u \in S : place(u) = k - 1
    BY <1>1, <1>2, Places
  <2> QED BY <2>1, <2>2, <2>3, <2>4
<1>8. \A u, v \in S : u > v => place(u) < place(v)
  BY <1>1, <1>2, FewerAhead DEF R
<1> HIDE DEF place, N
<1>9. ASSUME n > 0
      PROVE  /\ Cardinality(N) <= n
             /\ \A u \in S : u \notin N => /\ Cardinality(N) = n
                                           /\ \A v \in N : v > u
  <2> DEFINE F == [u \in N |-> place(u) + 1]
  <2>1. F \in [N -> 1 .. n]
    BY <1>4, <1>5, <1>7, <1>9
  <2>2. F \in Injection(N, 1 .. n)
    <3>1. \A u, v \in N : F[u] = F[v] => u = v
      BY <1>4, <1>7
    <3> QED BY <2>1, <3>1 DEF Injection, IsInjective
  <2>3. IsFiniteSet(1 .. n) /\ Cardinality(1 .. n) = n
    BY FS_Interval
  <2>4. Cardinality(N) <= n /\ (Cardinality(N) = n <=> F \in Surjection(N, 1 .. n))
    BY <2>2, <2>3, FS_Injection
  <2>5. ASSUME NEW u \in S, u \notin N
        PROVE  Cardinality(N) = n /\ \A v \in N : v > u
    <3>1. place(u) >= n /\ Cardinality(S) > n
      BY <2>5, <1>5, <1>7, <1>9
    <3>2. \A k \in 1 .. n : \E x \in N : F[x] = k
      <4> TAKE k \in 1 .. n
      <4>1. PICK x \in S : place(x) = k - 1
        <5>1. k \in 1 .. Cardinality(S)
          BY <3>1, <1>7
        <5> QED BY <5>1, <1>7
      <4>2. x \in N
        BY <4>1, <1>5, <1>9
      <4> QED BY <4>1, <4>2
    <3>3. F \in Surjection(N, 1 .. n)
      BY <2>1, <3>2 DEF Surjection
    <3>4. ASSUME NEW v \in N PROVE v > u
      <4>1. v \in S /\ place(v) < n /\ place(u) \in Nat /\ place(v) \in Nat
        BY <1>4, <1>5, <1>7, <1>9
      <4>2. ~(u > v) /\ u # v
        BY <4>1, <3>1, <1>8
      <4> QED BY <4>1, <4>2, <1>1
    <3> QED BY <2>4, <3>3, <3>4
  <2> QED BY <2>4, <2>5
<1> QED BY <1>4, <1>6, <1>9 DEF N

\* SetToSeq lists a finite set.
LEMMA SetListed ==
  ASSUME NEW S, IsFiniteSet(S), NEW s, s = SetToSeq(S)
  PROVE  /\ s \in Seq(S) /\ ToSet(s) = S
         /\ \A i, j \in DOMAIN s : s[i] = s[j] => i = j
<1> DEFINE n == Cardinality(S)
<1>1. n \in Nat /\ ExistsBijection(1 .. n, S)
  BY FS_CardinalityType
<1>2. \E f \in [1 .. n -> S] : IsInjective(f)
  BY <1>1 DEF ExistsBijection, Bijection, Injection
<1>3. s \in [1 .. n -> S] /\ IsInjective(s)
  BY <1>2 DEF SetToSeq
<1>4. s \in Injection(1 .. n, S) /\ Cardinality(1 .. n) = n
  BY <1>1, <1>3, FS_Interval DEF Injection
<1>5. s \in Surjection(1 .. n, S)
  BY <1>4, FS_Injection
<1>6. s \in Seq(S)
  BY <1>1, <1>3
<1>7. ToSet(s) = S
  BY <1>3, <1>5 DEF ToSet, Surjection
<1> QED BY <1>3, <1>6, <1>7 DEF IsInjective

\* The folders that have been listed.
Listed == asked.in \ ToSet(folders)

\* Message u of f is to be shown, if there is room.
Due(f, u) == <<f, u>> \in stayed /\ (asked.crit => <<f, u>> \in Answers)

\* Messages have UIDs that were handed out, and those that stayed are there.
MailInv ==
  /\ \A f \in Boxes, u \in MsgUids : box[f][u] # Gone => u < uidnext[f]
  /\ \A f \in Boxes, u \in MsgUids : <<f, u>> \in stayed => box[f][u] # Gone

\* Each folder is listed once; a listing that is not of all has one.
QueueInv ==
  Running =>
    /\ \A i \in DOMAIN folders : folders[i] \in asked.in
    /\ \A i, j \in DOMAIN folders : folders[i] = folders[j] => i = j
    /\ stage = "merge" <=> folders = <<>>
    /\ ~asked.all => \A f, g \in asked.in : f = g
    /\ stage = "search" => asked.crit

\* What is found so far are messages of the folders listed, each once, with
\* their dates.
FoundInv ==
  Running =>
    /\ \A i \in DOMAIN shown : shown[i].box \in Listed
    /\ \A i, j \in DOMAIN shown :
         shown[i].box = shown[j].box /\ shown[i].uid = shown[j].uid => i = j
    /\ ~expunged => \A i \in DOMAIN shown : box[shown[i].box][shown[i].uid] = shown[i].date
    /\ ~asked.all /\ asked.limit > 0 => Len(shown) <= asked.limit

\* What is about to be fetched from a folder: everything, or limit messages that
\* are newer than those left out.
FetchInv ==
  stage = "fetch" =>
    /\ ~expunged => numSet \subseteq In(Head(folders))
    /\ asked.limit > 0 => Cardinality(numSet) <= asked.limit
    /\ (expunged => asked.limit = 0) =>
         \A u \in MsgUids : Due(Head(folders), u) /\ u \notin numSet =>
           /\ asked.limit > 0 /\ Cardinality(numSet) = asked.limit
           /\ \A v \in numSet : v > u

\* A message of a folder listed was found, or limit newer ones of its folder.
LeftInv ==
  Running /\ (expunged => asked.limit = 0) =>
    \A f \in Listed, u \in MsgUids : Due(f, u) /\ ~Shows(f, u) =>
      /\ asked.limit > 0
      /\ \E k \in Nat : /\ k + asked.limit <= Len(shown)
                        /\ \A i \in k + 1 .. k + asked.limit : shown[i].box = f /\ shown[i].uid > u

StartInv == stage = "start" => shown = <<>> /\ ~expunged

ListingInv ==
  /\ ListingTypeOK /\ MailInv /\ StartInv /\ QueueInv
  /\ FoundInv /\ FetchInv /\ LeftInv
  /\ NewestShown

LEMMA ListingStart == ListingInit => ListingInv
<1> SUFFICES ASSUME ListingInit PROVE ListingInv
  OBVIOUS
<1> USE ListingConstants
<1>1. ListingTypeOK
  <2>1. /\ <<>> \in Seq(Boxes) /\ <<>> \in Seq(Message)
        /\ Nobody \in [crit : BOOLEAN, in : SUBSET Boxes, all : BOOLEAN, limit : ListLimits \cup {0}]
    BY DEF Nobody
  <2>2. /\ box \in [Boxes -> [MsgUids -> Days \cup {Gone}]]
        /\ uidnext \in [Boxes -> 1..(MaxMsgUid + 1)]
    BY DEF ListingInit
  <2>3. expunged \in BOOLEAN /\ stayed = {} /\ numSet = {}
    BY DEF ListingInit
  <2> QED BY <2>1, <2>2, <2>3 DEF ListingInit, ListingTypeOK
<1>2. MailInv
  BY DEF ListingInit, MailInv
<1> QED BY <1>1, <1>2 DEF ListingInit, ListingInv, StartInv, QueueInv, FoundInv, FetchInv,
                          LeftInv, NewestShown, Running

\* The next folder is taken.
LEMMA NextType ==
  ASSUME ListingTypeOK, folders # <<>>, NextFolder
  PROVE  /\ folders' \in Seq(Boxes) /\ numSet' = {}
         /\ stage' \in {"merge", "select"}
         /\ stage' = "merge" <=> folders' = <<>>
BY DEF ListingTypeOK, NextFolder

\* The number of messages that are ordered by UID, and where each is.
LEMMA UidsInOrder ==
  ASSUME NEW S \in SUBSET MsgUids, NEW q, q = Arranged(S, ByUid)
  PROVE  /\ IsFiniteSet(S) /\ Cardinality(S) \in Nat
         /\ q \in [1 .. Cardinality(S) -> S]
         /\ \A u \in S : \E n \in 1 .. Cardinality(S) : q[n] = u
         /\ \A m, n \in 1 .. Cardinality(S) : q[m] = q[n] => m = n
<1>1. IsFiniteSet(S) /\ S \subseteq Nat
  BY ListingConstants, FS_Subset
<1>2. TotalOrder(S, ByUid)
  BY <1>1, ListingConstants DEF TotalOrder, ByUid
<1>3. /\ Cardinality(S) \in Nat
      /\ q \in [1 .. Cardinality(S) -> S]
      /\ \A u \in S : \E n \in 1 .. Cardinality(S) : q[n] = u
      /\ \A m, n \in 1 .. Cardinality(S) : m < n => <<q[m], q[n]>> \in ByUid
  BY <1>1, <1>2, ArrangedInOrder
<1>4. \A u \in S : <<u, u>> \notin ByUid
  BY <1>2 DEF TotalOrder
<1>5. ASSUME NEW m \in 1 .. Cardinality(S), NEW n \in 1 .. Cardinality(S), q[m] = q[n]
      PROVE  m = n
  <2>1. q[m] \in S /\ q[n] \in S
    BY <1>3
  <2>2. ~(m < n) /\ ~(n < m)
    BY <1>3, <1>4, <1>5, <2>1
  <2> QED BY <2>2, <1>3
<1> QED BY <1>1, <1>3, <1>5

\* What ListFetch adds.
LEMMA Fetched ==
  ASSUME ListingTypeOK, ListFetch
  PROVE  LET f == Head(folders)
             S == numSet \cap In(f)
             L == Len(shown)
             n == Cardinality(S)
         IN  /\ folders # <<>> /\ f \in Boxes /\ S \subseteq MsgUids
             /\ L \in Nat /\ n \in Nat
             /\ shown' \in Seq(Message) /\ Len(shown') = L + n
             /\ DOMAIN shown = 1 .. L /\ DOMAIN shown' = 1 .. L + n
             /\ \A i \in 1 .. L : shown'[i] = shown[i]
             /\ \A i \in 1 .. L + n : i > L =>
                  /\ shown'[i].box = f /\ shown'[i].uid \in S
                  /\ shown'[i].date = box[f][shown'[i].uid]
             /\ \A i, j \in 1 .. L + n : i > L /\ j > L /\ shown'[i].uid = shown'[j].uid => i = j
             /\ \A u \in S : \E i \in 1 .. L + n : shown'[i].box = f /\ shown'[i].uid = u
<1> DEFINE f == Head(folders)
           S == numSet \cap In(f)
           L == Len(shown)
           n == Cardinality(S)
           q == Arranged(S, ByUid)
           new == [i \in 1 .. n |-> [box |-> f, uid |-> q[i], date |-> box[f][q[i]]]]
<1>1. folders # <<>> /\ folders \in Seq(Boxes) /\ shown \in Seq(Message)
      /\ numSet \subseteq MsgUids /\ box \in [Boxes -> [MsgUids -> Days \cup {Gone}]]
  BY DEF ListFetch, ListingTypeOK
<1>2. f \in Boxes /\ L \in Nat /\ S \subseteq MsgUids
  BY <1>1
<1> HIDE DEF f, S
<1>3. /\ n \in Nat /\ q \in [1 .. n -> S]
      /\ \A u \in S : \E i \in 1 .. n : q[i] = u
      /\ \A i, j \in 1 .. n : q[i] = q[j] => i = j
  BY <1>2, UidsInOrder
<1> HIDE DEF n, q
<1>4. DOMAIN Arranged(S, ByUid) = 1 .. n
  BY <1>3 DEF q
<1>5. shown' = shown \o new
  BY <1>4 DEF ListFetch, f, S, q
<1>6. \A u \in S : u \in MsgUids /\ box[f][u] \in Days
  BY <1>1, <1>2 DEF S, In
<1>7. new \in [1 .. n -> Message]
  BY <1>2, <1>3, <1>6 DEF Message
<1>8. new \in Seq(Message) /\ Len(new) = n
  BY <1>3, <1>7
<1>9. \A i \in 1 .. n : new[i] = [box |-> f, uid |-> q[i], date |-> box[f][q[i]]]
  OBVIOUS
<1> HIDE DEF new, L
<1>10. /\ shown' \in Seq(Message) /\ Len(shown') = L + n
       /\ \A i \in 1 .. L + n : shown'[i] = IF i <= L THEN shown[i] ELSE new[i - L]
  BY <1>1, <1>5, <1>8, ConcatProperties DEF L
<1>11. DOMAIN shown = 1 .. L /\ DOMAIN shown' = 1 .. L + n
  BY <1>1, <1>10, LenProperties DEF L
<1>12. \A i \in 1 .. L : shown'[i] = shown[i]
  BY <1>2, <1>3, <1>10
<1>13. ASSUME NEW i \in 1 .. L + n, i > L
       PROVE  /\ i - L \in 1 .. n /\ shown'[i].box = f /\ shown'[i].uid = q[i - L]
              /\ shown'[i].uid \in S
              /\ shown'[i].date = box[f][shown'[i].uid]
  <2>1. i - L \in 1 .. n
    BY <1>13, <1>2, <1>3
  <2>2. shown'[i] = [box |-> f, uid |-> q[i - L], date |-> box[f][q[i - L]]]
    <3>1. ~(i <= L)
      BY <1>13, <1>2, <1>3
    <3>2. shown'[i] = new[i - L]
      BY <3>1, <1>10
    <3> QED BY <3>2, <2>1, <1>9
  <2>3. q[i - L] \in S
    BY <2>1, <1>3
  <2>4. shown'[i].box = f /\ shown'[i].uid = q[i - L] /\ shown'[i].date = box[f][q[i - L]]
    BY <2>2
  <2> QED BY <2>1, <2>3, <2>4
<1>14. ASSUME NEW i \in 1 .. L + n, NEW j \in 1 .. L + n, i > L, j > L,
              shown'[i].uid = shown'[j].uid
       PROVE  i = j
  <2>1. i - L = j - L
    BY <1>13, <1>14, <1>3
  <2> QED BY <2>1, <1>2, <1>3
<1>15. ASSUME NEW u \in S
       PROVE  \E i \in 1 .. L + n : shown'[i].box = f /\ shown'[i].uid = u
  <2>1. PICK k \in 1 .. n : q[k] = u
    BY <1>3
  <2>2. L + k \in 1 .. L + n /\ L + k > L /\ (L + k) - L = k
    BY <1>2, <1>3
  <2> QED BY <2>1, <2>2, <1>13
<1> QED BY <1>1, <1>2, <1>3, <1>10, <1>11, <1>12, <1>13, <1>14, <1>15 DEF f, S, n, L

\* The order SearchAll sorts by is total, so that each message found has its
\* place.
LEMMA SortedPlaces ==
  ASSUME NEW s \in Seq(Message)
  PROVE  LET p == Arranged(DOMAIN s, Earlier(s))
         IN  /\ p \in [1 .. Len(s) -> 1 .. Len(s)] /\ Len(s) \in Nat /\ DOMAIN s = 1 .. Len(s)
             /\ \A j \in 1 .. Len(s) : \E i \in 1 .. Len(s) : p[i] = j
             /\ \A i, j \in 1 .. Len(s) : i < j => /\ p[i] # p[j]
                                                   /\ s[p[i]].date <= s[p[j]].date
<1> DEFINE p == Arranged(DOMAIN s, Earlier(s))
<1>0. Len(s) \in Nat /\ DOMAIN s = 1 .. Len(s)
  BY LenProperties
<1>1. /\ Len(s) \in Nat /\ DOMAIN s = 1 .. Len(s)
      /\ IsFiniteSet(1 .. Len(s)) /\ Cardinality(1 .. Len(s)) = Len(s)
  BY <1>0, FS_Interval
<1>2. \A i \in 1 .. Len(s) : s[i].date \in Nat
  <2>1. \A i \in 1 .. Len(s) : s[i] \in Message
    BY <1>1
  <2> QED BY <2>1, ListingConstants DEF Message
<1>3. TotalOrder(1 .. Len(s), Earlier(s))
  BY <1>1, <1>2 DEF TotalOrder, Earlier
<1>4. /\ p \in [1 .. Len(s) -> 1 .. Len(s)]
      /\ \A j \in 1 .. Len(s) : \E i \in 1 .. Len(s) : p[i] = j
      /\ \A i, j \in 1 .. Len(s) : i < j => <<p[i], p[j]>> \in Earlier(s)
  <2> DEFINE S == 1 .. Len(s)
             R == Earlier(s)
  <2>1. IsFiniteSet(S) /\ TotalOrder(S, R) /\ p = Arranged(S, R)
    BY <1>1, <1>3
  <2>2. Cardinality(S) = Len(s)
    BY <1>1
  <2> HIDE DEF S, R, p
  <2>3. /\ p \in [1 .. Cardinality(S) -> S]
        /\ \A x \in S : \E n \in 1 .. Cardinality(S) : p[n] = x
        /\ \A m, n \in 1 .. Cardinality(S) : m < n => <<p[m], p[n]>> \in R
    BY <2>1, ArrangedInOrder
  <2>4. /\ p \in [1 .. Len(s) -> S]
        /\ \A x \in S : \E n \in 1 .. Len(s) : p[n] = x
        /\ \A m, n \in 1 .. Len(s) : m < n => <<p[m], p[n]>> \in R
    BY <2>2, <2>3
  <2> QED BY <2>4 DEF S, R
<1> HIDE DEF p
<1>5. ASSUME NEW i \in 1 .. Len(s), NEW j \in 1 .. Len(s), i < j
      PROVE  p[i] # p[j] /\ s[p[i]].date <= s[p[j]].date
  <2>1. p[i] \in 1 .. Len(s) /\ p[j] \in 1 .. Len(s) /\ <<p[i], p[j]>> \in Earlier(s)
    BY <1>4, <1>5
  <2>2. s[p[i]].date < s[p[j]].date \/ (s[p[i]].date = s[p[j]].date /\ p[i] < p[j])
    BY <2>1 DEF Earlier
  <2>3. /\ p[i] \in Int /\ p[j] \in Int
        /\ s[p[i]].date \in Nat /\ s[p[j]].date \in Nat
    BY <2>1, <1>2
  <2>4. p[i] # p[j]
    BY <2>2, <2>3
  <2>5. s[p[i]].date <= s[p[j]].date
    BY <2>2, <2>3
  <2> QED BY <2>4, <2>5
<1> QED BY <1>1, <1>4, <1>5 DEF p

\* What SearchAll shows: of the messages found, in the order of their dates,
\* the last, as many as the limit allows.
LEMMA Merged ==
  ASSUME ListingTypeOK, Merge, asked.all
  PROVE  LET L == Len(shown)
             p == Arranged(DOMAIN shown, Earlier(shown))
         IN  \E m \in 0 .. L :
               /\ IF asked.limit > 0 /\ L > asked.limit THEN m = L - asked.limit ELSE m = 0
               /\ shown' \in Seq(Message) /\ Len(shown') = L - m
               /\ DOMAIN shown' = 1 .. L - m
               /\ \A i \in 1 .. L - m : m + i \in 1 .. L /\ shown'[i] = shown[p[m + i]]
<1> DEFINE L == Len(shown)
           p == Arranged(DOMAIN shown, Earlier(shown))
           s == Sorted(shown)
<1>1. shown \in Seq(Message) /\ asked.limit \in Nat
  <2>1. shown \in Seq(Message)
    BY DEF ListingTypeOK
  <2>2. asked.limit \in ListLimits \cup {0}
    BY DEF ListingTypeOK
  <2>3. ListLimits \cup {0} \subseteq Nat
    BY ListingConstants
  <2>4. asked.limit \in Nat
    BY <2>2, <2>3
  <2> QED BY <2>1, <2>4
<1>2. L \in Nat /\ DOMAIN shown = 1 .. L /\ p \in [1 .. L -> 1 .. L]
  BY <1>1, SortedPlaces
<1>3. s = [i \in 1 .. L |-> shown[p[i]]]
  BY <1>2 DEF Sorted
<1>4. s \in [1 .. L -> Message] /\ s \in Seq(Message) /\ Len(s) = L
  BY <1>1, <1>2, <1>3
<1>5. \A i \in 1 .. L : s[i] = shown[p[i]]
  BY <1>3
<1> HIDE DEF s, p, L
<1>6. CASE asked.limit > 0 /\ L > asked.limit
  <2> DEFINE m == L - asked.limit
  <2>0. L \in Nat /\ asked.limit \in Nat
    BY <1>1, <1>2
  <2>1. m \in 0 .. L /\ m + 1 \in 1 .. L /\ m > 0
    BY <2>0, <1>6
  <2>2. shown' = SubSeq(s, m + 1, L)
    BY <2>1, <1>6 DEF Merge, s, L
  <2>3. \A i \in m + 1 .. L : s[i] \in Message
    BY <1>2, <1>4, <2>1
  <2> HIDE DEF m
  <2>4. /\ shown' \in Seq(Message)
        /\ Len(shown') = IF m + 1 <= L THEN L - (m + 1) + 1 ELSE 0
        /\ \A i \in 1 .. L - (m + 1) + 1 : shown'[i] = s[m + 1 + i - 1]
    <3>1. m + 1 \in Int /\ L \in Int
      BY <2>1, <1>2
    <3> QED BY <2>2, <2>3, <3>1, SubSeqProperties
  <2>5. Len(shown') = L - m
    BY <2>1, <2>4, <1>2
  <2>6. ASSUME NEW i \in 1 .. L - m
        PROVE  m + i \in 1 .. L /\ shown'[i] = shown[p[m + i]]
    <3>1. m + i \in 1 .. L /\ i \in 1 .. L - (m + 1) + 1 /\ m + 1 + i - 1 = m + i
      BY <2>1, <1>2
    <3>2. shown'[i] = s[m + i]
      BY <3>1, <2>4
    <3> QED BY <3>1, <3>2, <1>5
  <2>7. DOMAIN shown' = 1 .. L - m
    BY <2>4, <2>5, LenProperties
  <2> QED BY <2>1, <2>4, <2>5, <2>6, <2>7, <1>6 DEF m, L, p
<1>7. CASE ~(asked.limit > 0 /\ L > asked.limit)
  <2>1. shown' = s
    BY <1>1, <1>2, <1>7 DEF Merge, s, L
  <2>2. 0 \in 0 .. L /\ L - 0 = L /\ \A i \in 1 .. L : 0 + i = i
    BY <1>2
  <2>3. DOMAIN shown' = 1 .. L
    BY <2>1, <1>4
  <2>4. /\ shown' \in Seq(Message) /\ Len(shown') = L - 0 /\ DOMAIN shown' = 1 .. L - 0
        /\ \A i \in 1 .. L - 0 : 0 + i \in 1 .. L /\ shown'[i] = shown[p[0 + i]]
    BY <2>1, <2>2, <2>3, <1>4, <1>5
  <2> QED BY <2>2, <2>4, <1>7 DEF L, p
<1> QED BY <1>6, <1>7

LEMMA LimitType ==
  ASSUME ListingTypeOK
  PROVE  asked.limit \in Nat
<1>1. asked.limit \in ListLimits \cup {0}
  BY DEF ListingTypeOK
<1>2. ListLimits \cup {0} \subseteq Nat
  BY ListingConstants
<1> QED BY <1>1, <1>2

LEMMA StartListingStep ==
  ASSUME ListingInv, StartListing
  PROVE  ListingInv'
<1>1. /\ stage = "start" /\ shown = <<>> /\ ~expunged /\ numSet \subseteq MsgUids
      /\ expunged \in BOOLEAN
      /\ UNCHANGED <<numSet, shown, expunged>>
      /\ stage' = IF folders' = <<>> THEN "merge" ELSE "select"
  BY DEF ListingInv, StartInv, StartListing, ListingTypeOK
<1>2. /\ asked' \in [crit : BOOLEAN, in : SUBSET Boxes, all : BOOLEAN, limit : ListLimits \cup {0}]
      /\ folders' \in Seq(Boxes) /\ ToSet(folders') = asked'.in
      /\ \A i, j \in DOMAIN folders' : folders'[i] = folders'[j] => i = j
      /\ ~asked'.all => \A f, g \in asked'.in : f = g
  <2>1. PICK crit \in BOOLEAN, limit \in ListLimits :
          \/ /\ asked' = [crit |-> crit, in |-> Boxes, all |-> TRUE, limit |-> limit]
             /\ folders' = SetToSeq(Boxes)
          \/ \E f \in Boxes :
               /\ asked' = [crit |-> crit, in |-> {f}, all |-> FALSE, limit |-> limit]
               /\ folders' = <<f>>
    BY DEF StartListing
  <2>2. CASE /\ asked' = [crit |-> crit, in |-> Boxes, all |-> TRUE, limit |-> limit]
             /\ folders' = SetToSeq(Boxes)
    <3>1. folders' \in Seq(Boxes) /\ ToSet(folders') = Boxes
          /\ \A i, j \in DOMAIN folders' : folders'[i] = folders'[j] => i = j
      BY <2>2, ListingConstants, SetListed
    <3> QED BY <2>2, <3>1
  <2>3. CASE \E f \in Boxes :
               /\ asked' = [crit |-> crit, in |-> {f}, all |-> FALSE, limit |-> limit]
               /\ folders' = <<f>>
    <3>0. PICK f \in Boxes :
            /\ asked' = [crit |-> crit, in |-> {f}, all |-> FALSE, limit |-> limit]
            /\ folders' = <<f>>
      BY <2>3
    <3>1. folders' \in Seq(Boxes) /\ DOMAIN folders' = {1} /\ folders'[1] = f
      BY <3>0
    <3>2. ToSet(folders') = {f}
      BY <3>1 DEF ToSet
    <3> QED BY <3>0, <3>1, <3>2
  <2> QED BY <2>1, <2>2, <2>3
<1>3. /\ uidnext' \in [Boxes -> 1..(MaxMsgUid + 1)]
      /\ box' \in [Boxes -> [MsgUids -> Days \cup {Gone}]]
      /\ \A f \in Boxes, u \in MsgUids : box'[f][u] # Gone <=> u < uidnext'[f]
      /\ stayed' = {m \in Boxes \X MsgUids : box'[m[1]][m[2]] # Gone}
  BY DEF StartListing
<1>4. ListingTypeOK'
  <2>1. <<>> \in Seq(Message) /\ stage' \in {"merge", "select"}
    BY <1>1
  <2>2. shown' \in Seq(Message) /\ numSet' \subseteq MsgUids
    BY <1>1, <2>1
  <2>4. expunged' \in BOOLEAN
    BY <1>1
  <2>3. stayed' \subseteq Boxes \X MsgUids
    BY <1>3
  <2> QED BY <1>2, <1>3, <2>1, <2>2, <2>3, <2>4 DEF ListingTypeOK
<1>5. MailInv'
  BY <1>3 DEF MailInv
<1>6. Listed' = {}
  BY <1>2 DEF Listed
<1>7. QueueInv'
  <2>1. \A i \in DOMAIN folders' : folders'[i] \in asked'.in
    BY <1>2 DEF ToSet
  <2> QED BY <1>1, <1>2, <2>1 DEF QueueInv
<1>8. FoundInv' /\ LeftInv'
  <2>1. shown' = <<>> /\ DOMAIN shown' = {} /\ Len(shown') = 0
    BY <1>1
  <2>2. asked'.limit \in Nat
    <3>1. asked'.limit \in ListLimits \cup {0}
      BY <1>2
    <3>2. ListLimits \cup {0} \subseteq Nat
      BY ListingConstants
    <3> QED BY <3>1, <3>2
  <2>3. FoundInv'
    BY <2>1, <2>2 DEF FoundInv
  <2>4. LeftInv'
    BY <1>6 DEF LeftInv
  <2> QED BY <2>3, <2>4
<1>9. FetchInv' /\ StartInv' /\ NewestShown'
  BY <1>1 DEF FetchInv, StartInv, NewestShown
<1> QED BY <1>4, <1>5, <1>7, <1>8, <1>9 DEF ListingInv

\* The first folder is done, whatever else has changed.
LEMMA NextListed ==
  ASSUME ListingTypeOK, QueueInv, Running, folders # <<>>, NextFolder, UNCHANGED asked
  PROVE  /\ Head(folders) \in Boxes
         /\ Head(folders) \in asked.in /\ Head(folders) \notin Listed
         /\ Listed' = Listed \cup {Head(folders)}
         /\ QueueInv'
<1> DEFINE f == Head(folders)
<1>1. folders \in Seq(Boxes) /\ folders # <<>>
  BY DEF ListingTypeOK
<1>2. /\ f = folders[1] /\ f \in Boxes /\ Len(folders) \in Nat /\ DOMAIN folders = 1 .. Len(folders)
      /\ Len(folders) >= 1
  BY <1>1
<1>3. /\ folders' \in Seq(Boxes)
      /\ DOMAIN folders' = 1 .. Len(folders) - 1
      /\ \A i \in 1 .. Len(folders) - 1 : folders'[i] = folders[i + 1]
  BY <1>1, <1>2 DEF NextFolder
<1>4. /\ \A i \in DOMAIN folders : folders[i] \in asked.in
      /\ \A i, j \in DOMAIN folders : folders[i] = folders[j] => i = j
      /\ ~asked.all => \A g, h \in asked.in : g = h
  BY DEF QueueInv
<1> HIDE DEF f
<1>5. f \in asked.in /\ f \in ToSet(folders)
  BY <1>2, <1>4 DEF ToSet
<1>6. ToSet(folders') = ToSet(folders) \ {f}
  <2>1. ASSUME NEW i \in DOMAIN folders'
        PROVE  folders'[i] \in ToSet(folders) \ {f}
    <3>1. i + 1 \in DOMAIN folders /\ folders'[i] = folders[i + 1] /\ i + 1 # 1 /\ 1 \in DOMAIN folders
      BY <1>2, <1>3
    <3> QED BY <3>1, <1>2, <1>4 DEF ToSet
  <2>2. ASSUME NEW i \in DOMAIN folders, folders[i] # f
        PROVE  folders[i] \in ToSet(folders')
    <3>1. i # 1 /\ i \in 1 .. Len(folders)
      BY <2>2, <1>2
    <3>2. i - 1 \in 1 .. Len(folders) - 1 /\ (i - 1) + 1 = i
      BY <3>1, <1>2
    <3>3. folders'[i - 1] = folders[i] /\ i - 1 \in DOMAIN folders'
      BY <3>2, <1>3
    <3> QED BY <3>3 DEF ToSet
  <2> QED BY <2>1, <2>2 DEF ToSet
<1>7. Listed' = Listed \cup {f} /\ f \notin Listed
  BY <1>5, <1>6 DEF Listed
<1>8. QueueInv'
  <2>1. /\ stage' \in {"merge", "select"}
        /\ stage' = "merge" <=> folders' = <<>>
    BY <1>1 DEF NextFolder
  <2>2. \A i \in DOMAIN folders' : folders'[i] \in asked.in
    BY <1>2, <1>3, <1>4
  <2>3. ASSUME NEW i \in DOMAIN folders', NEW j \in DOMAIN folders', folders'[i] = folders'[j]
        PROVE  i = j
    <3>1. /\ i + 1 \in DOMAIN folders /\ j + 1 \in DOMAIN folders
          /\ folders[i + 1] = folders[j + 1] /\ i \in Nat /\ j \in Nat
      BY <2>3, <1>2, <1>3
    <3>2. i + 1 = j + 1
      BY <3>1, <1>4
    <3> QED BY <3>1, <3>2
  <2> QED BY <2>1, <2>2, <2>3, <1>4 DEF QueueInv
<1> QED BY <1>2, <1>5, <1>7, <1>8 DEF f

LEMMA ListSelectStep ==
  ASSUME ListingInv, ListSelect
  PROVE  ListingInv'
<1> DEFINE f == Head(folders)
<1>t. /\ ListingTypeOK /\ MailInv /\ QueueInv /\ FoundInv /\ LeftInv
      /\ stage = "select" /\ Running
      /\ UNCHANGED <<box, uidnext, asked, shown, stayed, expunged>>
  BY DEF ListingInv, ListSelect, mails, Running
<1>1. folders # <<>> /\ folders \in Seq(Boxes) /\ f \in Boxes
  <2>1. folders # <<>> /\ folders \in Seq(Boxes)
    BY <1>t DEF QueueInv, ListingTypeOK
  <2> QED BY <2>1
<1>2. MailInv' /\ StartInv' /\ NewestShown'
  <2>1. stage' \notin {"start", "done"}
    BY <1>t DEF ListSelect, NextFolder
  <2> QED BY <1>t, <2>1 DEF MailInv, StartInv, NewestShown
<1>3. CASE asked.crit
  <2>1. stage' = "search" /\ UNCHANGED <<folders, numSet>>
    BY <1>3 DEF ListSelect
  <2>2. ListingTypeOK'
    BY <1>t, <1>1, <2>1 DEF ListingTypeOK
  <2>3. Running' /\ Listed' = Listed
    BY <1>t, <2>1 DEF Running, Listed
  <2>4. QueueInv' /\ FoundInv' /\ LeftInv' /\ FetchInv'
    <3>1. QueueInv' /\ FetchInv'
      BY <1>t, <1>1, <1>3, <2>1 DEF QueueInv, FetchInv
    <3>2. FoundInv'
      BY <1>t, <2>3 DEF FoundInv
    <3>3. LeftInv'
      BY <1>t, <2>3 DEF LeftInv, Due, Shows
    <3> QED BY <3>1, <3>2, <3>3
  <2> QED BY <1>2, <2>2, <2>4 DEF ListingInv
<1>4. CASE ~asked.crit /\ In(f) = {}
  <2>1. NextFolder
    BY <1>4 DEF ListSelect
  <2>2. /\ f \in asked.in /\ f \notin Listed
        /\ Listed' = Listed \cup {f} /\ QueueInv'
    BY <1>t, <1>1, <2>1, NextListed
  <2>3. ListingTypeOK' /\ FetchInv'
    <3>1. /\ folders' \in Seq(Boxes) /\ numSet' = {}
          /\ stage' \in {"merge", "select"}
      BY <1>t, <1>1, <2>1, NextType
    <3> QED BY <1>t, <3>1 DEF ListingTypeOK, FetchInv
  <2>4. FoundInv'
    BY <1>t, <2>2 DEF FoundInv
  <2>5. \A u \in MsgUids : <<f, u>> \notin stayed
    BY <1>t, <1>1, <1>4 DEF MailInv, In
  <2>6. LeftInv'
    BY <1>t, <2>2, <2>5 DEF LeftInv, Due, Shows
  <2> QED BY <1>2, <2>2, <2>3, <2>4, <2>6 DEF ListingInv
<1>5. CASE ~asked.crit /\ In(f) # {}
  <2>1. numSet' = Newest(In(f), asked.limit) /\ stage' = "fetch" /\ UNCHANGED folders
    BY <1>5 DEF ListSelect, Cut
  <2>2. In(f) \in SUBSET MsgUids /\ asked.limit \in Nat
    BY <1>t, LimitType DEF In
  <2>3. /\ numSet' \subseteq In(f)
        /\ asked.limit > 0 => Cardinality(numSet') <= asked.limit
        /\ \A u \in In(f) : u \notin numSet' =>
             /\ asked.limit > 0 /\ Cardinality(numSet') = asked.limit
             /\ \A v \in numSet' : v > u
    BY <2>1, <2>2, NewestAre
  <2>4. ListingTypeOK'
    BY <1>t, <1>1, <2>1, <2>2, <2>3 DEF ListingTypeOK
  <2>5. Running' /\ Listed' = Listed
    BY <1>t, <2>1 DEF Running, Listed
  <2>6. FoundInv' /\ QueueInv'
    <3>1. QueueInv'
      BY <1>t, <1>1, <2>1 DEF QueueInv
    <3>2. FoundInv'
      BY <1>t, <2>5 DEF FoundInv
    <3> QED BY <3>1, <3>2
  <2>7. LeftInv'
    BY <1>t, <2>5 DEF LeftInv, Due, Shows
  <2>8. FetchInv'
    <3>1. \A u \in MsgUids : Due(f, u) => u \in In(f)
      BY <1>t, <1>1 DEF Due, MailInv, In
    <3>2. Head(folders') = f /\ In(f)' = In(f) /\ \A u \in MsgUids : Due(f, u)' = Due(f, u)
      BY <1>t, <2>1 DEF In, Due
    <3> QED BY <1>t, <2>1, <2>3, <3>1, <3>2 DEF FetchInv, Due, In
  <2> QED BY <1>2, <2>4, <2>6, <2>7, <2>8 DEF ListingInv
<1> QED BY <1>3, <1>4, <1>5

LEMMA ListSearchStep ==
  ASSUME ListingInv, ListSearch
  PROVE  ListingInv'
<1> DEFINE f == Head(folders)
           uids == {u \in In(f) : <<f, u>> \in Answers}
<1>t. /\ ListingTypeOK /\ MailInv /\ QueueInv /\ FoundInv /\ LeftInv
      /\ stage = "search" /\ Running
      /\ UNCHANGED <<box, uidnext, asked, shown, stayed, expunged>>
  BY DEF ListingInv, ListSearch, mails, Running
<1>1. folders # <<>> /\ folders \in Seq(Boxes) /\ f \in Boxes /\ asked.crit
  <2>1. folders # <<>> /\ folders \in Seq(Boxes) /\ asked.crit
    BY <1>t DEF QueueInv, ListingTypeOK
  <2> QED BY <2>1
<1>2. MailInv' /\ StartInv' /\ NewestShown'
  <2>1. stage' \notin {"start", "done"}
    BY <1>t DEF ListSearch, NextFolder
  <2> QED BY <1>t, <2>1 DEF MailInv, StartInv, NewestShown
<1>3. \A u \in MsgUids : Due(f, u) => u \in uids
  BY <1>t, <1>1 DEF Due, MailInv, In
<1>4. CASE uids = {}
  <2>1. NextFolder
    BY <1>4 DEF ListSearch
  <2>2. /\ f \in asked.in /\ f \notin Listed
        /\ Listed' = Listed \cup {f} /\ QueueInv'
    BY <1>t, <1>1, <2>1, NextListed
  <2>3. ListingTypeOK' /\ FetchInv'
    <3>1. /\ folders' \in Seq(Boxes) /\ numSet' = {}
          /\ stage' \in {"merge", "select"}
      BY <1>t, <1>1, <2>1, NextType
    <3> QED BY <1>t, <3>1 DEF ListingTypeOK, FetchInv
  <2>4. FoundInv'
    BY <1>t, <2>2 DEF FoundInv
  <2>5. \A u \in MsgUids : ~Due(f, u)
    BY <1>3, <1>4
  <2>6. LeftInv'
    BY <1>t, <2>2, <2>5 DEF LeftInv, Due, Shows
  <2> QED BY <1>2, <2>2, <2>3, <2>4, <2>6 DEF ListingInv
<1>5. CASE uids # {}
  <2>1. numSet' = Newest(uids, asked.limit) /\ stage' = "fetch" /\ UNCHANGED folders
    BY <1>5 DEF ListSearch, Cut
  <2>2. uids \in SUBSET MsgUids /\ asked.limit \in Nat
    BY <1>t, LimitType DEF In
  <2> HIDE DEF uids
  <2>3. /\ numSet' \subseteq uids
        /\ asked.limit > 0 => Cardinality(numSet') <= asked.limit
        /\ \A u \in uids : u \notin numSet' =>
             /\ asked.limit > 0 /\ Cardinality(numSet') = asked.limit
             /\ \A v \in numSet' : v > u
    BY <2>1, <2>2, NewestAre
  <2>4. ListingTypeOK'
    BY <1>t, <1>1, <2>1, <2>2, <2>3 DEF ListingTypeOK
  <2>5. Running' /\ Listed' = Listed
    BY <1>t, <2>1 DEF Running, Listed
  <2>6. FoundInv' /\ QueueInv'
    <3>1. QueueInv'
      BY <1>t, <1>1, <2>1 DEF QueueInv
    <3>2. FoundInv'
      BY <1>t, <2>5 DEF FoundInv
    <3> QED BY <3>1, <3>2
  <2>7. LeftInv'
    BY <1>t, <2>5 DEF LeftInv, Due, Shows
  <2>8. FetchInv'
    <3>1. Head(folders') = f /\ In(f)' = In(f) /\ \A u \in MsgUids : Due(f, u)' = Due(f, u)
      BY <1>t, <2>1 DEF In, Due
    <3>2. uids \subseteq In(f)
      BY DEF uids
    <3> QED BY <1>t, <1>3, <2>1, <2>3, <3>1, <3>2 DEF FetchInv, Due, In
  <2> QED BY <1>2, <2>4, <2>6, <2>7, <2>8 DEF ListingInv
<1> QED BY <1>4, <1>5

LEMMA ListFetchStep ==
  ASSUME ListingInv, ListFetch
  PROVE  ListingInv'
<1> DEFINE f == Head(folders)
           S == numSet \cap In(f)
           L == Len(shown)
           n == Cardinality(S)
<1>t. /\ ListingTypeOK /\ MailInv /\ QueueInv /\ FoundInv /\ FetchInv /\ LeftInv
      /\ stage = "fetch" /\ Running
      /\ UNCHANGED <<box, uidnext, asked, stayed, expunged>>
  BY DEF ListingInv, ListFetch, mails, Running
<1>1. /\ folders # <<>> /\ f \in Boxes /\ S \subseteq MsgUids
      /\ L \in Nat /\ n \in Nat
      /\ shown' \in Seq(Message) /\ Len(shown') = L + n
      /\ DOMAIN shown = 1 .. L /\ DOMAIN shown' = 1 .. L + n
      /\ \A i \in 1 .. L : shown'[i] = shown[i]
      /\ \A i \in 1 .. L + n : i > L =>
           /\ shown'[i].box = f /\ shown'[i].uid \in S
           /\ shown'[i].date = box[f][shown'[i].uid]
      /\ \A i, j \in 1 .. L + n : i > L /\ j > L /\ shown'[i].uid = shown'[j].uid => i = j
      /\ \A u \in S : \E i \in 1 .. L + n : shown'[i].box = f /\ shown'[i].uid = u
  BY <1>t, Fetched
<1>2. NextFolder
  BY DEF ListFetch
<1>3. /\ f \in asked.in /\ f \notin Listed
      /\ Listed' = Listed \cup {f} /\ QueueInv'
  BY <1>t, <1>1, <1>2, NextListed
<1>4. /\ folders' \in Seq(Boxes) /\ numSet' = {}
      /\ stage' \in {"merge", "select"}
  BY <1>t, <1>1, <1>2, NextType
<1>5. ListingTypeOK' /\ FetchInv' /\ MailInv' /\ StartInv' /\ NewestShown'
  <2>1. ListingTypeOK'
    BY <1>t, <1>1, <1>4 DEF ListingTypeOK
  <2> QED BY <1>t, <1>4, <2>1 DEF FetchInv, MailInv, StartInv, NewestShown
<1>l. asked.limit \in Nat /\ numSet \subseteq MsgUids /\ IsFiniteSet(numSet)
  <2>1. numSet \subseteq MsgUids
    BY <1>t DEF ListingTypeOK
  <2> QED BY <1>t, <2>1, LimitType, ListingConstants, FS_Subset
<1>c. Cardinality(numSet) \in Nat /\ n <= Cardinality(numSet)
  BY <1>l, FS_Subset, FS_CardinalityType
<1> HIDE DEF f, S, L, n
<1>6. FoundInv'
  <2>1. ASSUME NEW i \in 1 .. L + n PROVE shown'[i].box \in Listed'
    <3>1. CASE i <= L
      BY <1>t, <1>1, <1>3, <3>1 DEF FoundInv
    <3>2. CASE i > L
      BY <1>1, <1>3, <3>2
    <3> QED BY <1>1, <3>1, <3>2
  <2>2. ASSUME NEW i \in 1 .. L + n, NEW j \in 1 .. L + n,
               shown'[i].box = shown'[j].box, shown'[i].uid = shown'[j].uid
        PROVE  i = j
    <3>1. \A k \in 1 .. L : shown'[k].box \in Listed
      BY <1>t, <1>1 DEF FoundInv
    <3>2. \A k \in 1 .. L + n : k > L => shown'[k].box \notin Listed
      BY <1>1, <1>3
    <3>3. CASE i <= L
      <4>1. i \in 1 .. L /\ j \in 1 .. L
        BY <1>1, <2>2, <3>1, <3>2, <3>3
      <4> QED BY <1>t, <1>1, <2>2, <4>1 DEF FoundInv
    <3>4. CASE i > L
      <4>1. j > L
        BY <1>1, <2>2, <3>1, <3>2, <3>4
      <4> QED BY <1>1, <2>2, <3>4, <4>1
    <3> QED BY <1>1, <3>3, <3>4
  <2>3. ASSUME ~expunged, NEW i \in 1 .. L + n
        PROVE  box[shown'[i].box][shown'[i].uid] = shown'[i].date
    <3>1. CASE i <= L
      BY <1>t, <1>1, <2>3, <3>1 DEF FoundInv
    <3>2. CASE i > L
      BY <1>1, <3>2
    <3> QED BY <1>1, <3>1, <3>2
  <2>4. ASSUME ~asked.all, asked.limit > 0 PROVE L + n <= asked.limit
    <3>1. \A g \in asked.in : g = f
      BY <1>t, <1>3, <2>4 DEF QueueInv
    <3>2. Listed = {}
      BY <1>3, <3>1 DEF Listed
    <3>3. L = 0
      BY <1>t, <1>1, <3>2 DEF FoundInv
    <3>4. Cardinality(numSet) <= asked.limit
      BY <1>t, <2>4 DEF FetchInv
    <3> QED BY <1>1, <1>l, <1>c, <3>3, <3>4
  <2> QED BY <1>t, <1>1, <2>1, <2>2, <2>3, <2>4 DEF FoundInv
<1>7. LeftInv'
  <2>1. SUFFICES ASSUME expunged => asked.limit = 0, NEW g \in Listed', NEW u \in MsgUids,
                        Due(g, u), ~Shows(g, u)'
                 PROVE  /\ asked.limit > 0
                        /\ \E k \in Nat : /\ k + asked.limit <= L + n
                                          /\ \A i \in k + 1 .. k + asked.limit :
                                               shown'[i].box = g /\ shown'[i].uid > u
    BY <1>t, <1>1 DEF LeftInv, Due
  <2>2. CASE g \in Listed
    <3>1. ~Shows(g, u)
      BY <1>1, <2>1 DEF Shows
    <3>2. /\ asked.limit > 0
          /\ \E k \in Nat : /\ k + asked.limit <= L
                            /\ \A i \in k + 1 .. k + asked.limit : shown[i].box = g /\ shown[i].uid > u
      BY <1>t, <2>1, <2>2, <3>1 DEF LeftInv, L
    <3>3. PICK k \in Nat : /\ k + asked.limit <= L
                           /\ \A i \in k + 1 .. k + asked.limit : shown[i].box = g /\ shown[i].uid > u
      BY <3>2
    <3>4. k + asked.limit <= L + n
      BY <1>1, <1>l, <3>3
    <3>5. \A i \in k + 1 .. k + asked.limit : i \in 1 .. L
      BY <1>1, <1>l, <3>3
    <3>6. \A i \in k + 1 .. k + asked.limit : shown'[i].box = g /\ shown'[i].uid > u
      BY <1>1, <3>3, <3>5
    <3> QED BY <3>2, <3>4, <3>6
  <2>3. CASE g = f
    <3>1. u \in In(f)
      BY <1>t, <1>1, <2>1, <2>3 DEF Due, MailInv, In
    <3>2. u \notin numSet
      BY <1>1, <2>1, <2>3, <3>1 DEF Shows, S
    <3>3. /\ asked.limit > 0 /\ Cardinality(numSet) = asked.limit
          /\ \A v \in numSet : v > u
      BY <1>t, <2>1, <2>3, <3>2 DEF FetchInv, f
    <3>4. numSet \subseteq In(f)
      BY <1>t, <2>1, <3>3 DEF FetchInv, f
    <3>5. S = numSet /\ n = asked.limit
      BY <3>3, <3>4 DEF S, n
    <3>6. \A i \in L + 1 .. L + asked.limit : i \in 1 .. L + n /\ i > L
      BY <1>1, <3>5
    <3>7. \A i \in L + 1 .. L + asked.limit : shown'[i].box = g /\ shown'[i].uid > u
      BY <1>1, <2>3, <3>3, <3>5, <3>6
    <3>8. L + asked.limit <= L + n
      BY <1>1, <3>5
    <3> QED BY <1>1, <3>3, <3>7, <3>8
  <2> QED BY <1>3, <2>2, <2>3
<1> QED BY <1>3, <1>5, <1>6, <1>7 DEF ListingInv

\* A row of numbers in which each of 1 .. L occurs at most once, and all of a
\* stretch of k: they do not fit into fewer than k places.
LEMMA TooFewPlaces ==
  ASSUME NEW L \in Nat, NEW p \in [1 .. L -> 1 .. L], NEW k \in Nat, NEW w \in Nat, NEW j \in Nat,
         \A x \in k + 1 .. k + w : \E i \in j + 1 .. L : p[i] = x,
         j <= L, L - j < w
  PROVE  FALSE
<1> DEFINE F == [x \in k + 1 .. k + w |-> CHOOSE i \in j + 1 .. L : p[i] = x]
<1>1. \A x \in k + 1 .. k + w : F[x] \in j + 1 .. L /\ p[F[x]] = x
  OBVIOUS
<1>2. F \in [k + 1 .. k + w -> j + 1 .. L]
  BY <1>1
<1> HIDE DEF F
<1>3. F \in Injection(k + 1 .. k + w, j + 1 .. L)
  <2>1. \A x, y \in k + 1 .. k + w : F[x] = F[y] => x = y
    BY <1>1
  <2> QED BY <1>2, <2>1 DEF Injection, IsInjective
<1>4. /\ IsFiniteSet(j + 1 .. L) /\ Cardinality(j + 1 .. L) = L - j
      /\ Cardinality(k + 1 .. k + w) = w
  <2>1. IsFiniteSet(j + 1 .. L) /\ Cardinality(j + 1 .. L) = IF j + 1 > L THEN 0 ELSE L - (j + 1) + 1
    <3>1. j + 1 \in Int /\ L \in Int
      OBVIOUS
    <3> QED BY <3>1, FS_Interval
  <2>2. Cardinality(k + 1 .. k + w) = IF k + 1 > k + w THEN 0 ELSE k + w - (k + 1) + 1
    <3>1. k + 1 \in Int /\ k + w \in Int
      OBVIOUS
    <3> QED BY <3>1, FS_Interval
  <2> QED BY <2>1, <2>2
<1>5. Cardinality(k + 1 .. k + w) <= Cardinality(j + 1 .. L)
  BY <1>3, <1>4, FS_Injection
<1> QED BY <1>4, <1>5

\* One folder was listed.
LEMMA MergeOne ==
  ASSUME ListingInv, Merge, ~asked.all
  PROVE  NewestShown'
<1> DEFINE L == Len(shown)
<1>t. /\ ListingTypeOK /\ MailInv /\ QueueInv /\ FoundInv /\ LeftInv
      /\ stage = "merge" /\ Running /\ shown' = shown
      /\ UNCHANGED <<box, uidnext, asked, stayed, expunged>>
  BY DEF ListingInv, Merge, mails, Running
<1>1. shown \in Seq(Message) /\ L \in Nat /\ DOMAIN shown = 1 .. L /\ asked.limit \in Nat
      /\ box \in [Boxes -> [MsgUids -> Days \cup {Gone}]]
  <2>1. shown \in Seq(Message) /\ box \in [Boxes -> [MsgUids -> Days \cup {Gone}]]
    BY <1>t DEF ListingTypeOK
  <2> QED BY <1>t, <2>1, LimitType, LenProperties
<1>2. Listed = asked.in
  BY <1>t DEF QueueInv, Listed, ToSet
<1> HIDE DEF L
<1>3. ASSUME InOrder, expunged => asked.limit = 0,
             NEW f \in Boxes, NEW u \in MsgUids, Wanted(f, u), ~Shows(f, u)
      PROVE  /\ asked.limit > 0 /\ L = asked.limit
             /\ \A i \in 1 .. L : shown[i].date >= box[f][u]
  <2>1. Due(f, u) /\ f \in Listed
    BY <1>2, <1>3 DEF Wanted, Due
  <2>2. /\ asked.limit > 0
        /\ \E k \in Nat : /\ k + asked.limit <= L
                          /\ \A i \in k + 1 .. k + asked.limit : shown[i].box = f /\ shown[i].uid > u
    BY <1>t, <1>3, <2>1 DEF LeftInv, L
  <2>3. L <= asked.limit
    BY <1>t, <2>2 DEF FoundInv, L
  <2>4. L = asked.limit /\ \A i \in 1 .. L : shown[i].box = f /\ shown[i].uid > u
    <3>1. PICK k \in Nat : /\ k + asked.limit <= L
                           /\ \A i \in k + 1 .. k + asked.limit : shown[i].box = f /\ shown[i].uid > u
      BY <2>2
    <3>2. k = 0 /\ L = asked.limit /\ k + 1 = 1 /\ k + asked.limit = L
      BY <3>1, <2>3, <1>1
    <3> QED BY <3>1, <3>2
  <2>5. u \in In(f)
    BY <1>t, <1>3 DEF Wanted, MailInv, In
  <2>6. ASSUME NEW i \in 1 .. L PROVE shown[i].date >= box[f][u]
    <3>1. shown[i] \in Message /\ box[f][shown[i].uid] = shown[i].date
      BY <1>t, <1>1, <1>3, <2>2, <2>4 DEF FoundInv
    <3>2. shown[i].uid \in In(f)
      BY <3>1, ListingConstants DEF In, Message
    <3>3. box[f][u] <= box[f][shown[i].uid]
      BY <1>3, <2>4, <2>5, <3>2, ListingConstants DEF InOrder, In
    <3>4. box[f][u] \in Nat /\ shown[i].date \in Nat
      <4>1. box[f][u] \in Days \cup {Gone} /\ shown[i].date \in Days
        BY <1>1, <3>1 DEF Message
      <4>2. Days \subseteq Nat /\ Days \cup {Gone} \subseteq Nat
        BY ListingConstants
      <4> QED BY <4>1, <4>2
    <3> QED BY <3>1, <3>3, <3>4
  <2> QED BY <2>2, <2>4, <2>6
<1>4. \A i, j \in DOMAIN shown : shown[i] = shown[j] => i = j
  BY <1>t DEF FoundInv
<1>5. InOrder /\ (expunged => asked.limit = 0) => LeftOutForNewer
  BY <1>1, <1>3 DEF LeftOutForNewer, L
<1>6. /\ InOrder' <=> InOrder
      /\ LeftOutForNewer' <=> LeftOutForNewer
  BY <1>t DEF InOrder, In, LeftOutForNewer, Wanted, Shows
<1> QED BY <1>t, <1>4, <1>5, <1>6 DEF NewestShown

\* All folders were.
LEMMA MergeAll ==
  ASSUME ListingInv, Merge, asked.all
  PROVE  NewestShown' /\ shown' \in Seq(Message)
<1> DEFINE L == Len(shown)
           p == Arranged(DOMAIN shown, Earlier(shown))
<1>t. /\ ListingTypeOK /\ MailInv /\ QueueInv /\ FoundInv /\ LeftInv
      /\ stage = "merge" /\ Running
      /\ UNCHANGED <<box, uidnext, asked, stayed, expunged>>
  BY DEF ListingInv, Merge, mails, Running
<1>1. shown \in Seq(Message) /\ asked.limit \in Nat
      /\ box \in [Boxes -> [MsgUids -> Days \cup {Gone}]]
  <2>1. shown \in Seq(Message) /\ box \in [Boxes -> [MsgUids -> Days \cup {Gone}]]
    BY <1>t DEF ListingTypeOK
  <2> QED BY <1>t, <2>1, LimitType
<1>2. /\ p \in [1 .. L -> 1 .. L] /\ L \in Nat /\ DOMAIN shown = 1 .. L
      /\ \A j \in 1 .. L : \E i \in 1 .. L : p[i] = j
      /\ \A i, j \in 1 .. L : i < j => p[i] # p[j] /\ shown[p[i]].date <= shown[p[j]].date
  BY <1>1, SortedPlaces
<1>3. PICK m \in 0 .. L :
        /\ IF asked.limit > 0 /\ L > asked.limit THEN m = L - asked.limit ELSE m = 0
        /\ shown' \in Seq(Message) /\ Len(shown') = L - m
        /\ DOMAIN shown' = 1 .. L - m
        /\ \A i \in 1 .. L - m : m + i \in 1 .. L /\ shown'[i] = shown[p[m + i]]
  BY <1>t, Merged
<1>m. /\ m \in Nat /\ m <= L
      /\ IF asked.limit > 0 /\ L > asked.limit THEN m = L - asked.limit ELSE m = 0
  BY <1>2, <1>3
<1>4. Listed = asked.in
  BY <1>t DEF QueueInv, Listed, ToSet
<1>5. \A i \in 1 .. L : shown[i] \in Message /\ shown[i].date \in Nat /\ shown[i].uid \in MsgUids
  <2>1. \A i \in 1 .. L : shown[i] \in Message
    BY <1>1, <1>2
  <2>2. Days \subseteq Nat
    BY ListingConstants
  <2> QED BY <2>1, <2>2 DEF Message
<1>6. \A i, j \in 1 .. L : shown[i] = shown[j] => i = j
  BY <1>t, <1>2 DEF FoundInv
<1>d. \A f \in Boxes, u \in MsgUids : box[f][u] \in Nat
  <2>1. \A f \in Boxes, u \in MsgUids : box[f][u] \in Days \cup {Gone}
    BY <1>1
  <2>2. Days \cup {Gone} \subseteq Nat
    BY ListingConstants
  <2> QED BY <2>1, <2>2
<1> HIDE DEF L, p
<1>p. \A i \in 1 .. L : p[i] \in 1 .. L
  BY <1>2
<1>7. ASSUME NEW i \in 1 .. L - m, NEW j \in 1 .. L - m, i < j
      PROVE  shown'[i].date <= shown'[j].date /\ shown'[i] # shown'[j]
  <2>1. m + i \in 1 .. L /\ m + j \in 1 .. L /\ m + i < m + j
    BY <1>2, <1>3, <1>7
  <2>2. p[m + i] # p[m + j] /\ shown[p[m + i]].date <= shown[p[m + j]].date
    BY <1>2, <2>1
  <2>3. shown[p[m + i]] # shown[p[m + j]]
    BY <1>6, <1>p, <2>1, <2>2
  <2> QED BY <1>3, <2>2, <2>3
<1>8. ASSUME InOrder, expunged => asked.limit = 0,
             NEW f \in Boxes, NEW u \in MsgUids, Wanted(f, u), ~Shows(f, u)'
      PROVE  /\ asked.limit > 0 /\ L - m = asked.limit
             /\ \A i \in 1 .. L - m : shown'[i].date >= box[f][u]
  <2>1. Due(f, u) /\ f \in Listed /\ u \in In(f)
    BY <1>t, <1>4, <1>8 DEF Wanted, Due, MailInv, In
  <2>2. ASSUME NEW i \in 1 .. L, asked.limit > 0
        PROVE  box[shown[i].box][shown[i].uid] = shown[i].date
    <3>1. ~expunged
      BY <1>8, <2>2
    <3>2. ~expunged => \A x \in DOMAIN shown : box[shown[x].box][shown[x].uid] = shown[x].date
      BY <1>t DEF FoundInv
    <3> QED BY <3>1, <3>2, <1>2
  <2>3. CASE Shows(f, u)
    <3>1. PICK i \in 1 .. L : shown[i].box = f /\ shown[i].uid = u
      BY <1>2, <2>3 DEF Shows
    <3>2. PICK j \in 1 .. L : p[j] = i
      BY <1>2
    <3>3. j <= m
      <4>1. SUFFICES ASSUME j > m PROVE FALSE
        BY <1>2, <1>3
      <4>2. j - m \in 1 .. L - m /\ m + (j - m) = j
        BY <4>1, <1>2, <1>3
      <4>3. shown'[j - m] = shown[i]
        BY <4>2, <3>2, <1>3
      <4> QED BY <4>2, <4>3, <3>1, <1>3, <1>8 DEF Shows
    <3>4. asked.limit > 0 /\ L - m = asked.limit
      <4>1. m # 0
        BY <3>3, <1>2
      <4>2. asked.limit > 0 /\ L > asked.limit /\ m = L - asked.limit
        BY <4>1, <1>3
      <4> QED BY <4>2, <1>1, <1>2
    <3>5. ASSUME NEW x \in 1 .. L - m PROVE shown'[x].date >= box[f][u]
      <4>1. m + x \in 1 .. L /\ j < m + x
        BY <3>3, <1>2, <1>3
      <4>2. shown[p[j]].date <= shown[p[m + x]].date
        BY <4>1, <1>2
      <4>3. shown[i].date = box[f][u]
        BY <2>2, <3>1, <3>4
      <4>4. shown'[x].date = shown[p[m + x]].date
        BY <1>3
      <4>5. shown[p[m + x]].date \in Nat
        BY <1>5, <1>p, <4>1
      <4> QED BY <4>2, <4>3, <4>4, <4>5, <3>2, <1>d
    <3> QED BY <3>4, <3>5
  <2>4. CASE ~Shows(f, u)
    <3>1. /\ asked.limit > 0
          /\ \E k \in Nat : /\ k + asked.limit <= L
                            /\ \A i \in k + 1 .. k + asked.limit : shown[i].box = f /\ shown[i].uid > u
      BY <1>t, <1>8, <2>1, <2>4 DEF LeftInv, L
    <3>2. PICK k \in Nat : /\ k + asked.limit <= L
                           /\ \A i \in k + 1 .. k + asked.limit : shown[i].box = f /\ shown[i].uid > u
      BY <3>1
    <3>3. m = L - asked.limit /\ L - m = asked.limit
      <4>1. L \in Nat /\ asked.limit \in Nat
        BY <1>1, <1>2
      <4>2. L >= asked.limit
        BY <4>1, <3>2
      <4> QED BY <4>1, <4>2, <3>1, <1>m
    <3>4. ASSUME NEW i \in k + 1 .. k + asked.limit PROVE i \in 1 .. L /\ shown[i].date >= box[f][u]
      <4>1. i \in 1 .. L
        BY <3>2, <1>1, <1>2
      <4>2. box[f][shown[i].uid] = shown[i].date /\ shown[i].uid \in MsgUids
        BY <4>1, <1>5, <2>2, <3>1, <3>2
      <4>3. shown[i].uid \in In(f)
        BY <4>1, <4>2, <1>5, ListingConstants DEF In, Message
      <4>4. box[f][u] <= box[f][shown[i].uid]
        BY <1>8, <2>1, <4>3, <3>2, ListingConstants DEF InOrder, In
      <4> QED BY <4>1, <4>2, <4>4, <1>d, <1>5
    <3>5. ASSUME NEW x \in 1 .. L - m PROVE shown'[x].date >= box[f][u]
      <4> DEFINE j == m + x
      <4>1. j \in 1 .. L /\ L - j < asked.limit /\ shown'[x].date = shown[p[j]].date
            /\ shown[p[j]].date \in Nat
        <5>1. j \in 1 .. L /\ L - j < asked.limit
          BY <1>1, <1>2, <1>3, <3>3
        <5>2. shown'[x].date = shown[p[j]].date
          BY <1>3
        <5>3. shown[p[j]].date \in Nat
          BY <5>1, <1>5, <1>p
        <5> QED BY <5>1, <5>2, <5>3
      <4> HIDE DEF j
      <4>2. SUFFICES ASSUME shown[p[j]].date < box[f][u] PROVE FALSE
        BY <4>1, <1>d
      <4>3. ASSUME NEW y \in k + 1 .. k + asked.limit
            PROVE  \E i \in j + 1 .. L : p[i] = y
        <5>1. y \in 1 .. L /\ shown[y].date >= box[f][u]
          BY <3>4
        <5>2. PICK i \in 1 .. L : p[i] = y
          BY <5>1, <1>2
        <5>3. ~(i <= j)
          <6>1. SUFFICES ASSUME i <= j PROVE FALSE
            OBVIOUS
          <6>2. i = j \/ i < j
            BY <6>1, <4>1
          <6>3. shown[p[i]].date <= shown[p[j]].date
            <7>1. CASE i = j
              BY <7>1, <4>1
            <7>2. CASE i < j
              BY <7>2, <4>1, <1>2
            <7> QED BY <6>2, <7>1, <7>2
          <6> QED BY <6>3, <5>1, <5>2, <4>1, <4>2, <1>5, <1>d
        <5>4. i \in j + 1 .. L
          BY <5>3, <4>1, <1>2
        <5> QED BY <5>2, <5>4
      <4>4. j \in Nat /\ j <= L
        BY <4>1, <1>2
      <4>5. p \in [1 .. L -> 1 .. L] /\ L \in Nat /\ asked.limit \in Nat /\ L - j < asked.limit
        BY <4>1, <1>1, <1>2
      <4> QED BY <4>3, <4>4, <4>5, TooFewPlaces
    <3> QED BY <3>1, <3>3, <3>5
  <2> QED BY <2>3, <2>4
<1>9. (InOrder /\ (expunged => asked.limit = 0) => LeftOutForNewer)'
  <2>1. InOrder' <=> InOrder
    BY <1>t DEF InOrder, In
  <2>2. \A f, u : Wanted(f, u)' <=> Wanted(f, u)
    BY <1>t DEF Wanted
  <2> QED BY <2>1, <2>2, <1>t, <1>3, <1>8 DEF LeftOutForNewer
<1>10. \A i, j \in DOMAIN shown' : i < j => shown'[i].date <= shown'[j].date
  BY <1>3, <1>7
<1>11. \A i, j \in DOMAIN shown' : shown'[i] = shown'[j] => i = j
  BY <1>2, <1>3, <1>7
<1> QED BY <1>3, <1>9, <1>10, <1>11 DEF NewestShown

LEMMA MergeStep ==
  ASSUME ListingInv, Merge
  PROVE  ListingInv'
<1>t. /\ ListingTypeOK /\ MailInv /\ stage' = "done"
      /\ UNCHANGED <<box, uidnext, asked, folders, numSet, stayed, expunged>>
  BY DEF ListingInv, Merge, mails
<1>1. NewestShown' /\ shown' \in Seq(Message)
  <2>1. CASE asked.all
    BY <2>1, MergeAll
  <2>2. CASE ~asked.all
    <3>1. shown' = shown
      BY <2>2 DEF Merge
    <3>2. shown \in Seq(Message)
      BY <1>t DEF ListingTypeOK
    <3> QED BY <2>2, <3>1, <3>2, MergeOne
  <2> QED BY <2>1, <2>2
<1>2. ListingTypeOK' /\ MailInv'
  BY <1>t, <1>1 DEF ListingTypeOK, MailInv
<1>3. StartInv' /\ QueueInv' /\ FoundInv' /\ FetchInv' /\ LeftInv'
  BY <1>t DEF StartInv, QueueInv, FoundInv, FetchInv, LeftInv, Running
<1> QED BY <1>1, <1>2, <1>3 DEF ListingInv

LEMMA ListFailsStep ==
  ASSUME ListingInv, ListFails
  PROVE  ListingInv'
<1>t. /\ ListingTypeOK /\ MailInv /\ stage' = "error"
      /\ folders' = <<>> /\ numSet' = {} /\ shown' = <<>>
      /\ UNCHANGED <<box, uidnext, asked, stayed, expunged>>
  BY DEF ListingInv, ListFails, mails
<1>1. ListingTypeOK'
  <2>1. <<>> \in Seq(Boxes) /\ <<>> \in Seq(Message)
    OBVIOUS
  <2> QED BY <1>t, <2>1 DEF ListingTypeOK
<1>2. MailInv'
  BY <1>t DEF MailInv
<1>3. StartInv' /\ QueueInv' /\ FoundInv' /\ FetchInv' /\ LeftInv' /\ NewestShown'
  BY <1>t DEF StartInv, QueueInv, FoundInv, FetchInv, LeftInv, NewestShown, Running
<1> QED BY <1>1, <1>2, <1>3 DEF ListingInv

\* A message that arrives was never there before.
LEMMA ArriveStep ==
  ASSUME ListingInv, NEW f \in Boxes, NEW d \in Days, Arrive(f, d)
  PROVE  ListingInv'
<1>t. /\ ListingTypeOK /\ MailInv /\ QueueInv /\ FoundInv /\ FetchInv /\ LeftInv
      /\ Running /\ uidnext[f] \in MsgUids
      /\ box' = [box EXCEPT ![f][uidnext[f]] = d]
      /\ uidnext' = [uidnext EXCEPT ![f] = @ + 1]
      /\ UNCHANGED <<asked, stage, folders, numSet, shown, stayed, expunged>>
  BY DEF ListingInv, Arrive
<1>1. /\ box \in [Boxes -> [MsgUids -> Days \cup {Gone}]]
      /\ uidnext \in [Boxes -> 1..(MaxMsgUid + 1)] /\ shown \in Seq(Message)
  BY <1>t DEF ListingTypeOK
<1>2. /\ box' \in [Boxes -> [MsgUids -> Days \cup {Gone}]]
      /\ \A g \in Boxes, u \in MsgUids :
           box'[g][u] = IF g = f /\ u = uidnext[f] THEN d ELSE box[g][u]
  BY <1>t, <1>1
<1>3. /\ uidnext' \in [Boxes -> 1..(MaxMsgUid + 1)]
      /\ \A g \in Boxes : uidnext'[g] = IF g = f THEN uidnext[f] + 1 ELSE uidnext[g]
  <2>1. uidnext[f] + 1 \in 1..(MaxMsgUid + 1)
    BY <1>t, ListingConstants DEF MsgUids
  <2> QED BY <1>t, <1>1, <2>1
<1>4. ListingTypeOK'
  BY <1>t, <1>2, <1>3 DEF ListingTypeOK
<1>5. d # Gone /\ \A g \in Boxes : uidnext[g] \in Nat
  <2>1. \A g \in Boxes : uidnext[g] \in 1..(MaxMsgUid + 1)
    BY <1>1
  <2> QED BY <2>1, ListingConstants
<1>6. MailInv'
  <2>1. ASSUME NEW g \in Boxes, NEW u \in MsgUids, box'[g][u] # Gone
        PROVE  u < uidnext'[g]
    <3>1. CASE g = f /\ u = uidnext[f]
      BY <3>1, <1>3, <1>5
    <3>2. CASE ~(g = f /\ u = uidnext[f])
      <4>1. u < uidnext[g]
        BY <1>t, <1>2, <2>1, <3>2 DEF MailInv
      <4>2. u \in Nat /\ uidnext[g] \in Nat
        BY <1>5, ListingConstants
      <4> QED BY <4>1, <4>2, <1>3
    <3> QED BY <3>1, <3>2
  <2>2. \A g \in Boxes, u \in MsgUids : <<g, u>> \in stayed => box'[g][u] # Gone
    BY <1>t, <1>2, <1>5 DEF MailInv
  <2> QED BY <1>t, <2>1, <2>2 DEF MailInv
<1>7. StartInv' /\ QueueInv' /\ NewestShown' /\ LeftInv'
  <2>1. StartInv' /\ QueueInv' /\ NewestShown'
    BY <1>t DEF ListingInv, StartInv, QueueInv, NewestShown, Running
  <2>2. LeftInv'
    BY <1>t DEF LeftInv, Running, Listed, Due, Shows
  <2> QED BY <2>1, <2>2
<1>8. FoundInv'
  <2>1. ASSUME ~expunged, NEW i \in DOMAIN shown
        PROVE  box'[shown[i].box][shown[i].uid] = shown[i].date
    <3>1. /\ shown[i].box \in Boxes /\ shown[i].uid \in MsgUids /\ shown[i].date \in Days
          /\ box[shown[i].box][shown[i].uid] = shown[i].date
      <4>1. shown[i] \in Message
        BY <1>1
      <4> QED BY <4>1, <1>t, <2>1 DEF FoundInv, Message
    <3>2. shown[i].uid < uidnext[shown[i].box]
      BY <1>t, <3>1, ListingConstants DEF MailInv
    <3>3. ~(shown[i].box = f /\ shown[i].uid = uidnext[f])
      BY <3>1, <3>2, <1>5
    <3> QED BY <3>1, <3>3, <1>2
  <2>2. Listed' = Listed /\ Running'
    BY <1>t DEF Listed, Running
  <2> QED BY <1>t, <2>1, <2>2 DEF FoundInv
<1>9. FetchInv'
  <2>1. \A g \in Boxes : In(g) \subseteq In(g)'
    BY <1>2, <1>5 DEF In
  <2>2. stage = "fetch" => Head(folders) \in Boxes
    <3>1. folders \in Seq(Boxes) /\ (stage = "fetch" => folders # <<>>)
      BY <1>t DEF ListingTypeOK
    <3> QED BY <3>1
  <2>3. Head(folders)' = Head(folders) /\ \A g, u : Due(g, u)' <=> Due(g, u)
    BY <1>t DEF Due
  <2> QED BY <1>t, <2>1, <2>2, <2>3 DEF FetchInv, Due
<1> QED BY <1>4, <1>6, <1>7, <1>8, <1>9 DEF ListingInv

LEMMA DisappearStep ==
  ASSUME ListingInv, NEW f \in Boxes, NEW v \in MsgUids, Disappear(f, v)
  PROVE  ListingInv'
<1>t. /\ ListingTypeOK /\ MailInv /\ QueueInv /\ FoundInv /\ FetchInv /\ LeftInv
      /\ Running /\ ~expunged /\ expunged' = TRUE
      /\ box' = [box EXCEPT ![f][v] = Gone] /\ stayed' = stayed \ {<<f, v>>}
      /\ UNCHANGED <<uidnext, asked, stage, folders, numSet, shown>>
  BY DEF ListingInv, Disappear
<1>1. /\ box \in [Boxes -> [MsgUids -> Days \cup {Gone}]]
      /\ stayed \subseteq Boxes \X MsgUids
  BY <1>t DEF ListingTypeOK
<1>2. /\ box' \in [Boxes -> [MsgUids -> Days \cup {Gone}]]
      /\ \A g \in Boxes, u \in MsgUids :
           box'[g][u] = IF g = f /\ u = v THEN Gone ELSE box[g][u]
  BY <1>t, <1>1
<1>3. ListingTypeOK'
  BY <1>t, <1>1, <1>2 DEF ListingTypeOK
<1>4. MailInv'
  BY <1>t, <1>2 DEF MailInv
<1>5. Listed' = Listed /\ Running' /\ \A g, u : Due(g, u)' => Due(g, u)
  BY <1>t DEF Listed, Running, Due
<1>6. StartInv' /\ QueueInv' /\ NewestShown' /\ FoundInv'
  <2>1. StartInv' /\ QueueInv' /\ NewestShown'
    BY <1>t DEF StartInv, QueueInv, NewestShown, Running
  <2>2. FoundInv'
    BY <1>t, <1>5 DEF FoundInv
  <2> QED BY <2>1, <2>2
<1>7. FetchInv'
  <2>1. SUFFICES ASSUME stage = "fetch"
                 PROVE  /\ asked.limit > 0 => Cardinality(numSet) <= asked.limit
                        /\ asked.limit = 0 =>
                             \A u \in MsgUids : Due(Head(folders), u)' /\ u \notin numSet =>
                               /\ asked.limit > 0 /\ Cardinality(numSet) = asked.limit
                               /\ \A w \in numSet : w > u
    BY <1>t DEF FetchInv, Due
  <2> QED BY <1>t, <1>5, <2>1 DEF FetchInv
<1>8. LeftInv'
  <2>1. SUFFICES ASSUME asked.limit = 0, NEW g \in Listed, NEW u \in MsgUids,
                        Due(g, u)', ~Shows(g, u)
                 PROVE  /\ asked.limit > 0
                        /\ \E k \in Nat :
                             /\ k + asked.limit <= Len(shown)
                             /\ \A i \in k + 1 .. k + asked.limit : shown[i].box = g /\ shown[i].uid > u
    BY <1>t, <1>5 DEF LeftInv, Due, Shows
  <2> QED BY <1>t, <1>5, <2>1 DEF LeftInv
<1> QED BY <1>3, <1>4, <1>6, <1>7, <1>8 DEF ListingInv

LEMMA ListingStep ==
  ListingInv /\ (ListingNext \/ UNCHANGED listingVars) => ListingInv'
<1> SUFFICES ASSUME ListingInv, ListingNext \/ UNCHANGED listingVars PROVE ListingInv'
  OBVIOUS
<1>1. CASE UNCHANGED listingVars
  BY <1>1 DEF listingVars, mails, ListingInv, ListingTypeOK, MailInv, StartInv, QueueInv, FoundInv,
              FetchInv, LeftInv, NewestShown, Running, Listed, Due, Shows, In, InOrder,
              LeftOutForNewer, Wanted
<1>2. CASE ListingNext
  BY <1>2, StartListingStep, ListSelectStep, ListSearchStep, ListFetchStep, MergeStep,
     ListFailsStep, ArriveStep, DisappearStep DEF ListingNext
<1> QED BY <1>1, <1>2

-----------------------------------------------------------------------------
(***************************************************************************)
(* Search.                                                                 *)
(***************************************************************************)
Fraction == [num : Nat, den : Nat \ {0}]

\* Fractions are compared by their products.
LEMMA Products ==
  ASSUME NEW a \in Nat, NEW b \in Nat \ {0}, NEW c \in Nat, NEW d \in Nat \ {0},
         NEW e \in Nat, NEW f \in Nat \ {0},
         a * d >= c * b, c * f >= e * d
  PROVE  /\ a * f >= e * b
         /\ a * d > c * b \/ c * f > e * d => a * f > e * b
OBVIOUS

LEMMA ProductsAdded ==
  ASSUME NEW a \in Nat, NEW b \in Nat \ {0}, NEW c \in Nat, NEW d \in Nat \ {0},
         NEW e \in Nat, NEW f \in Nat \ {0}, NEW g \in Nat, NEW h \in Nat \ {0},
         a * d >= c * b, e * h >= g * f, a * d > c * b \/ e * h > g * f
  PROVE  (a * f + e * b) * (d * h) > (c * h + g * d) * (b * f)
OBVIOUS

LEMMA FractionType ==
  ASSUME NEW x \in Fraction
  PROVE  x.num \in Nat /\ x.den \in Nat \ {0}
BY DEF Fraction

\* More is a weak order,
LEMMA MoreOrders ==
  ASSUME NEW x \in Fraction, NEW y \in Fraction, NEW z \in Fraction
  PROVE  /\ ~More(x, x)
         /\ More(x, y) => ~More(y, x)
         /\ ~More(y, x) /\ ~More(z, y) => ~More(z, x)
         /\ ~More(y, x) /\ ~More(z, y) /\ (More(x, y) \/ More(y, z)) => More(x, z)
<1> DEFINE a == x.num  b == x.den  c == y.num  d == y.den  e == z.num  f == z.den
<1>1. /\ a \in Nat /\ b \in Nat \ {0} /\ c \in Nat /\ d \in Nat \ {0}
      /\ e \in Nat /\ f \in Nat \ {0}
  BY FractionType
<1>2. /\ More(x, x) <=> a * b > a * b
      /\ More(x, y) <=> a * d > c * b
      /\ More(y, x) <=> c * b > a * d
      /\ More(y, z) <=> c * f > e * d
      /\ More(z, y) <=> e * d > c * f
      /\ More(x, z) <=> a * f > e * b
      /\ More(z, x) <=> e * b > a * f
  BY DEF More
<1> HIDE DEF a, b, c, d, e, f
<1>3. a * d \in Int /\ c * b \in Int /\ c * f \in Int /\ e * d \in Int /\ a * f \in Int /\ e * b \in Int
      /\ a * b \in Int
  BY <1>1
<1>4. a * d >= c * b /\ c * f >= e * d =>
        /\ a * f >= e * b
        /\ a * d > c * b \/ c * f > e * d => a * f > e * b
  BY <1>1, Products
<1> QED BY <1>2, <1>3, <1>4

\* and Plus respects it.
LEMMA PlusKeeps ==
  ASSUME NEW x \in Fraction, NEW y \in Fraction, NEW v \in Fraction, NEW w \in Fraction,
         ~More(y, x), ~More(w, v), More(x, y) \/ More(v, w)
  PROVE  More(Plus(x, v), Plus(y, w))
<1> DEFINE a == x.num  b == x.den  c == y.num  d == y.den
           e == v.num  f == v.den  g == w.num  h == w.den
<1>1. /\ a \in Nat /\ b \in Nat \ {0} /\ c \in Nat /\ d \in Nat \ {0}
      /\ e \in Nat /\ f \in Nat \ {0} /\ g \in Nat /\ h \in Nat \ {0}
  BY FractionType
<1>2. /\ ~(c * b > a * d) /\ ~(g * f > e * h) /\ (a * d > c * b \/ e * h > g * f)
  BY DEF More
<1>3. More(Plus(x, v), Plus(y, w)) <=> (a * f + e * b) * (d * h) > (c * h + g * d) * (b * f)
  BY DEF More, Plus
<1> HIDE DEF a, b, c, d, e, f, g, h
<1>4. a * d >= c * b /\ e * h >= g * f
  <2>1. a * d \in Int /\ c * b \in Int /\ e * h \in Int /\ g * f \in Int
    BY <1>1
  <2> QED BY <1>2, <2>1
<1>5. (a * f + e * b) * (d * h) > (c * h + g * d) * (b * f)
  BY <1>1, <1>2, <1>4, ProductsAdded
<1> QED BY <1>3, <1>5

LEMMA PlusType ==
  ASSUME NEW x \in Fraction, NEW y \in Fraction
  PROVE  Plus(x, y) \in Fraction
BY DEF Plus, Fraction

LEMMA SearchConstants ==
  /\ MaxMail \in Nat /\ MaxId \in Nat /\ MaxWrites \in Nat
  /\ WordScores \subseteq Nat /\ 0 \in WordScores
  /\ Nearnesses \subseteq Nat /\ 0 \in Nearnesses
  /\ hybridPool \in Nat \ {0} /\ rrfK \in Nat
  /\ Limits \subseteq Nat \ {0} /\ Limits \cup {0} \subseteq Nat
  /\ Wanteds \subseteq SUBSET Mails
  /\ IsFiniteSet(Ids) /\ Ids \subseteq Nat /\ Mails \subseteq Nat /\ NoMail \notin Mails
<1>1. MaxMail \in Nat /\ MaxId \in Nat
  BY SearchAssumption
<1>2. IsFiniteSet(Ids) /\ Ids \subseteq Nat /\ Mails \subseteq Nat /\ NoMail \notin Mails
  BY <1>1, FS_Interval DEF Ids, Mails, NoMail
<1> QED BY <1>2, SearchAssumption

\* An id that a list has is worth the more the earlier it comes.
LEMMA WorthIs ==
  ASSUME NEW s \in Seq(Ids), \A m, n \in DOMAIN s : s[m] = s[n] => m = n
  PROVE  /\ \A i : Worth(i, s) \in Fraction
         /\ \A i, j : i \notin ToSet(s) => ~More(Worth(i, s), Worth(j, s))
         /\ \A i, j : i \in ToSet(s) /\ j \notin ToSet(s) => More(Worth(i, s), Worth(j, s))
         /\ \A m, n \in DOMAIN s : m < n => More(Worth(s[m], s), Worth(s[n], s))
<1>1. Len(s) \in Nat /\ DOMAIN s = 1 .. Len(s)
  BY LenProperties
<1>2. ASSUME NEW m \in DOMAIN s
      PROVE  /\ Worth(s[m], s) = [num |-> 1, den |-> rrfK + m]
             /\ s[m] \in ToSet(s) /\ rrfK + m \in Nat \ {0}
  <2>1. s[m] \in ToSet(s)
    BY DEF ToSet
  <2>2. (CHOOSE r \in DOMAIN s : s[r] = s[m]) = m
    OBVIOUS
  <2>3. rrfK + m \in Nat \ {0}
    BY <1>1, SearchConstants
  <2> QED BY <2>1, <2>2, <2>3 DEF Worth
<1>3. \A i : i \notin ToSet(s) => Worth(i, s) = [num |-> 0, den |-> 1]
  BY DEF Worth
<1>4. \A i : i \in ToSet(s) => \E m \in DOMAIN s : i = s[m]
  BY DEF ToSet
<1>5. ASSUME NEW i PROVE Worth(i, s) \in Fraction
  <2>1. CASE i \in ToSet(s)
    <3>1. PICK m \in DOMAIN s : i = s[m]
      BY <1>4, <2>1
    <3> QED BY <3>1, <1>2 DEF Fraction
  <2>2. CASE i \notin ToSet(s)
    BY <1>3, <2>2 DEF Fraction
  <2> QED BY <2>1, <2>2
<1>6. ASSUME NEW i, NEW j, i \notin ToSet(s) PROVE ~More(Worth(i, s), Worth(j, s))
  <2>1. Worth(j, s).num \in Nat /\ Worth(j, s).den \in Nat
    BY <1>5, FractionType
  <2>2. Worth(i, s).num = 0 /\ Worth(i, s).den = 1
    BY <1>3, <1>6
  <2> QED BY <2>1, <2>2 DEF More
<1>7. ASSUME NEW i, NEW j, i \in ToSet(s), j \notin ToSet(s) PROVE More(Worth(i, s), Worth(j, s))
  <2>1. PICK m \in DOMAIN s : i = s[m]
    BY <1>4, <1>7
  <2>2. /\ Worth(i, s).num = 1 /\ Worth(i, s).den \in Nat
        /\ Worth(j, s).num = 0 /\ Worth(j, s).den = 1
    BY <2>1, <1>2, <1>3, <1>7
  <2> QED BY <2>2 DEF More
<1>8. ASSUME NEW m \in DOMAIN s, NEW n \in DOMAIN s, m < n
      PROVE  More(Worth(s[m], s), Worth(s[n], s))
  <2>1. /\ Worth(s[m], s).num = 1 /\ Worth(s[m], s).den = rrfK + m
        /\ Worth(s[n], s).num = 1 /\ Worth(s[n], s).den = rrfK + n
    BY <1>2
  <2>2. rrfK + m < rrfK + n /\ rrfK + m \in Nat /\ rrfK + n \in Nat
    BY <1>1, <1>8, SearchConstants
  <2> QED BY <2>1, <2>2 DEF More
<1> QED BY <1>5, <1>6, <1>7, <1>8

LEMMA MinOfTwo ==
  ASSUME NEW m \in Nat, NEW n \in Nat
  PROVE  Min({m, n}) = IF m <= n THEN m ELSE n
<1> DEFINE k == IF m <= n THEN m ELSE n
<1>1. k \in {m, n} /\ \A y \in {m, n} : k <= y
  OBVIOUS
<1>2. \A x \in {m, n} : (\A y \in {m, n} : x <= y) => x = k
  BY <1>1
<1> QED BY <1>1, <1>2 DEF Min

\* The first k elements of a sequence.
LEMMA Prefix ==
  ASSUME NEW S, NEW t \in Seq(S), NEW k \in 0 .. Len(t)
  PROVE  LET s == SubSeq(t, 1, k)
         IN  s \in Seq(S) /\ Len(s) = k /\ DOMAIN s = 1 .. k /\ \A i \in 1 .. k : s[i] = t[i]
<1> DEFINE s == SubSeq(t, 1, k)
<1>1. Len(t) \in Nat /\ k \in Nat /\ k <= Len(t)
  OBVIOUS
<1>2. \A i \in 1 .. k : t[i] \in S
  BY <1>1
<1>3. 1 \in Int /\ k \in Int
  BY <1>1
<1>4. /\ s \in Seq(S) /\ Len(s) = IF 1 <= k THEN k - 1 + 1 ELSE 0
      /\ \A i \in 1 .. k - 1 + 1 : s[i] = t[1 + i - 1]
  BY <1>2, <1>3, SubSeqProperties
<1> HIDE DEF s
<1>5. Len(s) = k
  BY <1>1, <1>4
<1>6. ASSUME NEW i \in 1 .. k PROVE s[i] = t[i]
  <2>1. i \in 1 .. k - 1 + 1 /\ 1 + i - 1 = i
    BY <1>1
  <2>2. s[i] = t[1 + i - 1]
    BY <2>1, <1>4
  <2> QED BY <2>1, <2>2
<1>7. DOMAIN s = 1 .. k
  BY <1>4, <1>5, LenProperties
<1> QED BY <1>4, <1>5, <1>6, <1>7 DEF s

\* s are n of the elements of S, or all: nothing comes before what R wants
\* before it, and nothing that R wants before s is left out.
TopOf(s, S, n, R) ==
  /\ s \in Seq(S)
  /\ Len(s) = IF n <= Cardinality(S) THEN n ELSE Cardinality(S)
  /\ \A i, j \in DOMAIN s : s[i] = s[j] => i = j
  /\ \A i, j \in DOMAIN s : i < j => <<s[i], s[j]>> \in R
  /\ \A x \in S : x \notin ToSet(s) => /\ Len(s) = n
                                       /\ \A i \in DOMAIN s : <<s[i], x>> \in R

\* A cut after n of a row of all is such.
LEMMA CutIsTop ==
  ASSUME NEW S, IsFiniteSet(S), NEW t \in SetToSeqs(S), NEW n \in Nat, NEW R,
         \A i, j \in DOMAIN t : i < j => <<t[i], t[j]>> \in R
  PROVE  TopOf(SubSeq(t, 1, Min({n, Len(t)})), S, n, R)
<1> DEFINE N == Cardinality(S)
           k == IF n <= N THEN n ELSE N
           s == SubSeq(t, 1, k)
<1>1. N \in Nat
  BY FS_CardinalityType
<1>2. t \in [1 .. N -> S] /\ \A i, j \in 1 .. N : i # j => t[i] # t[j]
  BY DEF SetToSeqs
<1> HIDE DEF N
<1>3. t \in Seq(S) /\ Len(t) = N /\ DOMAIN t = 1 .. N
  BY <1>1, <1>2
<1>4. SubSeq(t, 1, Min({n, Len(t)})) = s
  BY <1>1, <1>3, MinOfTwo
<1>5. k \in 0 .. N
  BY <1>1
<1>6. k = IF n <= N THEN n ELSE N
  OBVIOUS
<1> HIDE DEF k
<1>7. s \in Seq(S) /\ Len(s) = k /\ DOMAIN s = 1 .. k /\ \A i \in 1 .. k : s[i] = t[i]
  BY <1>3, <1>5, Prefix
<1> HIDE DEF s
<1>8. \A i \in 1 .. k : i \in 1 .. N
  BY <1>1, <1>5
<1>9. \A i, j \in DOMAIN s : s[i] = s[j] => i = j
  BY <1>2, <1>7, <1>8
<1>10. \A i, j \in DOMAIN s : i < j => <<s[i], s[j]>> \in R
  BY <1>3, <1>7, <1>8
<1>11. \A x \in S : \E i \in 1 .. N : t[i] = x
  <2>1. t \in Injection(1 .. N, S)
    BY <1>2 DEF Injection, IsInjective
  <2>2. Cardinality(1 .. N) = N
    BY <1>1, FS_Interval
  <2>3. t \in Surjection(1 .. N, S)
    BY <2>1, <2>2, FS_Injection DEF N
  <2> QED BY <2>3 DEF Surjection
<1>12. ASSUME NEW x \in S, x \notin ToSet(s)
       PROVE  Len(s) = n /\ \A i \in DOMAIN s : <<s[i], x>> \in R
  <2>1. PICK j \in 1 .. N : t[j] = x
    BY <1>11
  <2>2. j \notin 1 .. k
    BY <1>7, <1>12, <2>1 DEF ToSet
  <2>3. j > k /\ k = n
    BY <1>1, <1>5, <1>6, <2>2
  <2>4. ASSUME NEW i \in DOMAIN s PROVE <<s[i], x>> \in R
    <3>1. i \in 1 .. N /\ i < j /\ s[i] = t[i]
      BY <1>1, <1>5, <1>7, <2>3
    <3> QED BY <1>3, <2>1, <3>1
  <2> QED BY <1>7, <2>3, <2>4
<1>13. Len(s) = IF n <= N THEN n ELSE N
  BY <1>6, <1>7
<1> QED BY <1>4, <1>7, <1>9, <1>10, <1>12, <1>13 DEF TopOf, N

\* How each side orders the rows.
WordOrder == {p \in Ids \X Ids : WordScore(p[1]) >= WordScore(p[2])}
NearOrder == {p \in Ids \X Ids : Nearness(p[1]) >= Nearness(p[2])}

LEMMA SidesType ==
  ASSUME SearchTypeOK
  PROVE  /\ Matching \subseteq Present /\ Comparable \subseteq Present /\ Present \subseteq Ids
         /\ IsFiniteSet(Matching) /\ IsFiniteSet(Comparable)
         /\ \A i \in Present : rows[i] \in Mails
         /\ \A i \in Present : WordScore(i) \in Nat /\ Nearness(i) \in Nat
         /\ query.limit \in Nat /\ \A n \in Nat : Share(n) \in Nat
<1>1. Matching \subseteq Present /\ Comparable \subseteq Present /\ Present \subseteq Ids
  BY DEF SearchTypeOK, Matching, Comparable, Filtered, Present
<1>2. IsFiniteSet(Matching) /\ IsFiniteSet(Comparable)
  BY <1>1, SearchConstants, FS_Subset
<1>3. \A i \in Present : rows[i] \in Mails
  BY DEF SearchTypeOK, Present
<1>4. ASSUME NEW i \in Present PROVE WordScore(i) \in Nat /\ Nearness(i) \in Nat
  <2>1. bm25[rows[i]] \in WordScores /\ cosine[rows[i]] \in Nearnesses
    BY <1>3 DEF SearchTypeOK
  <2> QED BY <2>1, SearchConstants DEF WordScore, Nearness
<1>5. query.limit \in Nat
  <2>1. query.limit \in Limits \cup {0}
    BY DEF SearchTypeOK
  <2> QED BY <2>1, SearchConstants
<1>6. \A n \in Nat : Share(n) \in Nat
  BY SearchConstants DEF Share
<1> QED BY <1>1, <1>2, <1>3, <1>4, <1>5, <1>6

LEMMA RankedIsTop ==
  ASSUME SearchTypeOK, NEW n \in Nat
  PROVE  /\ \A s \in Ranked(Matching, WordScore, n) : TopOf(s, Matching, n, WordOrder)
         /\ \A s \in Ranked(Comparable, Nearness, n) : TopOf(s, Comparable, n, NearOrder)
<1>1. ASSUME NEW s \in Ranked(Matching, WordScore, n) PROVE TopOf(s, Matching, n, WordOrder)
  <2>1. PICK t \in SetToSeqs(Matching) :
          /\ \A i, j \in DOMAIN t : i < j => WordScore(t[i]) >= WordScore(t[j])
          /\ s = SubSeq(t, 1, Min({n, Len(t)}))
    BY DEF Ranked
  <2>2. \A i \in DOMAIN t : t[i] \in Ids
    BY SidesType DEF SetToSeqs
  <2>3. \A i, j \in DOMAIN t : i < j => <<t[i], t[j]>> \in WordOrder
    BY <2>1, <2>2 DEF WordOrder
  <2> QED BY <2>1, <2>3, SidesType, CutIsTop
<1>2. ASSUME NEW s \in Ranked(Comparable, Nearness, n) PROVE TopOf(s, Comparable, n, NearOrder)
  <2>1. PICK t \in SetToSeqs(Comparable) :
          /\ \A i, j \in DOMAIN t : i < j => Nearness(t[i]) >= Nearness(t[j])
          /\ s = SubSeq(t, 1, Min({n, Len(t)}))
    BY DEF Ranked
  <2>2. \A i \in DOMAIN t : t[i] \in Ids
    BY SidesType DEF SetToSeqs
  <2>3. \A i, j \in DOMAIN t : i < j => <<t[i], t[j]>> \in NearOrder
    BY <2>1, <2>2 DEF NearOrder
  <2> QED BY <2>1, <2>3, SidesType, CutIsTop
<1> QED BY <1>1, <1>2

\* The two lists name no row twice.
SidesInv ==
  \A s \in {found.fts, found.vec} : \A m, n \in DOMAIN s : s[m] = s[n] => m = n

\* What is worth more comes first, and of equals one.
LEMMA FusedInOrder ==
  ASSUME SearchTypeOK, SidesInv, NEW S \in SUBSET Ids
  PROVE  IsFiniteSet(S) /\ TotalOrder(S, ByFused)
<1>1. found.fts \in Seq(Ids) /\ found.vec \in Seq(Ids)
  BY DEF SearchTypeOK
<1>2. \A i : Worth(i, found.fts) \in Fraction /\ Worth(i, found.vec) \in Fraction
  BY <1>1, WorthIs DEF SidesInv
<1>3. \A i : Fused(i) \in Fraction
  BY <1>2, PlusType DEF Fused
<1>4. IsFiniteSet(S) /\ S \subseteq Nat
  BY SearchConstants, FS_Subset
<1>5. ASSUME NEW x \in S PROVE <<x, x>> \notin ByFused
  BY <1>3, <1>4, MoreOrders DEF ByFused
<1>6. ASSUME NEW x \in S, NEW y \in S, x # y PROVE <<x, y>> \in ByFused \/ <<y, x>> \in ByFused
  <2>1. x > y \/ y > x
    BY <1>4, <1>6
  <2> QED BY <2>1 DEF ByFused
<1>7. ASSUME NEW x \in S, NEW y \in S, NEW z \in S, <<x, y>> \in ByFused, <<y, z>> \in ByFused
      PROVE  <<x, z>> \in ByFused
  <2> DEFINE a == Fused(x)  b == Fused(y)  c == Fused(z)
  <2>1. a \in Fraction /\ b \in Fraction /\ c \in Fraction
    BY <1>3
  <2>2. /\ More(a, b) \/ (~More(b, a) /\ x > y)
        /\ More(b, c) \/ (~More(c, b) /\ y > z)
    BY <1>7 DEF ByFused
  <2> HIDE DEF a, b, c
  <2>3. ~More(b, a) /\ ~More(c, b)
    BY <2>1, <2>2, MoreOrders
  <2>4. ~More(c, a) /\ (More(a, b) \/ More(b, c) => More(a, c))
    BY <2>1, <2>3, MoreOrders
  <2>5. x > y /\ y > z => x > z
    BY <1>4
  <2>6. More(a, c) \/ (~More(c, a) /\ x > z)
    BY <2>2, <2>4, <2>5
  <2> QED BY <2>6 DEF ByFused, a, c
<1> QED BY <1>4, <1>5, <1>6, <1>7 DEF TotalOrder

\* What R does not allow after s[k] comes before it.
LEMMA ComesBefore ==
  ASSUME NEW S, NEW n \in Nat, NEW R, NEW s, TopOf(s, S, n, R),
         NEW k \in DOMAIN s, NEW x \in S, x # s[k], <<s[k], x>> \notin R
  PROVE  \E m \in 1 .. k - 1 : s[m] = x
<1>1. s \in Seq(S) /\ DOMAIN s = 1 .. Len(s) /\ Len(s) \in Nat
  BY LenProperties DEF TopOf
<1>2. x \in ToSet(s)
  BY DEF TopOf
<1>3. PICK m \in DOMAIN s : s[m] = x
  BY <1>2 DEF ToSet
<1>4. ~(k < m) /\ m # k
  BY <1>3 DEF TopOf
<1>5. m \in 1 .. k - 1
  BY <1>1, <1>3, <1>4
<1> QED BY <1>3, <1>5

\* The best answers there are: what BestShown says of what is shown.
Best(s) ==
  /\ \A n \in DOMAIN s : s[n] \in Candidates
  /\ \A m, n \in DOMAIN s : s[m] = s[n] => m = n
  /\ query.limit <= hybridPool => Len(s) = Min({query.limit, Cardinality(Candidates)})
  /\ \A n \in DOMAIN s, i \in Candidates : Beats(i, s[n]) => \E m \in 1 .. (n - 1) : s[m] = i

LEMMA WordsAreBest ==
  ASSUME SearchTypeOK, query.mode = "fts", query.words, NEW s,
         TopOf(s, Matching, query.limit, WordOrder)
  PROVE  Best(s)
<1>1. Candidates = Matching /\ ByWords /\ ~ByVector
  BY DEF Candidates, ByWords, ByVector
<1>2. query.limit \in Nat /\ Cardinality(Matching) \in Nat
  BY SidesType, FS_CardinalityType
<1>3. \A n \in DOMAIN s : s[n] \in Matching
  BY DEF TopOf
<1>4. Len(s) = Min({query.limit, Cardinality(Matching)})
  BY <1>2, MinOfTwo DEF TopOf
<1>5. ASSUME NEW n \in DOMAIN s, NEW i \in Matching, Beats(i, s[n])
      PROVE  \E m \in 1 .. (n - 1) : s[m] = i
  <2>1. WordScore(i) > WordScore(s[n])
    BY <1>1, <1>3, <1>5 DEF Beats
  <2>2. WordScore(i) \in Nat /\ WordScore(s[n]) \in Nat
    BY <1>3, SidesType
  <2>3. i # s[n] /\ <<s[n], i>> \notin WordOrder
    BY <2>1, <2>2 DEF WordOrder
  <2> QED BY <1>2, <2>3, ComesBefore
<1>6. \A m, n \in DOMAIN s : s[m] = s[n] => m = n
  BY DEF TopOf
<1> QED BY <1>1, <1>3, <1>4, <1>5, <1>6 DEF Best

LEMMA VectorsAreBest ==
  ASSUME SearchTypeOK, query.mode = "semantic", NEW s,
         TopOf(s, Comparable, query.limit, NearOrder)
  PROVE  Best(s)
<1>1. Candidates = Comparable /\ ~ByWords /\ ByVector
  BY DEF Candidates, ByWords, ByVector
<1>2. query.limit \in Nat /\ Cardinality(Comparable) \in Nat
  BY SidesType, FS_CardinalityType
<1>3. \A n \in DOMAIN s : s[n] \in Comparable
  BY DEF TopOf
<1>4. Len(s) = Min({query.limit, Cardinality(Comparable)})
  BY <1>2, MinOfTwo DEF TopOf
<1>5. ASSUME NEW n \in DOMAIN s, NEW i \in Comparable, Beats(i, s[n])
      PROVE  \E m \in 1 .. (n - 1) : s[m] = i
  <2>1. Nearness(i) > Nearness(s[n])
    BY <1>1, <1>3, <1>5 DEF Beats
  <2>2. Nearness(i) \in Nat /\ Nearness(s[n]) \in Nat
    BY <1>3, SidesType
  <2>3. i # s[n] /\ <<s[n], i>> \notin NearOrder
    BY <2>1, <2>2 DEF NearOrder
  <2> QED BY <1>2, <2>3, ComesBefore
<1>6. \A m, n \in DOMAIN s : s[m] = s[n] => m = n
  BY DEF TopOf
<1> QED BY <1>1, <1>3, <1>4, <1>5, <1>6 DEF Best

\* A list that leaves somebody out has as many elements as it may.
LEMMA TopSize ==
  ASSUME NEW S, IsFiniteSet(S), NEW n \in Nat, NEW R, NEW s, TopOf(s, S, n, R)
  PROVE  /\ ToSet(s) \subseteq S /\ IsFiniteSet(ToSet(s))
         /\ ToSet(s) = S \/ Cardinality(ToSet(s)) = n
<1>1. s \in Seq(S) /\ DOMAIN s = 1 .. Len(s) /\ Len(s) \in Nat
      /\ \A i, j \in DOMAIN s : s[i] = s[j] => i = j
  BY LenProperties DEF TopOf
<1>2. ToSet(s) \subseteq S
  BY <1>1 DEF ToSet
<1>3. IsFiniteSet(ToSet(s))
  BY <1>2, FS_Subset
<1>4. ASSUME ToSet(s) # S PROVE Cardinality(ToSet(s)) = n
  <2>1. Len(s) = n
    BY <1>2, <1>4 DEF TopOf
  <2>2. s \in [1 .. n -> ToSet(s)]
    BY <1>1, <2>1 DEF ToSet
  <2>3. s \in Injection(1 .. n, ToSet(s)) /\ s \in Surjection(1 .. n, ToSet(s))
    BY <1>1, <2>1, <2>2 DEF Injection, IsInjective, Surjection, ToSet
  <2>4. Cardinality(1 .. n) = n
    BY FS_Interval
  <2> QED BY <1>3, <2>3, <2>4, FS_Injection
<1> QED BY <1>2, <1>3, <1>4

\* Both sides: who beats a row on each is worth more than it.
LEMMA FusedBest ==
  ASSUME SearchTypeOK, SidesInv, query.mode = "hybrid",
         IF query.words THEN TopOf(found.fts, Matching, hybridPool, WordOrder)
                        ELSE found.fts = <<>>,
         TopOf(found.vec, Comparable, hybridPool, NearOrder),
         NEW i \in Candidates, NEW h \in ToSet(found.fts) \cup ToSet(found.vec), Beats(i, h)
  PROVE  /\ i \in ToSet(found.fts) \cup ToSet(found.vec)
         /\ More(Fused(i), Fused(h))
<1>1. found.fts \in Seq(Ids) /\ found.vec \in Seq(Ids) /\ hybridPool \in Nat
  BY SearchConstants DEF SearchTypeOK
<1>2. \A x : Worth(x, found.fts) \in Fraction /\ Worth(x, found.vec) \in Fraction
  BY <1>1, WorthIs DEF SidesInv
<1>3. (ByWords <=> query.words) /\ ByVector
  BY DEF ByWords, ByVector
<1>4. ASSUME h \in ToSet(found.fts)
      PROVE  i \in ToSet(found.fts) /\ More(Worth(i, found.fts), Worth(h, found.fts))
  <2>1. query.words /\ TopOf(found.fts, Matching, hybridPool, WordOrder)
    BY <1>4 DEF ToSet
  <2>2. PICK k \in DOMAIN found.fts : found.fts[k] = h
    BY <1>4 DEF ToSet
  <2>3. h \in Matching
    BY <2>1, <2>2 DEF TopOf
  <2>4. i \in Matching /\ WordScore(i) > WordScore(h)
    BY <1>3, <2>1, <2>3 DEF Beats
  <2>5. WordScore(i) \in Nat /\ WordScore(h) \in Nat
    BY <2>3, <2>4, SidesType
  <2>6. i # h /\ <<h, i>> \notin WordOrder
    BY <2>4, <2>5 DEF WordOrder
  <2>7. PICK m \in 1 .. k - 1 : found.fts[m] = i
    BY <1>1, <2>1, <2>2, <2>4, <2>6, ComesBefore
  <2>8. DOMAIN found.fts = 1 .. Len(found.fts) /\ Len(found.fts) \in Nat
    BY <1>1, LenProperties
  <2>9. m \in DOMAIN found.fts /\ m < k
    BY <2>2, <2>7, <2>8
  <2>10. More(Worth(i, found.fts), Worth(h, found.fts))
    BY <1>1, <2>2, <2>7, <2>9, WorthIs DEF SidesInv
  <2> QED BY <2>7, <2>9, <2>10 DEF ToSet
<1>5. ASSUME h \in ToSet(found.vec)
      PROVE  i \in ToSet(found.vec) /\ More(Worth(i, found.vec), Worth(h, found.vec))
  <2>2. PICK k \in DOMAIN found.vec : found.vec[k] = h
    BY <1>5 DEF ToSet
  <2>3. h \in Comparable
    BY <2>2 DEF TopOf
  <2>4. i \in Comparable /\ Nearness(i) > Nearness(h)
    BY <1>3, <2>3 DEF Beats
  <2>5. Nearness(i) \in Nat /\ Nearness(h) \in Nat
    BY <2>3, <2>4, SidesType
  <2>6. i # h /\ <<h, i>> \notin NearOrder
    BY <2>4, <2>5 DEF NearOrder
  <2>7. PICK m \in 1 .. k - 1 : found.vec[m] = i
    BY <1>1, <2>2, <2>4, <2>6, ComesBefore
  <2>8. DOMAIN found.vec = 1 .. Len(found.vec) /\ Len(found.vec) \in Nat
    BY <1>1, LenProperties
  <2>9. m \in DOMAIN found.vec /\ m < k
    BY <2>2, <2>7, <2>8
  <2>10. More(Worth(i, found.vec), Worth(h, found.vec))
    BY <1>1, <2>2, <2>7, <2>9, WorthIs DEF SidesInv
  <2> QED BY <2>7, <2>9, <2>10 DEF ToSet
<1> DEFINE a == Worth(i, found.fts)  b == Worth(h, found.fts)
           c == Worth(i, found.vec)  d == Worth(h, found.vec)
<1>6. /\ h \notin ToSet(found.fts) => ~More(b, a)
      /\ h \notin ToSet(found.vec) => ~More(d, c)
  BY <1>1, WorthIs DEF SidesInv
<1>7. a \in Fraction /\ b \in Fraction /\ c \in Fraction /\ d \in Fraction
  BY <1>2
<1>8. Fused(i) = Plus(a, c) /\ Fused(h) = Plus(b, d)
  BY DEF Fused
<1> HIDE DEF a, b, c, d
<1>9. ~More(b, a) /\ ~More(d, c) /\ (More(a, b) \/ More(c, d))
  BY <1>4, <1>5, <1>6, <1>7, MoreOrders DEF a, b, c, d
<1> QED BY <1>4, <1>5, <1>7, <1>8, <1>9, PlusKeeps

LEMMA HybridIsBest ==
  ASSUME SearchTypeOK, SidesInv, query.mode = "hybrid",
         IF query.words THEN TopOf(found.fts, Matching, hybridPool, WordOrder)
                        ELSE found.fts = <<>>,
         TopOf(found.vec, Comparable, hybridPool, NearOrder),
         NEW s, s = Arranged(ToSet(found.fts) \cup ToSet(found.vec), ByFused)
  PROVE  Best(SubSeq(s, 1, Min({query.limit, Len(s)})))
<1> DEFINE F == ToSet(found.fts) \cup ToSet(found.vec)
           C == Candidates
           N == Cardinality(F)
           k == IF query.limit <= N THEN query.limit ELSE N
           t == SubSeq(s, 1, k)
<1>1. C = (IF query.words THEN Matching ELSE {}) \cup Comparable /\ hybridPool \in Nat
  BY SearchConstants DEF Candidates, ByWords, ByVector
<1>2. IsFiniteSet(C) /\ C \subseteq Ids
  BY <1>1, SidesType, FS_Union, FS_EmptySet
<1>3. /\ ToSet(found.vec) \subseteq Comparable /\ IsFiniteSet(ToSet(found.vec))
      /\ ToSet(found.vec) = Comparable \/ Cardinality(ToSet(found.vec)) = hybridPool
  BY <1>1, SidesType, TopSize
<1>4. /\ ToSet(found.fts) \subseteq C /\ IsFiniteSet(ToSet(found.fts))
      /\ (~query.words \/ ToSet(found.fts) = Matching) \/ Cardinality(ToSet(found.fts)) = hybridPool
  <2>1. CASE query.words
    BY <1>1, <2>1, SidesType, TopSize
  <2>2. CASE ~query.words
    <3>1. ToSet(found.fts) = {}
      BY <2>2 DEF ToSet
    <3> QED BY <2>2, <3>1, FS_EmptySet
  <2> QED BY <2>1, <2>2
<1>5. F \subseteq C /\ IsFiniteSet(F) /\ N \in Nat
  BY <1>1, <1>2, <1>3, <1>4, FS_Subset, FS_CardinalityType
<1>6. F = C \/ N >= hybridPool
  <2>1. CASE ToSet(found.vec) = Comparable /\ (~query.words \/ ToSet(found.fts) = Matching)
    BY <1>1, <1>5, <2>1
  <2>2. CASE Cardinality(ToSet(found.vec)) = hybridPool
    BY <1>1, <1>5, <2>2, FS_Subset
  <2>3. CASE Cardinality(ToSet(found.fts)) = hybridPool
    BY <1>1, <1>5, <2>3, FS_Subset
  <2> QED BY <1>3, <1>4, <2>1, <2>2, <2>3
<1>7. query.limit \in Nat /\ Cardinality(C) \in Nat /\ N <= Cardinality(C)
  BY <1>2, <1>5, SidesType, FS_Subset, FS_CardinalityType
<1> HIDE DEF F, N, C
<1>8. /\ s \in [1 .. N -> F] /\ s \in Seq(F) /\ Len(s) = N
      /\ \A x \in F : \E n \in 1 .. N : s[n] = x
      /\ \A m, n \in 1 .. N : m < n => <<s[m], s[n]>> \in ByFused
  <2>1. F \in SUBSET Ids
    BY <1>2, <1>5
  <2>2. TotalOrder(F, ByFused)
    BY <2>1, FusedInOrder
  <2>3. s = Arranged(F, ByFused)
    BY DEF F
  <2>4. /\ s \in [1 .. Cardinality(F) -> F] /\ s \in Seq(F) /\ Len(s) = Cardinality(F)
        /\ \A x \in F : \E n \in 1 .. Cardinality(F) : s[n] = x
        /\ \A m, n \in 1 .. Cardinality(F) : m < n => <<s[m], s[n]>> \in ByFused
    <3>1. IsFiniteSet(F)
      BY <1>5
    <3>2. s \in [1 .. Cardinality(F) -> F]
      BY <3>1, <2>2, <2>3, ArrangedInOrder
    <3>3. s \in Seq(F) /\ Len(s) = Cardinality(F)
      BY <3>1, <2>2, <2>3, ArrangedInOrder
    <3>4. \A x \in F : \E n \in 1 .. Cardinality(F) : s[n] = x
      BY <3>1, <2>2, <2>3, ArrangedInOrder
    <3>5. \A m, n \in 1 .. Cardinality(F) : m < n => <<s[m], s[n]>> \in ByFused
      BY <3>1, <2>2, <2>3, ArrangedInOrder
    <3> QED BY <3>2, <3>3, <3>4, <3>5
  <2> QED BY <2>4 DEF N
<1>9. TotalOrder(F, ByFused)
  BY <1>2, <1>5, FusedInOrder
<1>10. SubSeq(s, 1, Min({query.limit, Len(s)})) = t
  BY <1>5, <1>7, <1>8, MinOfTwo
<1>11. k \in 0 .. N /\ k \in Nat /\ k = IF query.limit <= N THEN query.limit ELSE N
  BY <1>5, <1>7
<1> HIDE DEF k
<1>12. t \in Seq(F) /\ Len(t) = k /\ DOMAIN t = 1 .. k /\ \A n \in 1 .. k : t[n] = s[n]
  <2>1. s \in Seq(F) /\ k \in 0 .. Len(s)
    BY <1>8, <1>11
  <2> QED BY <2>1, Prefix
<1> HIDE DEF t
<1>13. \A n \in 1 .. k : n \in 1 .. N /\ s[n] \in F
  <2>1. \A n \in 1 .. k : n \in 1 .. N
    BY <1>5, <1>11
  <2> QED BY <2>1, <1>8
<1>14. \A n \in DOMAIN t : t[n] \in C
  BY <1>5, <1>12, <1>13
<1>15. \A x \in F : <<x, x>> \notin ByFused
  BY <1>9 DEF TotalOrder
<1>16. ASSUME NEW m \in 1 .. N, NEW n \in 1 .. N, s[m] = s[n] PROVE m = n
  <2>1. ~(m < n) /\ ~(n < m)
    BY <1>8, <1>15, <1>16
  <2> QED BY <1>5, <2>1
<1>17. \A m, n \in DOMAIN t : t[m] = t[n] => m = n
  BY <1>12, <1>13, <1>16
<1>18. query.limit <= hybridPool => Len(t) = Min({query.limit, Cardinality(C)})
  <2>1. Min({query.limit, Cardinality(C)})
          = IF query.limit <= Cardinality(C) THEN query.limit ELSE Cardinality(C)
    BY <1>7, MinOfTwo
  <2>2. F = C => N = Cardinality(C)
    BY DEF N
  <2> QED BY <1>1, <1>5, <1>6, <1>7, <1>11, <1>12, <2>1, <2>2
<1>19. ASSUME NEW n \in DOMAIN t, NEW i \in C, Beats(i, t[n])
       PROVE  \E m \in 1 .. (n - 1) : t[m] = i
  <2>1. n \in 1 .. k /\ n \in 1 .. N /\ t[n] = s[n] /\ s[n] \in F
    BY <1>12, <1>13, <1>19
  <2>2. i \in F /\ More(Fused(i), Fused(s[n]))
    <3>1. i \in Candidates /\ s[n] \in ToSet(found.fts) \cup ToSet(found.vec) /\ Beats(i, s[n])
      BY <1>19, <2>1 DEF C, F
    <3> QED BY <3>1, FusedBest DEF F
  <2>3. <<i, s[n]>> \in ByFused
    BY <1>2, <1>5, <2>1, <2>2 DEF ByFused
  <2>4. PICK m \in 1 .. N : s[m] = i
    BY <1>8, <2>2
  <2>5. ~(n < m)
    <3>1. SUFFICES ASSUME <<s[n], i>> \in ByFused PROVE FALSE
      BY <1>8, <2>1, <2>4
    <3>2. <<i, i>> \in ByFused
      BY <1>9, <2>1, <2>2, <2>3, <3>1 DEF TotalOrder
    <3> QED BY <1>15, <2>2, <3>2
  <2>6. n # m
    BY <1>15, <2>2, <2>3, <2>4
  <2>7. m \in 1 .. n - 1 /\ m \in 1 .. k
    BY <1>5, <1>11, <2>1, <2>4, <2>5, <2>6
  <2> QED BY <1>12, <2>4, <2>7
<1>20. Best(t)
  BY <1>14, <1>17, <1>18, <1>19 DEF Best, C
<1> QED BY <1>10, <1>20

\* What is known at each stage of a search.
CourseInv ==
  /\ at = "start" => freed = {} /\ writes = 0
  /\ at \in {"start", "fts"} => found = NoneFound
  /\ at = "vec" => found.vec = <<>>
  /\ at = "fts" => query.mode # "semantic"
  /\ at = "vec" => query.mode # "fts"
  /\ at = "fuse" /\ query.mode = "fts" => query.words
  /\ at \in {"start", "fts", "vec", "fuse"} => list = <<>> /\ hits = <<>>
  /\ at = "done" => list = <<>>

\* Each side has ranked the best of its rows, if nobody wrote.
RankInv ==
  writes = 0 =>
    /\ at \in {"vec", "fuse"} =>
         IF ByWords THEN TopOf(found.fts, Matching, Share(query.limit), WordOrder)
                    ELSE found.fts = <<>>
    /\ at = "fuse" /\ ByVector =>
         TopOf(found.vec, Comparable, Share(query.limit), NearOrder)

\* The rows that are shown and those yet to be loaded.
Answer ==
  [n \in 1 .. Len(hits) + Len(list) |->
     IF n <= Len(hits) THEN hits[n].id ELSE list[n - Len(hits)]]

AnswerInv == at \in {"load", "done"} /\ writes = 0 => Best(Answer)

\* Only rows that the filters let through are ranked, and to be loaded.
WantInv ==
  /\ \A i \in ToSet(found.fts) \cup ToSet(found.vec) \cup ToSet(list) :
       i \in freed \/ rows[i] \in query.wanted
  /\ WantedOnly

SearchInv ==
  /\ SearchTypeOK /\ CourseInv /\ SidesInv /\ RankInv /\ AnswerInv /\ WantInv

LEMMA SearchStart == SearchInit => SearchInv
<1> SUFFICES ASSUME SearchInit PROVE SearchInv
  OBVIOUS
<1>e. <<>> \in Seq(Ids) /\ <<>> \in Seq([id : Ids, mail : Mails]) /\ DOMAIN <<>> = {}
  OBVIOUS
<1>1. SearchTypeOK
  <2>1. rows \in [Ids -> Mails \cup {NoMail}] /\ embedded \subseteq Present
    BY DEF SearchInit
  <2>2. bm25 \in [Mails -> WordScores] /\ cosine \in [Mails -> Nearnesses]
    BY SearchConstants DEF SearchInit
  <2>3. query \in [mode : Modes, words : BOOLEAN, limit : Limits \cup {0}, wanted : SUBSET Mails]
    BY DEF SearchInit, NoQuery, Modes
  <2>4. found \in [fts : Seq(Ids), vec : Seq(Ids)]
    BY <1>e DEF SearchInit, NoneFound
  <2>5. freed \subseteq Ids /\ writes \in 0 .. MaxWrites
    BY SearchConstants DEF SearchInit
  <2>6. at = "start" /\ list = <<>> /\ hits = <<>>
    BY DEF SearchInit
  <2> QED BY <1>e, <2>1, <2>2, <2>3, <2>4, <2>5, <2>6 DEF SearchTypeOK
<1>2. CourseInv /\ RankInv /\ AnswerInv
  BY DEF SearchInit, CourseInv, RankInv, AnswerInv
<1>3. found.fts = <<>> /\ found.vec = <<>> /\ list = <<>> /\ hits = <<>>
  BY DEF SearchInit, NoneFound
<1>4. SidesInv
  BY <1>e, <1>3 DEF SidesInv
<1>5. WantInv
  BY <1>e, <1>3 DEF WantInv, WantedOnly, ToSet
<1> QED BY <1>1, <1>2, <1>4, <1>5 DEF SearchInv

\* As long as nobody writes, the best stay the best.
LEMMA IndexSame ==
  ASSUME UNCHANGED <<index, query>>
  PROVE  /\ Present' = Present /\ Matching' = Matching /\ Comparable' = Comparable
         /\ WordOrder' = WordOrder /\ NearOrder' = NearOrder
         /\ (ByWords' <=> ByWords) /\ (ByVector' <=> ByVector)
         /\ Share(query.limit)' = Share(query.limit)
         /\ Candidates' = Candidates
         /\ \A i, j : Beats(i, j)' <=> Beats(i, j)
<1>0. UNCHANGED <<rows, embedded, bm25, cosine, query>>
  BY DEF index
<1>1. /\ \A i : WordScore(i)' = WordScore(i)
      /\ \A i : Nearness(i)' = Nearness(i)
  BY <1>0 DEF WordScore, Nearness
<1>2. Present' = Present
  BY <1>0 DEF Present
<1>3. Matching' = Matching /\ Comparable' = Comparable
  BY <1>0, <1>1, <1>2 DEF Matching, Comparable, Filtered
<1>4. WordOrder' = WordOrder /\ NearOrder' = NearOrder
  BY <1>1 DEF WordOrder, NearOrder
<1>5. (ByWords' <=> ByWords) /\ (ByVector' <=> ByVector)
      /\ Share(query.limit)' = Share(query.limit)
  BY <1>0 DEF ByWords, ByVector, Share
<1>6. Candidates' = Candidates
  BY <1>3, <1>5 DEF Candidates
<1>7. \A i, j : Beats(i, j)' <=> Beats(i, j)
  BY <1>1, <1>3, <1>5 DEF Beats
<1> QED BY <1>2, <1>3, <1>4, <1>5, <1>6, <1>7

LEMMA BestSame ==
  ASSUME UNCHANGED <<index, query>>, NEW s, Best(s), Answer' = s
  PROVE  Best(Answer)'
<1>1. query' = query /\ Candidates' = Candidates /\ \A i, j : Beats(i, j)' <=> Beats(i, j)
  BY IndexSame
<1> QED BY <1>1 DEF Best

LEMMA StartSearchStep ==
  ASSUME SearchInv, StartSearch
  PROVE  SearchInv'
<1>t. /\ SearchTypeOK /\ CourseInv /\ at = "start" /\ UNCHANGED <<found, list, hits, freed, writes>>
      /\ at' = IF query'.mode = "semantic" THEN "vec" ELSE "fts"
  BY DEF SearchInv, StartSearch
<1>1. /\ found = NoneFound /\ found.fts = <<>> /\ found.vec = <<>>
      /\ list = <<>> /\ hits = <<>> /\ freed = {} /\ writes = 0
  BY <1>t DEF CourseInv, NoneFound
<1>2. /\ rows' \in [Ids -> Mails \cup {NoMail}] /\ embedded' \subseteq Present'
      /\ bm25' \in [Mails -> WordScores] /\ cosine' \in [Mails -> Nearnesses]
  <2>1. PICK k \in 0..Min({MaxMail, MaxId}) :
          /\ rows' = [i \in Ids |-> IF i <= k THEN i ELSE NoMail]
          /\ embedded' \in SUBSET (1..k)
          /\ bm25' \in {w \in [Mails -> WordScores] : \A m \in Mails : m > k => w[m] = 0}
          /\ cosine' \in {n \in [Mails -> Nearnesses] : \A m \in Mails : m > k => n[m] = 0}
    BY DEF StartSearch
  <2>2. k \in Nat /\ k <= MaxMail /\ k <= MaxId /\ MaxMail \in Nat /\ MaxId \in Nat
    BY SearchConstants, MinOfTwo
  <2>3. rows' \in [Ids -> Mails \cup {NoMail}]
    BY <2>1, <2>2 DEF Ids, Mails
  <2>4. \A i \in 1 .. k : i \in Ids /\ rows'[i] = i /\ i # NoMail
    BY <2>1, <2>2 DEF Ids, NoMail
  <2>5. embedded' \subseteq Present'
    BY <2>1, <2>4 DEF Present
  <2> QED BY <2>1, <2>3, <2>5
<1>3. query' \in [mode : Modes, words : BOOLEAN, limit : Limits \cup {0}, wanted : SUBSET Mails]
  <2>1. query' \in [mode : Modes, words : BOOLEAN, limit : Limits, wanted : Wanteds]
    BY DEF StartSearch
  <2> QED BY <2>1, SearchConstants
<1>4. SearchTypeOK'
  BY <1>t, <1>2, <1>3 DEF SearchTypeOK
<1>5. CourseInv' /\ SidesInv' /\ AnswerInv'
  <2>1. CourseInv'
    BY <1>t, <1>1 DEF CourseInv
  <2>2. SidesInv' /\ AnswerInv'
    BY <1>t, <1>1 DEF SidesInv, AnswerInv
  <2> QED BY <2>1, <2>2
<1>6. RankInv'
  BY <1>t, <1>1 DEF RankInv, ByWords
<1>7. WantInv'
  <2>1. found'.fts = <<>> /\ found'.vec = <<>> /\ list' = <<>> /\ hits' = <<>> /\ DOMAIN <<>> = {}
    BY <1>t, <1>1
  <2> QED BY <2>1 DEF WantInv, WantedOnly, ToSet
<1> QED BY <1>4, <1>5, <1>6, <1>7 DEF SearchInv

\* A side that has ranked knows only rows that are there, and wanted.
LEMMA RankedRows ==
  ASSUME SearchTypeOK, NEW S \in {Matching, Comparable}, NEW n, NEW R, NEW s, TopOf(s, S, n, R)
  PROVE  /\ s \in Seq(Ids) /\ \A i, j \in DOMAIN s : s[i] = s[j] => i = j
         /\ \A i \in ToSet(s) : rows[i] \in query.wanted
<1>1. S \subseteq Ids /\ \A i \in S : rows[i] \in query.wanted
  BY SidesType DEF Matching, Comparable, Filtered
<1>2. s \in Seq(S) /\ \A i, j \in DOMAIN s : s[i] = s[j] => i = j
  BY DEF TopOf
<1>3. s \in Seq(Ids)
  BY <1>1, <1>2
<1>4. \A i \in ToSet(s) : rows[i] \in query.wanted
  BY <1>1, <1>2 DEF ToSet
<1> QED BY <1>2, <1>3, <1>4

LEMMA FtsRankedStep ==
  ASSUME SearchInv, FtsRanked
  PROVE  SearchInv'
<1>t. /\ SearchTypeOK /\ CourseInv /\ SidesInv /\ RankInv /\ AnswerInv /\ WantInv
      /\ at = "fts" /\ UNCHANGED <<index, query, list, hits, freed, writes>>
  BY DEF SearchInv, FtsRanked
<1>u. UNCHANGED <<rows, embedded, bm25, cosine>>
  BY <1>t DEF index
<1>1. /\ found = NoneFound /\ found.fts = <<>> /\ found.vec = <<>> /\ query.mode # "semantic"
      /\ list = <<>> /\ hits = <<>>
  BY <1>t DEF CourseInv, NoneFound
<1>2. CASE at' = "error" /\ UNCHANGED found
  <2>1. SearchTypeOK'
    BY <1>t, <1>u, <1>2 DEF SearchTypeOK, Present
  <2>2. CourseInv' /\ SidesInv' /\ RankInv' /\ AnswerInv'
    BY <1>t, <1>2 DEF CourseInv, SidesInv, RankInv, AnswerInv
  <2>3. WantInv'
    BY <1>t, <1>u, <1>2 DEF WantInv, WantedOnly
  <2> QED BY <2>1, <2>2, <2>3 DEF SearchInv
<1>3. CASE /\ query.words \/ query.mode = "hybrid"
           /\ found' \in {[found EXCEPT !.fts = s] :
                s \in IF query.words THEN Ranked(Matching, WordScore, Share(query.limit))
                                     ELSE {<<>>}}
           /\ at' = IF query.mode = "hybrid" THEN "vec" ELSE "fuse"
  <2>1. PICK s \in IF query.words THEN Ranked(Matching, WordScore, Share(query.limit)) ELSE {<<>>} :
          found' = [found EXCEPT !.fts = s]
    BY <1>3
  <2>2. IF ByWords THEN TopOf(s, Matching, Share(query.limit), WordOrder) ELSE s = <<>>
    <3>1. ByWords <=> query.words
      BY <1>1 DEF ByWords
    <3>2. Share(query.limit) \in Nat
      BY <1>t, SidesType
    <3> QED BY <1>t, <2>1, <3>1, <3>2, RankedIsTop
  <2>3. /\ s \in Seq(Ids) /\ \A i, j \in DOMAIN s : s[i] = s[j] => i = j
        /\ \A i \in ToSet(s) : rows[i] \in query.wanted
    <3>1. CASE ByWords
      BY <1>t, <2>2, <3>1, RankedRows
    <3>2. CASE ~ByWords
      <4>1. s = <<>> /\ DOMAIN <<>> = {} /\ <<>> \in Seq(Ids)
        BY <2>2, <3>2
      <4> QED BY <4>1 DEF ToSet
    <3> QED BY <3>1, <3>2
  <2>4. found' = [fts |-> s, vec |-> <<>>]
    BY <1>1, <2>1 DEF NoneFound
  <2>5. SearchTypeOK'
    <3>1. found' \in [fts : Seq(Ids), vec : Seq(Ids)]
      BY <2>3, <2>4
    <3> QED BY <1>t, <1>u, <1>3, <3>1 DEF SearchTypeOK, Present
  <2>6. CourseInv' /\ SidesInv' /\ AnswerInv'
    <3>1. found'.vec = <<>> /\ found'.fts = s /\ DOMAIN <<>> = {}
      BY <2>4
    <3>2. CourseInv'
      BY <1>t, <1>1, <1>3, <3>1 DEF CourseInv
    <3>3. SidesInv'
      BY <2>3, <3>1 DEF SidesInv
    <3>4. AnswerInv'
      BY <1>3 DEF AnswerInv
    <3> QED BY <3>2, <3>3, <3>4
  <2>7. RankInv'
    <3>1. found'.fts = s
      BY <2>4
    <3>2. at' = "fuse" => ~ByVector'
      BY <1>t, <1>1, <1>3 DEF ByVector, SearchTypeOK, Modes
    <3> QED BY <1>t, <2>2, <3>1, <3>2, IndexSame DEF RankInv
  <2>8. WantInv'
    <3>1. found'.vec = <<>> /\ found'.fts = s /\ ToSet(<<>>) = {}
      BY <2>4 DEF ToSet
    <3> QED BY <1>t, <1>u, <1>1, <2>3, <3>1 DEF WantInv, WantedOnly
  <2> QED BY <2>5, <2>6, <2>7, <2>8 DEF SearchInv
<1> QED BY <1>2, <1>3 DEF FtsRanked

LEMMA VecRankedStep ==
  ASSUME SearchInv, VecRanked
  PROVE  SearchInv'
<1>t. /\ SearchTypeOK /\ CourseInv /\ SidesInv /\ RankInv /\ AnswerInv /\ WantInv
      /\ at = "vec" /\ at' = "fuse" /\ UNCHANGED <<index, query, list, hits, freed, writes>>
  BY DEF SearchInv, VecRanked
<1>u. UNCHANGED <<rows, embedded, bm25, cosine>>
  BY <1>t DEF index
<1>1. found.vec = <<>> /\ query.mode # "fts" /\ list = <<>> /\ hits = <<>>
  BY <1>t DEF CourseInv
<1>2. PICK s \in Ranked(Comparable, Nearness, Share(query.limit)) :
        found' = [found EXCEPT !.vec = s]
  BY DEF VecRanked
<1>3. TopOf(s, Comparable, Share(query.limit), NearOrder)
  <2>1. Share(query.limit) \in Nat
    BY <1>t, SidesType
  <2> QED BY <1>t, <1>2, <2>1, RankedIsTop
<1>4. /\ s \in Seq(Ids) /\ \A i, j \in DOMAIN s : s[i] = s[j] => i = j
      /\ \A i \in ToSet(s) : rows[i] \in query.wanted
  BY <1>t, <1>3, RankedRows
<1>5. found' = [fts |-> found.fts, vec |-> s] /\ found.fts \in Seq(Ids)
  BY <1>t, <1>2 DEF SearchTypeOK
<1>6. SearchTypeOK'
  <2>1. found' \in [fts : Seq(Ids), vec : Seq(Ids)]
    BY <1>4, <1>5
  <2> QED BY <1>t, <1>u, <2>1 DEF SearchTypeOK, Present
<1>7. found'.vec = s /\ found'.fts = found.fts
  BY <1>5
<1>8. CourseInv' /\ SidesInv' /\ AnswerInv'
  <2>1. CourseInv' /\ AnswerInv'
    BY <1>t, <1>1 DEF CourseInv, AnswerInv
  <2>2. SidesInv'
    BY <1>t, <1>4, <1>7 DEF SidesInv
  <2> QED BY <2>1, <2>2
<1>9. RankInv'
  BY <1>t, <1>3, <1>7, IndexSame DEF RankInv
<1>10. WantInv'
  BY <1>t, <1>u, <1>4, <1>7 DEF WantInv, WantedOnly
<1> QED BY <1>6, <1>8, <1>9, <1>10 DEF SearchInv

\* What Fuse leaves: a list of ids that were ranked, the best there are.
LEMMA FusedList ==
  ASSUME SearchInv, Fuse
  PROVE  \E l \in Seq(ToSet(found.fts) \cup ToSet(found.vec)) :
           list' = l /\ (writes = 0 => Best(l))
<1> DEFINE F == ToSet(found.fts) \cup ToSet(found.vec)
<1>t. SearchTypeOK /\ CourseInv /\ SidesInv /\ RankInv /\ at = "fuse"
  BY DEF SearchInv, Fuse
<1>1. /\ query.mode = "fts" => query.words
      /\ query.mode \in {"fts", "semantic", "hybrid"}
  BY <1>t DEF CourseInv, SearchTypeOK, Modes
<1>2. found.fts \in Seq(Ids) /\ found.vec \in Seq(Ids)
  BY <1>t DEF SearchTypeOK
<1>3. found.fts \in Seq(F) /\ found.vec \in Seq(F) /\ F \subseteq Ids
  BY <1>2 DEF ToSet
<1>4. CASE query.mode = "fts"
  <2>1. list' = found.fts
    BY <1>4 DEF Fuse
  <2>2. ASSUME writes = 0 PROVE Best(found.fts)
    <3>1. TopOf(found.fts, Matching, query.limit, WordOrder)
      BY <1>t, <1>1, <1>4, <2>2 DEF RankInv, ByWords, Share
    <3> QED BY <1>t, <1>1, <1>4, <3>1, WordsAreBest
  <2> QED BY <1>3, <2>1, <2>2
<1>5. CASE query.mode = "semantic"
  <2>1. list' = found.vec
    BY <1>5 DEF Fuse
  <2>2. ASSUME writes = 0 PROVE Best(found.vec)
    <3>1. TopOf(found.vec, Comparable, query.limit, NearOrder)
      BY <1>t, <1>5, <2>2 DEF RankInv, ByVector, Share
    <3> QED BY <1>t, <1>5, <3>1, VectorsAreBest
  <2> QED BY <1>3, <2>1, <2>2
<1>6. CASE query.mode = "hybrid"
  <2> DEFINE q == Arranged(F, ByFused)
             l == SubSeq(q, 1, Min({query.limit, Len(q)}))
  <2>1. list' = l
    BY <1>6 DEF Fuse
  <2>2. IsFiniteSet(F) /\ TotalOrder(F, ByFused)
    BY <1>t, <1>3, FusedInOrder
  <2>3. ASSUME writes = 0 PROVE Best(l)
    <3>1. /\ IF query.words THEN TopOf(found.fts, Matching, hybridPool, WordOrder)
                            ELSE found.fts = <<>>
          /\ TopOf(found.vec, Comparable, hybridPool, NearOrder)
      BY <1>t, <1>6, <2>3 DEF RankInv, ByWords, ByVector, Share
    <3> QED BY <1>t, <1>6, <3>1, HybridIsBest
  <2> HIDE DEF F
  <2>4. q \in Seq(F)
    BY <2>2, ArrangedInOrder
  <2>5. l \in Seq(F)
    <3>1. query.limit \in Nat /\ Len(q) \in Nat
      BY <1>t, <2>4, SidesType
    <3>2. Min({query.limit, Len(q)}) \in 0 .. Len(q)
      BY <3>1, MinOfTwo
    <3> QED BY <2>4, <3>2, Prefix
  <2> HIDE DEF l
  <2> QED BY <2>1, <2>3, <2>5 DEF F
<1> QED BY <1>1, <1>4, <1>5, <1>6

LEMMA FuseStep ==
  ASSUME SearchInv, Fuse
  PROVE  SearchInv'
<1>t. /\ SearchTypeOK /\ CourseInv /\ WantInv
      /\ at = "fuse" /\ at' = "load" /\ found' = NoneFound
      /\ UNCHANGED <<index, query, hits, freed, writes>>
  BY DEF SearchInv, Fuse
<1>u. UNCHANGED <<rows, embedded, bm25, cosine>>
  BY <1>t DEF index
<1>1. hits = <<>> /\ Len(hits) = 0 /\ found'.fts = <<>> /\ found'.vec = <<>> /\ DOMAIN <<>> = {}
  BY <1>t DEF CourseInv, NoneFound
<1> DEFINE F == ToSet(found.fts) \cup ToSet(found.vec)
<1>2. PICK l \in Seq(F) : list' = l /\ (writes = 0 => Best(l))
  BY FusedList
<1>3. F \subseteq Ids
  BY <1>t DEF SearchTypeOK, ToSet
<1> HIDE DEF F
<1>4. l \in Seq(Ids) /\ ToSet(l) \subseteq F
  BY <1>2, <1>3 DEF ToSet
<1>5. SearchTypeOK'
  <2>1. <<>> \in Seq(Ids)
    OBVIOUS
  <2>2. found' \in [fts : Seq(Ids), vec : Seq(Ids)]
    BY <1>t, <2>1 DEF NoneFound
  <2> QED BY <1>t, <1>u, <1>2, <1>4, <2>2 DEF SearchTypeOK, Present
<1>6. CourseInv' /\ SidesInv' /\ RankInv'
  <2>1. CourseInv' /\ RankInv'
    BY <1>t DEF CourseInv, RankInv
  <2>2. SidesInv'
    BY <1>1 DEF SidesInv
  <2> QED BY <2>1, <2>2
<1>7. Answer' = l
  <2>1. DOMAIN l = 1 .. Len(l) /\ Len(l) \in Nat /\ l = [n \in 1 .. Len(l) |-> l[n]]
    BY <1>2
  <2>2. Answer' = [n \in 1 .. 0 + Len(l) |-> IF n <= 0 THEN hits[n].id ELSE l[n - 0]]
    BY <1>t, <1>1, <1>2 DEF Answer
  <2>3. 0 + Len(l) = Len(l)
    BY <2>1
  <2>4. \A n \in 1 .. Len(l) : ~(n <= 0) /\ n - 0 = n
    BY <2>1
  <2> QED BY <2>1, <2>2, <2>3, <2>4
<1>8. AnswerInv'
  BY <1>t, <1>2, <1>7, BestSame DEF AnswerInv
<1>9. WantInv'
  <2>1. \A i \in F : i \in freed \/ rows[i] \in query.wanted
    BY <1>t DEF WantInv, F
  <2>2. ToSet(<<>>) = {}
    BY <1>1 DEF ToSet
  <2> QED BY <1>t, <1>u, <1>1, <1>2, <1>4, <2>1, <2>2 DEF WantInv, WantedOnly
<1> QED BY <1>5, <1>6, <1>8, <1>9 DEF SearchInv

LEMMA LoadHitStep ==
  ASSUME SearchInv, LoadHit
  PROVE  SearchInv'
<1>t. /\ SearchTypeOK /\ CourseInv /\ SidesInv /\ AnswerInv /\ WantInv /\ at = "load"
      /\ UNCHANGED <<index, query, found, freed, writes>>
  BY DEF SearchInv, LoadHit
<1>u. UNCHANGED <<rows, embedded, bm25, cosine>>
  BY <1>t DEF index
<1>s. SidesInv' /\ at' \in {"load", "done"}
  BY <1>t DEF SidesInv, LoadHit
<1>l. /\ list \in Seq(Ids) /\ Len(list) \in Nat /\ hits \in Seq([id : Ids, mail : Mails]) /\ Len(hits) \in Nat
      /\ DOMAIN list = 1 .. Len(list) /\ DOMAIN hits = 1 .. Len(hits)
  <2>1. list \in Seq(Ids) /\ hits \in Seq([id : Ids, mail : Mails])
    BY <1>t DEF SearchTypeOK
  <2> QED BY <2>1, LenProperties
<1>1. CASE list = <<>>
  <2>1. at' = "done" /\ UNCHANGED <<list, hits>>
    BY <1>1 DEF LoadHit
  <2>2. SearchTypeOK'
    BY <1>t, <1>u, <2>1 DEF SearchTypeOK, Present
  <2>3. CourseInv' /\ RankInv'
    BY <1>t, <1>1, <2>1 DEF CourseInv, RankInv
  <2>4. AnswerInv'
    <3>1. Answer' = Answer
      BY <2>1 DEF Answer
    <3>2. PICK s : s = Answer
      OBVIOUS
    <3>3. writes = 0 => Best(s)
      BY <1>t, <3>2 DEF AnswerInv
    <3> QED BY <1>t, <3>1, <3>2, <3>3, BestSame DEF AnswerInv
  <2>5. WantInv'
    BY <1>t, <1>u, <2>1 DEF WantInv, WantedOnly
  <2> QED BY <1>s, <2>2, <2>3, <2>4, <2>5 DEF SearchInv
<1>2. CASE list # <<>>
  <2> DEFINE i == Head(list)
             hit == [id |-> i, mail |-> rows[i]]
  <2>1. /\ hits' = IF rows[i] = NoMail THEN hits ELSE Append(hits, hit)
        /\ list' = Tail(list) /\ at' = "load"
    BY <1>t, <1>2 DEF LoadHit
  <2>2. /\ i \in Ids /\ i = list[1] /\ Len(list) >= 1
        /\ list' \in Seq(Ids) /\ Len(list') = Len(list) - 1
        /\ DOMAIN list' = 1 .. Len(list) - 1
        /\ \A n \in 1 .. Len(list) - 1 : list'[n] = list[n + 1]
    BY <1>l, <1>2, <2>1
  <2>3. i \in ToSet(list) /\ ToSet(list') \subseteq ToSet(list)
    <3>1. i \in ToSet(list)
      BY <1>l, <2>2 DEF ToSet
    <3>2. \A n \in DOMAIN list' : n + 1 \in DOMAIN list /\ list'[n] = list[n + 1]
      BY <1>l, <2>2
    <3> QED BY <3>1, <3>2 DEF ToSet
  <2> HIDE DEF i
  <2>4. rows[i] # NoMail => rows[i] \in Mails /\ hit \in [id : Ids, mail : Mails]
    BY <1>t, <2>2 DEF SearchTypeOK
  <2>5. SearchTypeOK'
    <3>1. hits' \in Seq([id : Ids, mail : Mails])
      <4> DEFINE H == [id : Ids, mail : Mails]
      <4>1. hits \in Seq(H) /\ (rows[i] # NoMail => hit \in H)
        BY <1>l, <2>4
      <4> HIDE DEF H, hit
      <4>2. hits' \in Seq(H)
        BY <2>1, <4>1
      <4> QED BY <4>2 DEF H
    <3> QED BY <1>t, <1>u, <2>1, <2>2, <3>1 DEF SearchTypeOK, Present
  <2>6. CourseInv' /\ RankInv'
    BY <1>t, <2>1 DEF CourseInv, RankInv
  <2>7. WantInv'
    <3>1. i \in freed \/ rows[i] \in query.wanted
      BY <1>t, <2>3 DEF WantInv
    <3>2. WantedOnly'
      <4>1. CASE rows[i] = NoMail
        BY <1>t, <2>1, <4>1 DEF WantInv, WantedOnly
      <4>2. CASE rows[i] # NoMail
        <5>1. /\ DOMAIN hits' = 1 .. Len(hits) + 1 /\ hits'[Len(hits) + 1] = hit
              /\ \A n \in 1 .. Len(hits) : hits'[n] = hits[n]
          BY <1>l, <2>1, <4>2
        <5>2. \A n \in DOMAIN hits' : n = Len(hits) + 1 \/ n \in DOMAIN hits
          BY <1>l, <5>1
        <5> QED BY <1>t, <1>l, <3>1, <5>1, <5>2 DEF WantInv, WantedOnly
      <4> QED BY <4>1, <4>2
    <3>3. \A x \in ToSet(found'.fts) \cup ToSet(found'.vec) \cup ToSet(list') :
            x \in freed \/ rows[x] \in query.wanted
      BY <1>t, <2>3 DEF WantInv
    <3> QED BY <1>t, <1>u, <3>2, <3>3 DEF WantInv
  <2>8. AnswerInv'
    <3>1. SUFFICES ASSUME writes = 0 PROVE Best(Answer)'
      BY <1>t DEF AnswerInv
    <3> DEFINE H == Len(hits)
               L == Len(list)
    <3>2. PICK s : s = Answer
      OBVIOUS
    <3>3. Best(s)
      BY <1>t, <3>1, <3>2 DEF AnswerInv
    <3>4. s = [n \in 1 .. H + L |-> IF n <= H THEN hits[n].id ELSE list[n - H]]
      BY <3>2 DEF Answer
    <3>5. rows[i] # NoMail
      <4>1. H + 1 \in 1 .. H + L /\ ~(H + 1 <= H) /\ (H + 1) - H = 1
        BY <1>l, <2>2
      <4>2. s[H + 1] = i
        BY <2>2, <3>4, <4>1
      <4>3. i \in Candidates
        BY <3>3, <3>4, <4>1, <4>2 DEF Best
      <4> QED BY <1>t, <4>3, SidesType DEF Candidates, Present
    <3>6. /\ hits' = Append(hits, hit) /\ Len(hits') = H + 1
          /\ hits'[H + 1] = hit
          /\ \A n \in 1 .. H : hits'[n] = hits[n]
      BY <1>l, <2>1, <3>5
    <3>7. (H + 1) + (L - 1) = H + L /\ Len(list') = L - 1 /\ H \in Nat /\ L \in Nat /\ L >= 1
      BY <1>l, <2>2
    <3>8. Answer' = [n \in 1 .. H + L |-> IF n <= H + 1 THEN hits'[n].id ELSE list'[n - (H + 1)]]
      BY <3>6, <3>7 DEF Answer
    <3> HIDE DEF H, L
    <3>9. ASSUME NEW n \in 1 .. H + L
          PROVE  (IF n <= H + 1 THEN hits'[n].id ELSE list'[n - (H + 1)])
                   = IF n <= H THEN hits[n].id ELSE list[n - H]
      <4>1. CASE n <= H
        <5>1. n \in 1 .. H /\ n <= H + 1
          BY <3>7, <4>1
        <5> QED BY <3>6, <4>1, <5>1
      <4>2. CASE n = H + 1
        <5>1. n <= H + 1 /\ ~(n <= H) /\ n - H = 1
          BY <3>7, <4>2
        <5>2. hits'[n].id = i
          BY <3>6, <4>2
        <5> QED BY <2>2, <5>1, <5>2
      <4>3. CASE n > H + 1
        <5>1. ~(n <= H + 1) /\ ~(n <= H) /\ n - (H + 1) \in 1 .. L - 1 /\ (n - (H + 1)) + 1 = n - H
          BY <3>7, <4>3
        <5>2. list'[n - (H + 1)] = list[n - H]
          BY <2>2, <5>1 DEF L
        <5> QED BY <5>1, <5>2
      <4> QED BY <3>7, <4>1, <4>2, <4>3
    <3>10. Answer' = s
      BY <3>4, <3>8, <3>9
    <3> QED BY <1>t, <3>3, <3>10, BestSame
  <2> QED BY <1>s, <2>5, <2>6, <2>7, <2>8 DEF SearchInv
<1> QED BY <1>1, <1>2

LEMMA LargestOf ==
  ASSUME NEW S \in SUBSET Nat, IsFiniteSet(S), S # {}
  PROVE  \E x \in S : \A y \in S : x >= y
<1> DEFINE R == {p \in S \X S : p[1] > p[2]}
           s == Arranged(S, R)
           N == Cardinality(S)
<1>1. TotalOrder(S, R)
  BY DEF TotalOrder
<1>2. N \in Nat /\ N # 0
  BY FS_CardinalityType, FS_EmptySet
<1> HIDE DEF R
<1>3. /\ s \in [1 .. N -> S] /\ \A x \in S : \E n \in 1 .. N : s[n] = x
      /\ \A m, n \in 1 .. N : m < n => <<s[m], s[n]>> \in R
  BY <1>1, ArrangedInOrder
<1> HIDE DEF s, N
<1>4. 1 \in 1 .. N /\ s[1] \in S
  BY <1>2, <1>3
<1>5. ASSUME NEW y \in S PROVE s[1] >= y
  <2>1. PICK n \in 1 .. N : s[n] = y
    BY <1>3
  <2>2. CASE n = 1
    BY <1>4, <2>1, <2>2
  <2>3. CASE n # 1
    <3>1. 1 < n
      BY <1>2, <2>3
    <3>2. <<s[1], y>> \in R
      BY <1>3, <1>4, <2>1, <3>1
    <3>3. s[1] > y
      BY <3>2 DEF R
    <3>4. s[1] \in Nat /\ y \in Nat
      BY <1>4
    <3> QED BY <3>3, <3>4
  <2> QED BY <2>2, <2>3
<1> QED BY <1>4, <1>5

\* A new row takes an id that none has.
LEMMA NextRowFree ==
  ASSUME SearchTypeOK
  PROVE  NextRow \notin Present
<1> DEFINE S == Present \cup {0}
<1>1. S \subseteq Nat /\ IsFiniteSet(S) /\ S # {}
  <2>1. Present \subseteq Ids
    BY DEF Present
  <2> QED BY <2>1, SearchConstants, FS_Subset, FS_AddElement
<1> HIDE DEF S
<1>2. Max(S) \in S /\ \A y \in S : Max(S) >= y
  <2>1. \E x \in S : \A y \in S : x >= y
    BY <1>1, LargestOf
  <2> QED BY <2>1 DEF Max
<1>3. NextRow = Max(S) + 1
  BY DEF NextRow, S
<1>4. NextRow \notin S
  <2>1. Max(S) \in Nat
    BY <1>1, <1>2
  <2>2. ~(Max(S) >= Max(S) + 1)
    BY <2>1
  <2> QED BY <1>2, <1>3, <2>2
<1> QED BY <1>4 DEF S

\* What others write ends what is known of the best; a row that was ranked is
\* there, or was removed.
LEMMA WriteStep ==
  ASSUME SearchInv, Write, SearchTypeOK',
         \A i \in Ids : rows[i] # NoMail /\ rows'[i] # rows[i] => i \in freed',
         freed \subseteq freed'
  PROVE  SearchInv'
<1>t. /\ SearchTypeOK /\ CourseInv /\ SidesInv /\ WantInv
      /\ at # "start" /\ writes' = writes + 1 /\ writes \in Nat
      /\ UNCHANGED <<bm25, cosine, query, at, found, list, hits>>
  BY SearchConstants DEF SearchInv, Write, SearchTypeOK
<1>1. CourseInv' /\ SidesInv'
  BY <1>t DEF CourseInv, SidesInv
<1>2. writes' # 0
  BY <1>t
<1>3. RankInv' /\ AnswerInv'
  BY <1>2 DEF RankInv, AnswerInv
<1>4. WantInv'
  <2>1. ToSet(found.fts) \cup ToSet(found.vec) \cup ToSet(list) \subseteq Ids
    BY <1>t DEF SearchTypeOK, ToSet
  <2>2. NoMail \notin query.wanted
    <3>1. query.wanted \subseteq Mails
      BY <1>t DEF SearchTypeOK
    <3> QED BY <3>1, SearchConstants
  <2>3. ASSUME NEW i \in ToSet(found.fts) \cup ToSet(found.vec) \cup ToSet(list)
        PROVE  i \in freed' \/ rows'[i] \in query.wanted
    <3>1. i \in freed \/ rows[i] \in query.wanted
      BY <1>t DEF WantInv
    <3> QED BY <2>1, <2>2, <3>1
  <2>4. WantedOnly'
    BY <1>t DEF WantInv, WantedOnly
  <2> QED BY <1>t, <2>3, <2>4 DEF WantInv
<1> QED BY <1>1, <1>3, <1>4 DEF SearchInv

LEMMA SyncPutStep ==
  ASSUME SearchInv, NEW m \in Mails, SyncPut(m)
  PROVE  SearchInv'
<1>t. /\ SearchTypeOK /\ Write /\ NextRow \in Ids /\ rows' = [rows EXCEPT ![NextRow] = m]
      /\ UNCHANGED <<embedded, freed>>
  BY DEF SearchInv, SyncPut
<1>w. UNCHANGED <<bm25, cosine, query, at, found, list, hits>> /\ writes' \in 0 .. MaxWrites
  BY <1>t, SearchConstants DEF Write, SearchTypeOK
<1> DEFINE r == NextRow
<1>1. r \in Ids /\ r \notin Present
  BY <1>t, NextRowFree
<1> HIDE DEF r
<1>2. /\ rows \in [Ids -> Mails \cup {NoMail}]
      /\ rows' \in [Ids -> Mails \cup {NoMail}]
      /\ \A i \in Ids : rows'[i] = IF i = r THEN m ELSE rows[i]
  BY <1>t, <1>1 DEF SearchTypeOK, r
<1>3. Present \subseteq Present'
  BY <1>1, <1>2 DEF Present
<1>4. SearchTypeOK'
  BY <1>t, <1>w, <1>2, <1>3 DEF SearchTypeOK
<1>5. \A i \in Ids : rows[i] # NoMail => rows'[i] = rows[i]
  BY <1>1, <1>2 DEF Present
<1> QED BY <1>t, <1>4, <1>5, WriteStep

LEMMA SyncDeleteStep ==
  ASSUME SearchInv, NEW r \in Ids, SyncDelete(r)
  PROVE  SearchInv'
<1>t. /\ SearchTypeOK /\ Write /\ rows' = [rows EXCEPT ![r] = NoMail]
      /\ embedded' = embedded \ {r} /\ freed' = freed \cup {r}
  BY DEF SearchInv, SyncDelete
<1>w. UNCHANGED <<bm25, cosine, query, at, found, list, hits>> /\ writes' \in 0 .. MaxWrites
  BY <1>t, SearchConstants DEF Write, SearchTypeOK
<1>2. /\ rows \in [Ids -> Mails \cup {NoMail}]
      /\ rows' \in [Ids -> Mails \cup {NoMail}]
      /\ \A i \in Ids : rows'[i] = IF i = r THEN NoMail ELSE rows[i]
  BY <1>t DEF SearchTypeOK
<1>3. embedded' \subseteq Present'
  <2>1. embedded \subseteq Present
    BY <1>t DEF SearchTypeOK
  <2> QED BY <1>t, <1>2, <2>1 DEF Present
<1>4. SearchTypeOK'
  BY <1>t, <1>w, <1>2, <1>3 DEF SearchTypeOK
<1> QED BY <1>t, <1>2, <1>4, WriteStep

LEMMA EmbeddedStep ==
  ASSUME SearchInv, NEW r \in Ids, Embedded(r)
  PROVE  SearchInv'
<1>t. /\ SearchTypeOK /\ Write /\ r \in Present /\ embedded' = embedded \cup {r}
      /\ UNCHANGED <<rows, freed>>
  BY DEF SearchInv, Embedded
<1>w. UNCHANGED <<bm25, cosine, query, at, found, list, hits>> /\ writes' \in 0 .. MaxWrites
  BY <1>t, SearchConstants DEF Write, SearchTypeOK
<1>4. SearchTypeOK'
  BY <1>t, <1>w DEF SearchTypeOK, Present
<1> QED BY <1>t, <1>4, WriteStep

LEMMA SearchStep ==
  SearchInv /\ (SearchNext \/ UNCHANGED searchVars) => SearchInv'
<1> SUFFICES ASSUME SearchInv, SearchNext \/ UNCHANGED searchVars PROVE SearchInv'
  OBVIOUS
<1>1. CASE UNCHANGED searchVars
  <2>1. UNCHANGED <<index, rows, embedded, bm25, cosine, query, at, found, list, hits, freed, writes>>
    BY <1>1 DEF searchVars, index
  <2>2. SearchTypeOK'
    BY <2>1 DEF SearchInv, SearchTypeOK, Present
  <2>3. CourseInv' /\ SidesInv'
    BY <2>1 DEF SearchInv, CourseInv, SidesInv
  <2>4. RankInv'
    BY <2>1, IndexSame DEF SearchInv, RankInv
  <2>5. AnswerInv'
    <3>1. Answer' = Answer
      BY <2>1 DEF Answer
    <3>2. PICK s : s = Answer
      OBVIOUS
    <3>3. at \in {"load", "done"} /\ writes = 0 => Best(s)
      BY <3>2 DEF SearchInv, AnswerInv
    <3> QED BY <2>1, <3>1, <3>2, <3>3, BestSame DEF AnswerInv
  <2>6. WantInv'
    BY <2>1 DEF SearchInv, WantInv, WantedOnly
  <2> QED BY <2>2, <2>3, <2>4, <2>5, <2>6 DEF SearchInv
<1>2. CASE SearchNext
  BY <1>2, StartSearchStep, FtsRankedStep, VecRankedStep, FuseStep, LoadHitStep,
     SyncPutStep, SyncDeleteStep, EmbeddedStep DEF SearchNext
<1> QED BY <1>1, <1>2

LEMMA SearchSafe == SearchInv => RightHits
<1> SUFFICES ASSUME SearchInv PROVE RightHits
  OBVIOUS
<1>1. WantedOnly
  BY DEF SearchInv, WantInv
<1>2. BestShown
  <2>1. SUFFICES ASSUME at = "done", writes = 0 PROVE BestShown
    BY DEF BestShown
  <2>2. hits \in Seq([id : Ids, mail : Mails]) /\ list = <<>> /\ Best(Answer)
    BY <2>1 DEF SearchInv, SearchTypeOK, CourseInv, AnswerInv
  <2>3. DOMAIN hits = 1 .. Len(hits) /\ Len(hits) \in Nat
    BY <2>2, LenProperties
  <2> DEFINE H == Len(hits)
             s == [n \in 1 .. H |-> hits[n].id]
  <2>4. Answer = s
    <3>1. H + Len(list) = H
      BY <2>2, <2>3
    <3>2. \A n \in 1 .. H : n <= H
      BY <2>3
    <3> QED BY <3>1, <3>2 DEF Answer
  <2>5. DOMAIN s = DOMAIN hits /\ Len(s) = Len(hits) /\ \A n \in DOMAIN hits : s[n] = hits[n].id
    BY <2>3
  <2> HIDE DEF s, H
  <2>6. Best(s)
    BY <2>2, <2>4
  <2>7. /\ \A n \in DOMAIN hits : hits[n].id \in Candidates
        /\ \A m, n \in DOMAIN hits : hits[m].id = hits[n].id => m = n
        /\ query.limit <= hybridPool =>
             Len(hits) = Min({query.limit, Cardinality(Candidates)})
    BY <2>5, <2>6 DEF Best
  <2>8. ASSUME NEW n \in DOMAIN hits, NEW i \in Candidates, Beats(i, hits[n].id)
        PROVE  \E m \in 1 .. (n - 1) : hits[m].id = i
    <3>1. PICK m \in 1 .. (n - 1) : s[m] = i
      BY <2>5, <2>6, <2>8 DEF Best
    <3>2. m \in DOMAIN hits
      BY <2>3
    <3> QED BY <2>5, <3>1, <3>2
  <2> QED BY <2>7, <2>8 DEF BestShown
<1> QED BY <1>1, <1>2 DEF RightHits

-----------------------------------------------------------------------------
(***************************************************************************)
(* The commands together: while one goes on, the others stay as they were. *)
(***************************************************************************)
CommandInv == SearchInv /\ ListingInv /\ TextInv /\ SendingInv

LEMMA CommandStart == Init => CommandInv
BY SearchStart, ListingStart, TextStart, SendingStart DEF Init, CommandInv

LEMMA CommandStep == CommandInv /\ [Next]_commandVars => CommandInv'
<1> SUFFICES ASSUME CommandInv, [Next]_commandVars PROVE CommandInv'
  OBVIOUS
<1>1. SearchNext \/ UNCHANGED searchVars
  BY DEF Next, OneSearch, OneListing, OneText, Sends, commandVars
<1>2. ListingNext \/ UNCHANGED listingVars
  BY DEF Next, OneSearch, OneListing, OneText, Sends, commandVars
<1>3. TextNext \/ UNCHANGED textVars
  BY DEF Next, OneSearch, OneListing, OneText, Sends, commandVars
<1>4. SendingNext \/ UNCHANGED sendingVars
  BY DEF Next, OneSearch, OneListing, OneText, Sends, commandVars
<1> QED BY <1>1, <1>2, <1>3, <1>4, SearchStep, ListingStep, TextStep, SendingStep DEF CommandInv

LEMMA CommandsKept == Spec => []CommandInv
<1>1. Init => CommandInv
  BY CommandStart
<1>2. CommandInv /\ [Next]_commandVars => CommandInv'
  BY CommandStep
<1> QED BY <1>1, <1>2, PTL DEF Spec

\* Every variable of a search, a listing, a rendering and a sending keeps its
\* type: in particular a vector belongs to a row that is there, and a listing
\* that waits for an answer has a folder it is about (index/search.go,
\* imapclient/search.go, html2text.go, config.go).
THEOREM CommandTypes == Spec => []TypeOK
<1>1. CommandInv => TypeOK
  BY DEF CommandInv, TypeOK, SearchInv, ListingInv, TextInv, SendingInv
<1> QED BY <1>1, CommandsKept, PTL

\* While nobody writes to the index, a search shows as many of the candidates as
\* its limit and the pools allow, none twice, and what beats a hit on all sides
\* before it; and whatever a sync writes meanwhile, a hit is a mail the filters
\* let through, unless its row was removed (RightHits; index/search.go:57, 165).
THEOREM BestAreShown == Spec => []RightHits
<1>1. CommandInv => RightHits
  BY SearchSafe DEF CommandInv
<1> QED BY <1>1, CommandsKept, PTL

\* A listing of one folder or of all shows the newest messages, whatever arrives
\* between its commands (NewestShown; imapclient/search.go:10-11).
THEOREM NewestAreShown == Spec => []NewestShown
<1>1. CommandInv => NewestShown
  BY DEF CommandInv, ListingInv
<1> QED BY <1>1, CommandsKept, PTL

\* The two counters and the stack of HTMLToText say of every place of a document
\* whether a reader would see it, and which link ends there, until an end tag is
\* left out or one too many within what is hidden or skipped (Tracks;
\* html2text.go:26-27, 45-46).
THEOREM TextFollowsHtml == Spec => []Tracks
<1>1. CommandInv => Tracks
  BY TextSafe DEF CommandInv
<1> QED BY <1>1, CommandsKept, PTL

\* Settings that load have what the command needs of the account it uses
\* (LoadedIsUsable; transport.go:26-38, config.go:162).
THEOREM LoadedCanBeUsed == Spec => []LoadedIsUsable
<1>1. CommandInv => LoadedIsUsable
  BY SendingSafe DEF CommandInv
<1> QED BY <1>1, CommandsKept, PTL

\* Everybody addressed gets each message that was reported as sent, and nobody
\* more than there were commands to send one (SentAsReported;
\* commands_compose.go:141-184).
THEOREM ReportIsTrue == Spec => []SentAsReported
<1>1. CommandInv => SentAsReported
  BY SendingSafe DEF CommandInv
<1> QED BY <1>1, CommandsKept, PTL
=============================================================================
