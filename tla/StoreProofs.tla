---------------------------- MODULE StoreProofs ----------------------------
(***************************************************************************)
(* Proofs about Store: type correctness; that a command leaves alone the   *)
(* files it was not told to change (LeavesOthersAlone); that config init,  *)
(* when it reports success, has left nothing out (InitComplete); and that  *)
(* a message bears the signature named for it (SignedAsNamed).             *)
(***************************************************************************)
EXTENDS Store, TLAPS

LEMMA ConfigTypes == EmptyConfig \in Configs /\ ShippedConfig \in Configs
BY StoreAssumption DEF EmptyConfig, ShippedConfig, Configs

LEMMA PathType ==
  ASSUME NEW o \in Overrides \cup {NoName}
  PROVE  FilePath(o) \in ConfigFiles
BY DEF FilePath, ConfigFiles

\* The names Seed has yet to see are the next one and the others.
LEMMA RangeOfTail ==
  ASSUME NEW S, NEW s \in Seq(S), s # <<>>
  PROVE  /\ Head(s) \in S /\ Tail(s) \in Seq(S)
         /\ Range(s) = {Head(s)} \cup Range(Tail(s))
<1>1. Head(s) \in S /\ Tail(s) \in Seq(S)
  OBVIOUS
<1>2. /\ Len(s) \in Nat \ {0} /\ DOMAIN s = 1 .. Len(s)
      /\ DOMAIN Tail(s) = 1 .. Len(s) - 1
  OBVIOUS
<1>3. \A i \in 1 .. Len(s) - 1 : Tail(s)[i] = s[i + 1]
  OBVIOUS
<1>4. Head(s) = s[1]
  OBVIOUS
<1>5. Range(s) \subseteq {Head(s)} \cup Range(Tail(s))
  <2> SUFFICES ASSUME NEW i \in 1 .. Len(s)
               PROVE  s[i] = Head(s) \/ s[i] \in Range(Tail(s))
    BY <1>2 DEF Range
  <2>1. CASE i = 1
    BY <2>1, <1>4
  <2>2. CASE i # 1
    <3>1. i - 1 \in 1 .. Len(s) - 1 /\ i = (i - 1) + 1
      BY <2>2, <1>2
    <3>2. Tail(s)[i - 1] = s[i]
      BY <3>1, <1>3
    <3> QED BY <3>1, <3>2, <1>2 DEF Range
  <2> QED BY <2>1, <2>2
<1>6. {Head(s)} \cup Range(Tail(s)) \subseteq Range(s)
  <2>1. \A i \in 1 .. Len(s) - 1 : i + 1 \in 1 .. Len(s)
    BY <1>2
  <2>2. 1 \in 1 .. Len(s)
    BY <1>2
  <2> QED BY <2>1, <2>2, <1>2, <1>3, <1>4 DEF Range
<1> QED BY <1>1, <1>5, <1>6

-----------------------------------------------------------------------------
(***************************************************************************)
(* Type correctness.                                                       *)
(***************************************************************************)
LEMMA LoadedType ==
  ASSUME TypeOK, NEW f \in Files
  PROVE  Loaded(f) \subseteq Configs
BY ConfigTypes, StoreAssumption DEF TypeOK, Contents, Loaded

\* The names of the message are names that may be there.
LEMMA NameTypes ==
  ASSUME TypeOK
  PROVE  /\ TemplateName \in Templates \cup {NoName}
         /\ SignatureName \in Signatures \cup {NoName}
BY DEF TypeOK, TemplateName, SignatureName, First, Configs

LEMMA WriterType ==
  ASSUME TypeOK, WriterStep
  PROVE  TypeOK'
<1> USE StoreAssumption DEF TypeOK, Resting, Writing, Composing
<1>e. ASSUME NEW f \in Files, NEW c \in Contents, SetDisk(f, c)
      PROVE  disk' \in [Files -> Contents]
  BY <1>e DEF SetDisk
<1>k. {"torn", "shipped", "mine", "absent"} \subseteq Contents
  BY DEF Contents
<1>f. ConfigYml \in Files /\ ConfigFiles \subseteq Files
      /\ Templates \cup Signatures \subseteq Files
  BY DEF Files, ConfigFiles
<1>w. mine' = mine /\ opts' = opts /\ cfg' = cfg /\ msg' = msg /\ missing' = missing
  BY DEF WriterStep, composer
<1>h. ASSUME NEW how \in Resting, EndWriter(how)
      PROVE  /\ pc' \in Resting /\ force' = FALSE /\ file' \in Files
             /\ todo' \in Seq(Templates \cup Signatures) /\ spared' = {}
  BY <1>h, <1>f DEF EndWriter
<1>1. ASSUME NEW o \in Overrides \cup {NoName}, NEW f \in BOOLEAN, InitConfig(o, f)
      PROVE  TypeOK'
  <2>1. FilePath(o) \in Files
    BY PathType, <1>f
  <2>2. {FilePath(o)} \cup Range(Assets) \subseteq Files
    BY <2>1, <1>f DEF Range
  <2>3. spared' \subseteq Files /\ due' \subseteq Files
    BY <1>1, <2>2 DEF InitConfig
  <2> QED BY <1>1, <1>w, <2>1, <2>3 DEF InitConfig
<1>2. CASE Seed
  <2>1. CASE todo = <<>>
    <3>1. EndWriter("ok") /\ UNCHANGED <<disk, due>>
      BY <1>2, <2>1 DEF Seed
    <3> QED BY <3>1, <1>h, <1>w
  <2>2. CASE todo # <<>>
    <3>1. Head(todo) \in Files /\ Tail(todo) \in Seq(Templates \cup Signatures)
      BY <2>2, RangeOfTail, <1>f
    <3> QED BY <1>2, <2>2, <3>1, <1>w DEF Seed
  <2> QED BY <2>1, <2>2
<1>3. CASE Truncate
  BY <1>3, <1>e, <1>k, <1>w DEF Truncate
<1>4. CASE Complete
  BY <1>4, <1>e, <1>k, <1>w DEF Complete, AfterWrite
<1>5. ASSUME NEW f \in Templates \cup Signatures, AddTruncate(f)
      PROVE  TypeOK'
  <2>1. f \in Files /\ disk' \in [Files -> Contents]
    BY <1>5, <1>e, <1>k, <1>f DEF AddTruncate
  <2>2. Files \ {f} \subseteq Files /\ <<>> \in Seq(Templates \cup Signatures)
    OBVIOUS
  <2> QED BY <1>5, <1>w, <2>1, <2>2 DEF AddTruncate
<1>6. ASSUME NEW f \in Templates \cup Signatures, Remove(f)
      PROVE  TypeOK'
  <2>1. disk' \in [Files -> Contents]
    BY <1>6, <1>e, <1>k, <1>f DEF Remove
  <2> QED BY <1>6, <1>h, <1>w, <2>1 DEF Remove
<1>7. CASE AddComplete
  <2>1. disk' \in [Files -> Contents]
    BY <1>7, <1>e, <1>k DEF AddComplete
  <2> QED BY <1>7, <1>h, <1>w, <2>1 DEF AddComplete
<1>8. CASE StopWriter
  BY <1>8, <1>h, <1>w DEF StopWriter
<1> QED BY <1>1, <1>2, <1>3, <1>4, <1>5, <1>6, <1>7, <1>8 DEF WriterStep

LEMMA ComposerType ==
  ASSUME TypeOK, ComposerStep
  PROVE  TypeOK'
<1> USE StoreAssumption DEF TypeOK, Resting, Writing, Composing
<1>w. /\ disk' = disk /\ mine' = mine /\ force' = force /\ file' = file
      /\ todo' = todo /\ spared' = spared /\ due' = {}
  BY DEF ComposerStep
<1>e. CASE Ends
  BY <1>e, <1>w, ConfigTypes DEF Ends, Nothing
<1>1. ASSUME NEW o \in Overrides \cup {NoName}, NEW t \in Templates \cup {NoName},
             NEW s \in Signatures \cup {NoName}, NEW r \in BOOLEAN, Load(o, t, s, r)
      PROVE  TypeOK'
  <2>1. FilePath(o) \in Files
    BY PathType DEF Files
  <2>2. cfg' \in Configs
    BY <1>1, <2>1, LoadedType, ConfigTypes DEF Load
  <2>3. missing' \in BOOLEAN
    BY <1>1 DEF Load
  <2> QED BY <1>1, <1>w, <2>2, <2>3 DEF Load, Nothing
<1>2. CASE ReadTemplate
  <2>1. CASE TemplateName # NoName /\ Exists(TemplateName)
    <3>1. TemplateName \in Templates
      BY <2>1, NameTypes
    <3> QED BY <1>2, <2>1, <3>1, <1>w DEF ReadTemplate
  <2> QED BY <1>2, <1>e, <2>1 DEF ReadTemplate
<1>3. CASE HasSignature
  BY <1>3, <1>e, <1>w DEF HasSignature, Proceed
<1>4. CASE ReadSignature
  <2>1. CASE Exists(SignatureName)
    BY <1>4, <2>1, <1>w, NameTypes DEF ReadSignature
  <2> QED BY <1>4, <1>e, <2>1 DEF ReadSignature
<1>5. CASE Deliver \/ StopComposer
  BY <1>5, <1>e DEF Deliver, StopComposer
<1> HIDE DEF TypeOK
<1>6. (\E o \in Overrides \cup {NoName}, t \in Templates \cup {NoName},
          s \in Signatures \cup {NoName}, r \in BOOLEAN : Load(o, t, s, r)) => TypeOK'
  BY <1>1
<1> QED BY <1>2, <1>3, <1>4, <1>5, <1>6 DEF ComposerStep

LEMMA TypeStep ==
  ASSUME TypeOK, [Next]_vars
  PROVE  TypeOK'
<1>1. ASSUME NEW f \in Files, NEW c \in Contents, Edit(f, c)
      PROVE  TypeOK'
  <2>1. disk' \in [Files -> Contents]
    BY <1>1 DEF TypeOK, Edit, SetDisk
  <2>2. missing' \in BOOLEAN
    BY <1>1 DEF TypeOK, Edit
  <2> QED BY <1>1, <2>1, <2>2 DEF TypeOK, Edit
<1>2. CASE UNCHANGED vars
  BY <1>2 DEF TypeOK, vars, writer, composer
<1> QED BY <1>1, <1>2, WriterType, ComposerType DEF Next

LEMMA TypeInit == Init => TypeOK
<1> SUFFICES ASSUME Init PROVE TypeOK
  OBVIOUS
<1>1. ConfigYml \in Files
  BY DEF Files, ConfigFiles
<1>2. disk \in [Files -> Contents]
  BY DEF Init, Contents
<1>3. <<>> \in Seq(Templates \cup Signatures)
  OBVIOUS
<1>4. /\ opts \in [template : Templates \cup {NoName}, signature : Signatures \cup {NoName}]
      /\ msg \in [frame : Templates \cup {NoName}, signature : Signatures \cup {NoName}]
  BY DEF Init, Nothing
<1> QED BY <1>1, <1>2, <1>3, <1>4, ConfigTypes DEF Init, TypeOK, Resting

\* The files, the configuration and the run's own state stay well formed,
\* whoever writes the files (defaults.go, paths.go, helpers.go).
THEOREM StoreTypes == Spec => []TypeOK
<1>1. TypeOK /\ [Next]_vars => TypeOK'
  BY TypeStep
<1> QED BY <1>1, TypeInit, PTL DEF Spec

-----------------------------------------------------------------------------
(***************************************************************************)
(* The files a command has no business with.                               *)
(***************************************************************************)
\* While config init runs: the files it has no business with are no longer
\* touched; without --force they are there, so that Seed keeps them.
SpareInv ==
  /\ pc \notin Writing => spared = {}
  /\ pc \in {"write", "writing", "add"} => file \notin spared
  /\ pc \in {"seed", "write", "writing"} =>
       IF force THEN Range(todo) \cap spared = {} ELSE \A f \in spared : Exists(f)

\* A step of a writing command changes no file that is spared.
LEMMA SparedKept ==
  ASSUME TypeOK, SpareInv, WriterStep, NEW f \in spared
  PROVE  disk'[f] = disk[f]
<1> USE DEF TypeOK, SpareInv, Writing, Resting, SetDisk
<1>1. CASE Truncate
  BY <1>1 DEF Truncate
<1>2. CASE Complete
  BY <1>2 DEF Complete
<1>3. CASE AddComplete
  BY <1>3 DEF AddComplete
<1>4. CASE UNCHANGED disk
  BY <1>4
<1>5. ASSUME NEW g \in Templates \cup Signatures, AddTruncate(g) \/ Remove(g)
      PROVE  FALSE
  BY <1>5 DEF AddTruncate, Remove
<1> QED BY <1>1, <1>2, <1>3, <1>4, <1>5 DEF WriterStep, InitConfig, Seed, StopWriter

LEMMA SpareWriter ==
  ASSUME TypeOK, SpareInv, WriterStep
  PROVE  SpareInv'
<1> USE DEF TypeOK, SpareInv, Writing, Resting
<1>k. \A f \in spared : disk'[f] = disk[f]
  BY SparedKept
<1>h. ASSUME NEW how \in Resting, EndWriter(how)
      PROVE  SpareInv'
  BY <1>h DEF EndWriter
<1>1. ASSUME NEW o \in Overrides \cup {NoName}, NEW f \in BOOLEAN, InitConfig(o, f)
      PROVE  SpareInv'
  <2>1. /\ pc' = "write" /\ file' = FilePath(o) /\ todo' = Assets /\ force' = f
        /\ disk' = disk /\ (~Exists(FilePath(o)) \/ f)
        /\ spared' = IF f THEN Files \ ({FilePath(o)} \cup Range(Assets))
                          ELSE {g \in Files : Exists(g)}
    BY <1>1 DEF InitConfig
  <2>2. CASE f
    BY <2>1, <2>2
  <2>3. CASE ~f
    BY <2>1, <2>3 DEF Exists
  <2> QED BY <2>2, <2>3
<1>2. CASE Seed
  <2>1. CASE todo = <<>>
    BY <1>2, <2>1, <1>h DEF Seed
  <2>2. CASE todo # <<>>
    <3>1. Range(todo) = {Head(todo)} \cup Range(Tail(todo))
      BY <2>2, RangeOfTail
    <3>2. /\ pc = "seed" /\ force' = force /\ spared' = spared /\ disk' = disk
          /\ pc' = (IF Kept(Head(todo)) THEN "seed" ELSE "write")
          /\ file' = Head(todo) /\ todo' = Tail(todo)
      BY <1>2, <2>2 DEF Seed
    <3>3. CASE force
      BY <3>1, <3>2, <3>3 DEF Kept
    <3>4. CASE ~force
      BY <3>2, <3>4 DEF Kept, Exists
    <3> QED BY <3>3, <3>4
  <2> QED BY <2>1, <2>2
<1>3. CASE Truncate
  BY <1>3, <1>k DEF Truncate, Exists
<1>4. CASE Complete
  BY <1>4, <1>k DEF Complete, AfterWrite, Exists
<1>5. ASSUME NEW f \in Templates \cup Signatures, AddTruncate(f)
      PROVE  SpareInv'
  BY <1>5 DEF AddTruncate
<1>6. CASE \E f \in Templates \cup Signatures : Remove(f)
  BY <1>6, <1>h DEF Remove
<1>7. CASE AddComplete \/ StopWriter
  BY <1>7, <1>h DEF AddComplete, StopWriter
<1> HIDE DEF SpareInv
<1> QED BY <1>1, <1>2, <1>3, <1>4, <1>5, <1>6, <1>7 DEF WriterStep

\* A command that composes changes none of the writer's state, and it does not
\* begin or end one that writes.
LEMMA ComposerFrame ==
  ASSUME ComposerStep
  PROVE  /\ UNCHANGED <<disk, mine, force, file, todo, spared>> /\ due' = {}
         /\ pc \in Resting \cup Composing /\ pc' \in Composing \cup {"idle"}
BY DEF ComposerStep, Load, ReadTemplate, HasSignature, ReadSignature, Deliver,
       StopComposer, Ends, Proceed, Composing, Resting

LEMMA SpareStep ==
  ASSUME TypeOK, SpareInv, [Next]_vars
  PROVE  SpareInv'
<1>1. CASE ComposerStep
  BY <1>1, ComposerFrame DEF SpareInv, Writing, Resting, Composing
<1>2. ASSUME NEW f \in Files, NEW c \in Contents, Edit(f, c)
      PROVE  SpareInv'
  <2>1. \A g \in spared' : g \in spared /\ g # f
    BY <1>2 DEF Edit
  <2>2. \A g \in spared' : disk'[g] = disk[g]
    BY <1>2, <2>1 DEF TypeOK, Edit, SetDisk
  <2> QED BY <1>2, <2>1, <2>2 DEF SpareInv, Edit, Exists
<1>3. CASE UNCHANGED vars
  BY <1>3 DEF SpareInv, vars, writer, Exists
<1> QED BY <1>1, <1>2, <1>3, SpareWriter DEF Next

LEMMA SpareInit == Init => SpareInv
BY DEF Init, SpareInv, Writing

\* A command changes none of the files it was not told to change
\* (LeavesOthersAlone; defaults.go:22, 72-73).
THEOREM OthersLeftAlone == Spec => LeavesOthersAlone
<1>1. TypeOK /\ SpareInv /\ [Next]_vars => SpareInv'
  BY SpareStep
<1>2. TypeOK /\ SpareInv /\ [Next]_vars
      => [WriterStep => \A f \in spared : disk'[f] = disk[f]]_vars
  BY SparedKept
<1> QED BY <1>1, <1>2, SpareInit, StoreTypes, PTL DEF Spec, LeavesOthersAlone

-----------------------------------------------------------------------------
(***************************************************************************)
(* What config init owes.                                                  *)
(***************************************************************************)
\* What config init owes is whole, or is being written, or is yet to be seen;
\* and without --force nothing it owes is torn but by its own write.
DueInv ==
  pc \in {"seed", "write", "writing", "ok"} =>
    \A f \in due :
      /\ \/ disk[f] \in {"shipped", "mine"}
         \/ pc \in {"write", "writing"} /\ f = file
         \/ pc # "ok" /\ f \in Range(todo)
      /\ ~force /\ disk[f] = "torn" => pc = "writing" /\ f = file

LEMMA DueWriter ==
  ASSUME TypeOK, DueInv, WriterStep
  PROVE  DueInv'
<1> USE DEF TypeOK, DueInv, Writing, Resting
<1>1. ASSUME NEW o \in Overrides \cup {NoName}, NEW f \in BOOLEAN, InitConfig(o, f)
      PROVE  DueInv'
  <2>1. /\ pc' = "write" /\ file' = FilePath(o) /\ todo' = Assets /\ force' = f
        /\ disk' = disk
        /\ due' \subseteq {FilePath(o)} \cup Range(Assets)
        /\ ~f => \A g \in due' : disk[g] # "torn"
    BY <1>1 DEF InitConfig
  <2> QED BY <2>1
<1>2. CASE Seed
  <2>1. CASE todo = <<>>
    <3>1. Range(todo) = {}
      BY <2>1 DEF Range
    <3> QED BY <1>2, <2>1, <3>1 DEF Seed, EndWriter
  <2>2. CASE todo # <<>>
    <3>1. Range(todo) = {Head(todo)} \cup Range(Tail(todo))
      BY <2>2, RangeOfTail
    <3>2. /\ pc = "seed" /\ force' = force /\ due' = due /\ disk' = disk
          /\ pc' = (IF Kept(Head(todo)) THEN "seed" ELSE "write")
          /\ file' = Head(todo) /\ todo' = Tail(todo)
      BY <1>2, <2>2 DEF Seed
    <3>3. ASSUME Kept(Head(todo)), Head(todo) \in due
          PROVE  disk[Head(todo)] \in {"shipped", "mine"}
      BY <3>2, <3>3, <2>2, RangeOfTail DEF Kept, Exists, Contents, Files
    <3> QED BY <3>1, <3>2, <3>3
  <2> QED BY <2>1, <2>2
<1>3. CASE Truncate
  <2>1. /\ pc = "write" /\ pc' = "writing" /\ due' = due /\ file' = file
        /\ todo' = todo /\ force' = force
        /\ \A f \in Files : f # file => disk'[f] = disk[f]
    BY <1>3 DEF Truncate, SetDisk
  <2> QED BY <2>1
<1>4. CASE Complete
  <2>1. /\ pc = "writing" /\ pc' = "seed" /\ due' = due /\ file' = file
        /\ todo' = todo /\ force' = force /\ disk'[file] = "shipped"
        /\ \A f \in Files : f # file => disk'[f] = disk[f]
    BY <1>4 DEF Complete, SetDisk, AfterWrite
  <2> QED BY <2>1
<1>5. ASSUME NEW f \in Templates \cup Signatures,
             AddTruncate(f) \/ Remove(f) \/ AddComplete \/ StopWriter
      PROVE  pc' \notin {"seed", "write", "writing", "ok"}
  BY <1>5 DEF AddTruncate, Remove, AddComplete, StopWriter, EndWriter
<1>6. CASE AddComplete \/ StopWriter
  BY <1>6 DEF AddComplete, StopWriter, EndWriter
<1>7. CASE pc' \notin {"seed", "write", "writing", "ok"}
  BY <1>7
<1> HIDE DEF DueInv
<1> QED BY <1>1, <1>2, <1>3, <1>4, <1>5, <1>6, <1>7 DEF WriterStep

LEMMA DueStep ==
  ASSUME TypeOK, DueInv, [Next]_vars
  PROVE  DueInv'
<1>1. CASE ComposerStep
  BY <1>1, ComposerFrame DEF DueInv
<1>2. ASSUME NEW f \in Files, NEW c \in Contents, Edit(f, c)
      PROVE  DueInv'
  <2>1. \A g \in due' : g \in due /\ disk'[g] = disk[g]
    BY <1>2 DEF TypeOK, Edit, SetDisk
  <2> QED BY <1>2, <2>1 DEF DueInv, Edit
<1>3. CASE UNCHANGED vars
  BY <1>3 DEF DueInv, vars, writer
<1> QED BY <1>1, <1>2, <1>3, DueWriter DEF Next

LEMMA DueInit == Init => DueInv
BY DEF Init, DueInv

\* When config init reports success the configuration and the default assets
\* are whole, but for those that were torn when it began without --force and
\* those changed meanwhile (InitComplete).
THEOREM InitIsComplete == Spec => []InitComplete
<1>1. TypeOK /\ DueInv /\ [Next]_vars => DueInv'
  BY DueStep
<1>2. DueInv => InitComplete
  BY DEF DueInv, InitComplete
<1> QED BY <1>1, <1>2, DueInit, StoreTypes, PTL DEF Spec

-----------------------------------------------------------------------------
(***************************************************************************)
(* The signature of a message.                                             *)
(***************************************************************************)
\* A command that finds its signature gone has missed it at some time.
MissingInv ==
  pc \in Composing /\ SignatureName # NoName /\ ~Exists(SignatureName) => missing

SignInv == MissingInv /\ SignedAsNamed

LEMMA SignComposer ==
  ASSUME TypeOK, SignInv, ComposerStep
  PROVE  SignInv'
<1> USE DEF SignInv, MissingInv, SignedAsNamed, Composing, SignatureName
<1>d. disk' = disk
  BY ComposerFrame
<1>e. CASE Ends
  BY <1>e DEF Ends
<1>1. ASSUME NEW o \in Overrides \cup {NoName}, NEW t \in Templates \cup {NoName},
             NEW s \in Signatures \cup {NoName}, NEW r \in BOOLEAN, Load(o, t, s, r)
      PROVE  SignInv'
  BY <1>1, <1>d DEF Load, Exists
<1>2. CASE ReadTemplate
  BY <1>2, <1>d, <1>e DEF ReadTemplate, Exists
<1>3. CASE HasSignature
  <2>1. CASE Proceed("ready")
    <3>1. /\ SignatureName = NoName \/ (~Exists(SignatureName) /\ ~Required)
          /\ pc = "look" /\ opts' = opts /\ cfg' = cfg /\ missing' = missing /\ pc' = "ready"
      BY <1>3, <2>1 DEF HasSignature, Proceed, Ends
    <3> QED BY <3>1, <1>d DEF Exists, Required
  <2>2. CASE Proceed("sign")
    BY <1>3, <2>2, <1>d DEF HasSignature, Proceed, Exists
  <2> QED BY <1>3, <1>e, <2>1, <2>2 DEF HasSignature
<1>4. CASE ReadSignature
  BY <1>4, <1>d, <1>e DEF ReadSignature, Exists, TypeOK
<1>5. CASE Deliver \/ StopComposer
  BY <1>5, <1>e DEF Deliver, StopComposer
<1> HIDE DEF SignInv
<1> QED BY <1>1, <1>2, <1>3, <1>4, <1>5 DEF ComposerStep

LEMMA SignStep ==
  ASSUME TypeOK, SignInv, [Next]_vars
  PROVE  SignInv'
<1> USE DEF SignInv, MissingInv, SignedAsNamed, Composing, SignatureName
<1>1. CASE WriterStep
  <2>1. pc' \notin Composing
    BY <1>1 DEF WriterStep, InitConfig, Seed, Truncate, Complete, AfterWrite, AddTruncate,
                AddComplete, Remove, StopWriter, EndWriter
  <2> QED BY <2>1
<1>2. ASSUME NEW f \in Files, NEW c \in Contents, Edit(f, c)
      PROVE  SignInv'
  <2>1. /\ pc' = pc /\ opts' = opts /\ cfg' = cfg /\ msg' = msg
        /\ missing' = (missing \/ (pc \in Composing /\ f = SignatureName /\ c = "absent"))
        /\ \A g \in Files : disk'[g] = IF g = f THEN c ELSE disk[g]
    BY <1>2 DEF Edit, SetDisk, TypeOK
  <2>2. missing => missing'
    BY <2>1
  <2>3. SignatureName' = SignatureName
    BY <2>1 DEF First
  <2>4. SignatureName # NoName => SignatureName \in Files
    BY NameTypes DEF Files
  <2>5. SignedAsNamed'
    BY <2>1, <2>2, <2>3
  <2>6. MissingInv'
    BY <2>1, <2>2, <2>3, <2>4 DEF Exists
  <2> QED BY <2>5, <2>6
<1>3. CASE UNCHANGED vars
  BY <1>3 DEF vars, composer, Exists
<1>4. CASE ComposerStep
  BY <1>4, SignComposer
<1> HIDE DEF SignInv
<1> QED BY <1>1, <1>2, <1>3, <1>4 DEF Next

LEMMA SignInit == Init => SignInv
BY DEF Init, SignInv, MissingInv, SignedAsNamed, Composing

\* A message carries the signature named for it, without fail when a flag or
\* the account names it (SignedAsNamed; helpers.go:66-68).
THEOREM IsSignedAsNamed == Spec => []SignedAsNamed
<1>1. TypeOK /\ SignInv /\ [Next]_vars => SignInv'
  BY SignStep
<1>2. SignInv => SignedAsNamed
  BY DEF SignInv
<1> QED BY <1>1, <1>2, SignInit, StoreTypes, PTL DEF Spec
=============================================================================
