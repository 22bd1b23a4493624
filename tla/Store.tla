------------------------------- MODULE Store -------------------------------
(***************************************************************************)
(* The files of ~/.mailotron: the configuration, the templates and the     *)
(* signatures, and the commands that write them (config init, template and *)
(* signature add and rm) or compose a message of them (render, send).      *)
(* Meanwhile others change the files: the user with an editor, or other    *)
(* commands, which is why only one command needs to be followed.           *)
(*                                                                         *)
(* A file is written by os.WriteFile, which first empties it: a process    *)
(* killed in between leaves it torn, and a reader may find it so.          *)
(***************************************************************************)
EXTENDS Integers, Sequences, FiniteSets

CONSTANTS
  Templates,    \* names of templates,
  Signatures,   \* and of signatures, told apart by their directory
  ConfigYml,    \* <dir>/config.yml
  ConfigYaml,   \* <dir>/config.yaml
  Overrides,    \* the files --config or MAILOTRON_CONFIG may name
  NoName,       \* an option, a setting or a signature that is not there
  Assets,       \* the names Seed goes through, in its order
  ShippedTemplate, ShippedSignature,   \* what the starter config names
  UserConfigs   \* what the user may have written into a config file

Configs == [accTemplate  : Templates \cup {NoName},
            accSignature : Signatures \cup {NoName},
            template     : Templates \cup {NoName},
            signature    : Signatures \cup {NoName}]

ConfigFiles == {ConfigYml, ConfigYaml} \cup Overrides
Files == ConfigFiles \cup Templates \cup Signatures

ASSUME StoreAssumption ==
  /\ NoName \notin Files
  /\ ConfigYml # ConfigYaml
  /\ Templates \cap Signatures = {}
  /\ ConfigFiles \cap (Templates \cup Signatures) = {}
  /\ Assets \in Seq(Templates \cup Signatures)
  /\ ShippedTemplate \in Templates /\ ShippedSignature \in Signatures
  /\ UserConfigs \subseteq Configs

VARIABLES
  disk,      \* disk[f]: what is in file f
  mine,      \* the configuration the user writes, where disk says "mine"
  pc,        \* where the command stands
  \* a command that writes
  force,     \* --force
  file,      \* the file it is at
  todo,      \* the names Seed has yet to see
  \* a command that composes
  opts,      \* its --template and --signature
  cfg,       \* the configuration it has loaded
  msg,       \* the files its message is made of
  \* auxiliary
  spared,    \* files the command has no business with
  due,       \* files config init owes the user
  missing    \* the signature was not there at some time of the command

writer   == <<force, file, todo, spared, due>>
composer == <<opts, cfg, msg, missing>>
vars     == <<disk, mine, pc, writer, composer>>

-----------------------------------------------------------------------------
Contents == {"absent", "torn", "shipped", "mine"}
Exists(f) == disk[f] # "absent"

\* Where the configuration is looked for (paths.go).
FilePath(override) ==
  IF override # NoName THEN override
  ELSE IF ~Exists(ConfigYml) /\ Exists(ConfigYaml) THEN ConfigYaml
  ELSE ConfigYml

ShippedConfig == [accTemplate |-> NoName, accSignature |-> NoName,
                  template |-> ShippedTemplate, signature |-> ShippedSignature]
EmptyConfig   == [accTemplate |-> NoName, accSignature |-> NoName,
                  template |-> NoName, signature |-> NoName]

\* firstNonEmpty
First(a, b) == IF a # NoName THEN a ELSE b

Nothing == [frame |-> NoName, signature |-> NoName]

\* "ok": config init has reported success; "idle": no command runs.
Resting   == {"idle", "ok"}
Writing   == {"seed", "write", "writing", "add"}
Composing == {"frame", "look", "sign", "ready"}

TypeOK ==
  /\ disk \in [Files -> Contents]
  /\ mine \in UserConfigs
  /\ pc \in Resting \cup Writing \cup Composing
  /\ force \in BOOLEAN
  /\ file \in Files
  /\ todo \in Seq(Templates \cup Signatures)
  /\ opts \in [template : Templates \cup {NoName}, signature : Signatures \cup {NoName}]
  /\ cfg \in Configs
  /\ msg \in [frame : Templates \cup {NoName}, signature : Signatures \cup {NoName}]
  /\ pc \in {"look", "sign", "ready"} => msg.frame # NoName
  /\ spared \subseteq Files /\ due \subseteq Files
  /\ missing \in BOOLEAN

Init ==
  /\ disk \in [Files -> {"absent", "mine"}]
  /\ mine \in UserConfigs
  /\ pc = "idle" /\ force = FALSE /\ file = ConfigYml /\ todo = <<>>
  /\ opts = [template |-> NoName, signature |-> NoName]
  /\ cfg = EmptyConfig /\ msg = Nothing
  /\ spared = {} /\ due = {} /\ missing = FALSE

\* The template and the signature the message is to be made of.
TemplateName  == First(opts.template, First(cfg.accTemplate, cfg.template))
SignatureName == First(opts.signature, First(cfg.accSignature, cfg.signature))

-----------------------------------------------------------------------------
(***************************************************************************)
(* The commands that write.                                                *)
(***************************************************************************)
SetDisk(f, content) == disk' = [disk EXCEPT ![f] = content]

\* A writing command ends.
EndWriter(how) ==
  /\ pc' = how
  /\ force' = FALSE /\ file' = ConfigYml /\ todo' = <<>>
  /\ spared' = {}

Range(s) == {s[i] : i \in DOMAIN s}

\* config init.  Without --force an existing configuration is an error.
InitConfig(override, f) ==
  LET dst   == FilePath(override)
      ours  == {dst} \cup Range(Assets)
      whole == {g \in ours : disk[g] # "torn"}
  IN  /\ pc \in Resting
      /\ ~Exists(dst) \/ f
      /\ pc' = "write" /\ force' = f /\ file' = dst /\ todo' = Assets
      /\ spared' = IF f THEN Files \ ours ELSE {g \in Files : Exists(g)}
      /\ due' = IF f THEN ours ELSE whole
      /\ UNCHANGED disk

\* Seeded fault: existing files are written over.
KeptByNobody(f) == FALSE

\* HasTemplate and HasSignature: without --force a file that exists is kept.
Kept(f) == Exists(f) /\ ~force

\* Seed takes the next of its names.
Seed ==
  /\ pc = "seed"
  /\ IF todo = <<>>
     THEN EndWriter("ok")
     ELSE /\ UNCHANGED <<force, spared>>
          /\ pc' = IF Kept(Head(todo)) THEN "seed" ELSE "write"
          /\ file' = Head(todo)
          /\ todo' = Tail(todo)
  /\ UNCHANGED <<disk, due>>

\* os.WriteFile opens the file and empties it,
Truncate ==
  /\ pc = "write"
  /\ SetDisk(file, "torn")
  /\ pc' = "writing"
  /\ UNCHANGED <<force, file, todo, spared, due>>

\* Seeded fault: Seed ends with the first file it has written.
AfterFirst == "ok"

AfterWrite == "seed"

\* and writes.
Complete ==
  /\ pc = "writing"
  /\ SetDisk(file, "shipped")
  /\ pc' = AfterWrite
  /\ UNCHANGED <<force, file, todo, spared, due>>

\* template add and signature add write over what is there.
AddTruncate(f) ==
  /\ pc \in Resting
  /\ SetDisk(f, "torn")
  /\ pc' = "add" /\ file' = f /\ force' = FALSE /\ todo' = <<>>
  /\ spared' = Files \ {f} /\ due' = {}

AddComplete ==
  /\ pc = "add"
  /\ SetDisk(file, "mine")
  /\ EndWriter("idle")
  /\ UNCHANGED due

\* template rm and signature rm.  A missing file is an error.
Remove(f) ==
  /\ pc \in Resting
  /\ Exists(f)
  /\ SetDisk(f, "absent")
  /\ EndWriter("idle")
  /\ due' = {}

\* The process is killed, or a write fails.
StopWriter ==
  /\ pc \in Writing
  /\ EndWriter("idle")
  /\ due' = {}
  /\ UNCHANGED disk

WriterStep ==
  /\ \/ \E o \in Overrides \cup {NoName}, f \in BOOLEAN : InitConfig(o, f)
     \/ Seed \/ Truncate \/ Complete
     \/ \E f \in Templates \cup Signatures : AddTruncate(f) \/ Remove(f)
     \/ AddComplete \/ StopWriter
  /\ UNCHANGED <<mine, composer>>

-----------------------------------------------------------------------------
(***************************************************************************)
(* The commands that compose.                                              *)
(***************************************************************************)
Proceed(where) == pc' = where /\ UNCHANGED <<opts, cfg, msg, missing>>

\* The command ends.
Ends ==
  /\ pc' = "idle" /\ opts' = [template |-> NoName, signature |-> NoName]
  /\ cfg' = EmptyConfig /\ msg' = Nothing
  /\ missing' = FALSE

\* What Parse may make of a file; a torn one is an error, whole by now, or lacks
\* the defaults, which come last.
Loaded(f) ==
  CASE disk[f] = "shipped" -> {ShippedConfig}
    [] disk[f] = "mine"    -> {mine}
    [] disk[f] = "torn"    -> {EmptyConfig, ShippedConfig, mine}
    [] disk[f] = "absent"  -> {}

\* A command reads its options and its configuration; render does without one.
Load(override, t, s, isRender) ==
  LET path == FilePath(override)
  IN  /\ pc \in Resting
      /\ cfg' \in IF isRender /\ ~Exists(path) THEN {EmptyConfig} ELSE Loaded(path)
      /\ opts' = [template |-> t, signature |-> s]
      /\ pc' = "frame" /\ msg' = Nothing
      /\ missing' = (SignatureName' # NoName /\ ~Exists(SignatureName'))

\* Seeded fault: the frame is read though no template is named.
ReadAnyTemplate ==
  /\ pc = "frame"
  /\ msg' = [msg EXCEPT !.frame = TemplateName]
  /\ pc' = "look"
  /\ UNCHANGED <<opts, cfg, missing>>

\* The template must be named and there.
ReadTemplate ==
  /\ pc = "frame"
  /\ IF TemplateName # NoName /\ Exists(TemplateName)
     THEN /\ msg' = [msg EXCEPT !.frame = TemplateName]
          /\ pc' = "look"
          /\ UNCHANGED <<opts, cfg, missing>>
     ELSE Ends

\* Seeded fault: the account's signature may be missing too.
RequiredByFlag == opts.signature # NoName

\* Whether a missing signature is an error.
Required == opts.signature # NoName \/ cfg.accSignature # NoName

HasSignature ==
  /\ pc = "look"
  /\ IF SignatureName = NoName \/ (~Exists(SignatureName) /\ ~Required)
     THEN Proceed("ready")
     ELSE IF Exists(SignatureName) THEN Proceed("sign") ELSE Ends

\* It may have gone since.
ReadSignature ==
  /\ pc = "sign"
  /\ IF Exists(SignatureName)
     THEN /\ msg' = [msg EXCEPT !.signature = SignatureName]
          /\ pc' = "ready"
          /\ UNCHANGED <<opts, cfg, missing>>
     ELSE Ends

\* The message is printed, or handed to the transport.
Deliver == pc = "ready" /\ Ends

StopComposer == pc \in Composing /\ Ends

ComposerStep ==
  /\ \/ \E o \in Overrides \cup {NoName}, t \in Templates \cup {NoName},
              s \in Signatures \cup {NoName}, r \in BOOLEAN : Load(o, t, s, r)
     \/ ReadTemplate \/ HasSignature \/ ReadSignature \/ Deliver \/ StopComposer
  /\ UNCHANGED <<disk, mine, force, file, todo, spared>>
  /\ due' = {}

-----------------------------------------------------------------------------
\* Others write, remove, or are just writing a file.
Edit(f, content) ==
  /\ content # disk[f]
  /\ SetDisk(f, content)
  /\ spared' = spared \ {f} /\ due' = due \ {f}
  /\ missing' = (missing \/ (pc \in Composing /\ f = SignatureName /\ content = "absent"))
  /\ UNCHANGED <<mine, pc, force, file, todo, opts, cfg, msg>>

Next ==
  \/ WriterStep \/ ComposerStep
  \/ \E f \in Files, content \in Contents : Edit(f, content)

Spec == Init /\ [][Next]_vars

-----------------------------------------------------------------------------
(***************************************************************************)
(* Properties.                                                             *)
(***************************************************************************)
\* A command changes none of the files it was not told to change, however many
\* commands were killed before: config init without --force leaves alone every
\* file that was there when it began, with --force every file it does not
\* seed, template add and signature add every other file (defaults.go:22,
\* 72-73).
LeavesOthersAlone ==
  [][WriterStep => \A f \in spared : disk'[f] = disk[f]]_vars

\* When config init reports success the configuration and every default asset
\* are there and whole, except for those that were torn when it began without
\* --force, and those the user changed in the meantime.
InitComplete == pc = "ok" => \A f \in due : disk[f] \in {"shipped", "mine"}

\* A message carries the signature that is named for it: without fail when a
\* flag or the account names it, and when the global default does, unless the
\* file was missing at some time of the command (helpers.go:66-68).
SignedAsNamed ==
  pc = "ready" /\ SignatureName # NoName
    => \/ msg.signature = SignatureName
       \/ /\ opts.signature = NoName /\ cfg.accSignature = NoName
          /\ missing
=============================================================================
