# A TLA+ model of mailotron

mailotron is a command-line mail client. It renders and sends mail, works on an
IMAP mailbox, keeps a **backup** of the mailbox in a directory, **restores** such a
directory into a mailbox, and keeps a searchable **index** of the mailbox in a
SQLite database, with the vectors a model computes of its messages. It is not a
daemon: every command is a process of its own that does its work and exits. What
makes it hard is therefore not threads but

- the mailbox, which other clients change between any two commands of ours,
  including the deletion and re-creation of the folder we are reading;
- processes that are killed, or end with an error, in the middle, and are started
  again over what they left (half-written files, half-filled folders, half-done
  moves, some committed transactions);
- answers that are lost although the server did what it was asked to do;
- several processes of mailotron on the same database or the same files.

These modules model that part, state what it promises, check it with TLC and prove
it with TLAPS.

Contents: [Inventory](#inventory) ·
[Modules](#modules-and-how-they-correspond-to-the-code) ·
[Runs](#what-the-runs-check) · [Findings](#what-the-code-does-not-do) ·
[Proofs](#what-is-proved) · [Limits](#what-is-not-modelled-and-why) · [Plan](#plan)

## Inventory

| component | state it keeps | operations | hard | correct if | modelled in |
|---|---|---|---|---|---|
| **IMAP server and other clients** (external) | folders, UIDVALIDITY, UIDs, messages, flags | deliver, expunge, flag, delete and re-create a folder | changes at any moment | (assumed) a UID is never reused within a UIDVALIDITY | ImapServer, MessageOps, Listing |
| **IMAP client, bulk commands** `imapclient/backup.go` | the session's selected folder | `SelectInfo`, `FetchMeta`, `FetchRaw`, `FetchPrefix`, `MessageIDIndex`, `EnsureFolder`, `AppendMessage` | every command selects the folder again; a FETCH omits what is gone; chunks | chunks cover exactly what was asked for | ImapClient, Restore |
| **Backup** `backup/backup.go`, `layout.go` | `manifest.json`; per folder `index.json` and `<uid>.eml` | `Run`: per folder select, reset, fetch, write, prune; prune folders; manifest | crash points, torn files, UIDVALIDITY changes, additive, mirror and scoped runs over one directory | a finished folder is covered, a mirror is exact, nothing restorable is lost | Backup, MailCopy |
| **Restore** `backup/restore.go` | the target folders | `RestoreRun`: per folder read index, ensure, read Message-IDs, append what is missing | cut-off runs, unanswered APPEND, folders that change meanwhile | no message twice, none left out; a dry run says what a real one does | Restore |
| **Index sync** `index/sync.go`, `index.go` | tables `folders`, `messages`, the full-text table | `Open`; `Sync`: per folder state, reset, delete, flags, bodies; prune folders | one transaction at a time, kills between them, a second process | a finished sync is the mailbox; later runs resume; no work is thrown away | IndexSync, MailCopy, TwoSyncs, IndexOpen |
| **Embeddings** `index/embed.go` | table `embeddings` | `EmbedPending`: read a batch, ask the model server, store vectors | the batch is read before a slow call and used after it; row ids come back | a vector belongs to the text beside it; every sync ends | Embedding |
| **Index search** `index/search.go`, `parse.go` | none | full-text and vector ranking, fusion, filters, loading of hits | a sync between two of its SELECTs; limits, ties | the best hits survive the limit; no hit the filters exclude | Search |
| **IMAP client, message operations** `imapclient/messages.go`, `search.go`, `thread.go`, `client.go` | none | list, show, search, move, copy, flag, delete, download, folder commands, reply drafts | MOVE emulated by COPY, STORE, EXPUNGE; a UID read earlier; lost answers | no message lost; one copy after a move; no other message touched | MessageOps, Listing |
| **Configuration** `config/*` | `config.yml` | find the file, parse, validate, resolve the account | a file that is being written; empty blocks | what loads can be used; the named or the default account, or an error | Sending, Store |
| **Template store** `store/*` | template and signature files | init, seed, add, rm, read | killed inside a write and repeated; concurrent commands and editors | a user's file is never overwritten unasked; init is complete | Store |
| **Rendering** `render/*` | none | MJML to HTML, HTML to text, quoting, variables | nesting depth of hidden parts in one pass | the text part carries what the HTML shows | PlainText |
| **Transports** `transport/*`, `email/*` | none | `Send` and `Verify` over SMTP, Resend, mock | a lost answer, no retry, a user who runs it again | everybody addressed gets what was reported as sent | Sending |
| **Command line** `cli/*`, `cmd/*`, `agentguide/*` | none | parse flags, call the above, print | two calls with the mailbox changing in between | – | the modules it calls |
| **End-to-end tests** `test/e2e/*` | – | drive the binary against GreenMail | – | – | – |

PROJECT.json lists the same components with their files and status, and every hazard
found while reading, with its line and the property that is about it.

## Modules and how they correspond to the code

```
MailCopy              what backup and index promise               (abstract)
ImapServer            the mailbox and the other clients           (external)
  ImapClient          SELECT, SelectInfo, chunked FETCH           imapclient/backup.go
    Backup            the backup command, implements MailCopy     backup/backup.go, layout.go
      MCBackup
    IndexSync         index sync, implements MailCopy             index/sync.go, index.go
      MCIndexSync
      TwoSyncs        two syncs on one database (IndexSync twice)
        MCTwoSyncs
Restore               the restore command                         backup/restore.go, imapclient/backup.go
  MCRestore
MessageOps            the commands on one message or folder       imapclient/messages.go, thread.go, client.go
  MCMessages
IndexOpen             the creation of the schema                  index/index.go
  Embedding           EmbedPending beside syncs                   index/embed.go
    MCEmbedding
Store                 configuration, templates, signatures        store/*, config/paths.go, load.go, cli/helpers.go
  MCStore
Ordering              what a sort does, for Search and Listing    (external)
Search  Listing  PlainText  Sending                               index/search.go; imapclient/search.go;
  Commands            all four, one command at a time             render/html2text.go; config/*, transport/*
    MCCommands
ImapProofs, BackupProofs, IndexProofs, RestoreProofs,             theorems, each about the module
MessageProofs, EmbeddingProofs, StoreProofs, CommandsProofs       of its name (IndexProofs: TwoSyncs too)
```

An indented module extends the one above it. A definition that begins with the
comment *Seeded fault* is a mistake one could make in the code; it is used by no
specification and exists to show that a property notices it.

### MailCopy

The abstract specification of a copy of the mailbox, in six variables: the mailbox
(`epoch`, `uidnext`, `msgs`), `held[f]`, the messages of `f`'s present incarnation in the
copy, and two parameters of the promise, `mirror` (the copy gives up what the mailbox has
lost) and `waived` (folders nothing is promised for). There are two steps: `MailboxChanges`,
which leaves the copy alone unless a re-creation makes what it holds worthless, and
`Work`, which leaves the mailbox alone, takes up only messages that were delivered, and
loses only what it may.

Backup implements it with `held` the restorable messages (a readable `index.json` of the
present UIDVALIDITY, an entry and a file), `mirror` the mode of the run and `waived` the
folders whose `index.json` is torn; IndexSync with `held` the rows under the present
UIDVALIDITY, `mirror` always true and `waived` the excluded folders. That a directory of
files and a database with its transactions keep the same promise, each at every step and
at every point where a process can be killed, is what `BackupIsCopy` and `IndexIsCopy` say.

### ImapServer, ImapClient

A folder has an *epoch*, the UIDVALIDITY, which a re-creation raises; within an
epoch a UID is given out once. So `<<folder, epoch, uid>>` identifies a message for
good, and wherever folder and UID are known (a path `folders/<dir>/<uid>.eml`, a row
key) the epoch alone says *which message's* content lies there. This is the central
abstraction: a body, a metadata record and a row are represented by an epoch. The
flags are represented by `\Seen`, the rest are treated alike by the code.

`SelectInfo` is one atomic snapshot: it enumerates by sequence number, and a server
may not tell a session of expunges during such a FETCH. `FetchMeta`, `FetchRaw` and
`FetchPrefix` select again and then go through their UIDs in chunks, each chunk an
action. `sess` is the epoch their SELECT found; if the folder is deleted or replaced
between two chunks, the session is broken and the next chunk fails (`CanFetch`).

### Backup

One value of `pc` per stretch of `backup.Run` between two points where the mailbox
may change or a crash leaves something behind:

| action | code |
|---|---|
| `Start`, `List` | `backupRun` in the command line; `ListFolders`, the `--folder` filter, the error when none of them matches |
| `SelectFolder` | `backupFolder`: `SelectInfo`, `MkdirAll`, `readFolderIndex` (its error is dropped), the decision to reset |
| `ClearFolder` | `removeMessageFiles` |
| `FetchMeta`, `ScanMissing` | the metadata, and the `os.Stat` of every listed UID |
| `FetchRaw`, `WriteBody`, `ChunkWritten` | the bodies: a chunk in memory, then one `os.WriteFile` each |
| `PruneMessages`, `WriteIndex` | mirror pruning; the merged or replaced `index.json` |
| `PruneFolder`, `FoldersPruned` | `pruneFolders` of a full mirror |
| `WriteManifest` | the manifest of this run's folders |
| `Fail` | an IMAP command that the state of the server makes fail |
| `Stop`, `StopRemoving`, `StopInBody`, `StopInIndex`, `StopInManifest`, `StopPruning` | the process dies, or another error ends it: between two steps, in a loop over files (any subset is gone), in `os.WriteFile` (a torn file) |

`ListFolders` returns the folders in some order; `queue` is a set, so every order is
explored. `dirs`, `eml`, `index`, `manifest` are the directory; `calm` is an auxiliary
variable: the folders nobody else has changed since the run selected them.

### Restore

The actions follow `RestoreRun` and, inside it, `EnsureFolder` (`EnsureFolder`,
`CreateFolder`: a LIST and a CREATE with other clients in between), `MessageIDIndex`
(`MessageIDIndex`; `MessageIDIndexBlind` when its SELECT fails although the folder
exists) and the loop over the entries (`Skip`, `CountOnly`, `AppendEntry`,
`FolderDone`). `AppendUnanswered` stores the message and loses the answer. The
target folder is a number of copies per Message-ID, 2 standing for several. The backup
directory is a constant of the run, any of `Archives`: torn manifest, torn index,
missing file, repeated and missing Message-IDs. That these directories are possible
is what `Backup` shows (a torn index: `StopInIndex`; an entry whose file is missing: a
message expunged between `FetchMeta` and `FetchRaw`).

### IndexSync, TwoSyncs

One action per transaction (`ResetFolder`, `DeleteVanished`, `SetFlags`, `Put`,
`PruneFolders`), per query whose result is used after it (`ReadLabel`, `ReadUids`,
`ReadNames`), and per IMAP command or chunk. A killed process loses what it has not
committed and keeps what it has. `doc[f][u]` is the epoch of the message whose text the
row holds, `label[f]` the recorded UIDVALIDITY.

`TwoSyncs` is `IndexSync` plus a second instance of it over the same server and database
with run variables of its own; `alone` records whether the first run has overlapped the
second since it started. The two use one folder and no exclusion.

### MessageOps

Every command of `message`, `draft` and `folder` is a session of its own: it connects,
selects, sends one to three IMAP commands and exits. What connects two commands is the
user, who read a folder, a UID and a UIDVALIDITY in one (`look`) and names the first two
in the next; no command compares the third. One action per IMAP command:

| action | code |
|---|---|
| `Look` | `message list`, `show`, `download --attachments-only`: prints what is there now |
| `MoveMessage`; `MoveByCopy`, `MoveByStore`, `ExpungeFolder` | `MoveMessage` with the MOVE extension; without it COPY, STORE, EXPUNGE |
| `DeleteMessage`, `DeleteHard` | a move to the trash folder; STORE and EXPUNGE |
| `CopyMessage`, `FlagMessage`, `AppendMessage` | one command each; `draft` ends in an APPEND |
| `Thread`, `FetchAttachments`, then `ShowMessage` | a reply draft and a download fetch the same UID twice, with a SELECT each |
| `FolderCreate`, `FolderDelete`, `FolderRename` | the folder commands |
| `Stop`; `Quit` within an action | the process is killed or refused; the server has done it, but its answer is lost |
| `Other` | other clients deliver, mark and unmark `\Deleted`, expunge, delete and create folders |

The mailbox is a function from folder and UID to a content with `\Deleted` and `\Flagged`. `owed` is
an auxiliary variable: the messages delivered that nobody has disposed of (marked, or
deleted with the folder). `calm` and `had` remember for a move what was there when it began.

### IndexOpen, Embedding

`Open` creates the schema by one `Exec` of several statements without a transaction, and sets
`user_version` last; `Create` is one of them, `SetVersion` the last. `EmbedPending` is three
actions: `Begin` (vectors of another model are deleted), `ReadBatch`, and, after the call to the
model, `StoreBatch`. `SyncWrite` stands for the writes of index syncs in other processes,
with SQLite's row ids, which are one more than the largest in use and so come back, and
with the triggers that delete vectors. `hit` is auxiliary: ids that were written to while a
batch with them was at the model.

### Store

The files of `~/.mailotron` are absent, torn, shipped or the user's own. `os.WriteFile` is two
steps (`Truncate`, `Complete`; `AddTruncate`, `AddComplete`) with a kill possible in between.
A command that composes loads the configuration (`Load`; a torn file may parse and lack
its end), reads the template, looks whether the signature is there (`HasSignature`) and
reads it (`ReadSignature`), while others edit, remove or are writing any file (`Edit`).

### Search, Listing, PlainText, Sending, Commands

Four commands without shared state, each with variables of its own; `Commands` runs one
of them, as a process does. `Search` takes one action per SELECT (`FtsRanked`, `VecRanked`, one
`LoadHit` per hit) beside the writes of a sync; scores are small numbers. Reciprocal rank
fusion adds and compares the fractions 1/(60+rank) exactly, where the code has floats; that
two different sums round to one float is not modelled. `Listing` takes one
per SELECT, SEARCH and FETCH of each folder, beside arrivals and expunges, and merges at once
where there is no folder to list. `Ordering` says what their sorts do: an order is the
set of its pairs, and `Arranged` puts a set in a row by it. `PlainText` puts
`HTMLToText`'s two counters and its stack of links beside the real nesting of a document
that is read tag by tag. `Sending` follows `send` and `account test` from the settings a user
may have written (Parse, Validate, Resolve, ForAccount) to a request whose answer may
be lost, and lets the user run commands again.

## What the runs check

Every run uses the same module the proofs are about and gives only constants. Where
not said otherwise below, the number of runs, commands, crashes and changes by others
is *not* bounded; the constants bound what there is to work on.

| run | instance | holds |
|---|---|---|
| `backup_one` | one folder, 2 UIDs, 2 epochs, changing flags, chunk 1, additive and mirror; 1.6 million states | `TypeOK`, `LabelTrusted`, `CoversWhenCalm`, `MirrorIsExact` |
| `backup_two` | two folders, one UID, 1 epoch, additive and mirror, full and scoped to `a`, fairness; 830,000 | `ManifestReadable`, `BackupIsCopy`, `RunEnds` |
| `restore` | two folders, two Message-IDs, ten directories, full and scoped, real and dry, fairness; 370,000 | `TypeOK`, `NoDuplicates`, `Complete`, `DryRunHonest`, `RestoreEnds` |
| `index` | one folder, 2 UIDs, 2 epochs, changing flags, chunk 1, sometimes excluded, fairness; 52,000 | `TypeOK`, `LabelTrusted`, `NoOrphans`, `InLine`, `OnlyWanted`, `IndexIsCopy`, `SyncEnds` |
| `two_syncs` | one folder, one UID, 2 epochs, changing flags, no exclusion; 550,000 | `HealedAlone` |
| `messages` | INBOX and a trash, 2 UIDs and 2 epochs each, one message and drafts, servers with and without MOVE, others use the trash; 1.0 million | `TypeOK`, `NothingLost`, `MovedOnce`, `OneSource`, `ActsOnMeant` |
| `embedding` | two processes, two keys, texts and models, two row ids, batch 1, a schema of two statements, 3 writes of syncs, fairness; 290,000 | `TypeOK`, `SchemaWhole`, `VectorsFit`, `FullyEmbedded`, `EmbedEnds` |
| `store` | one template, two signatures, both config files and `--config`; 580,000 | `TypeOK`, `LeavesOthersAlone`, `InitComplete`, `SignedAsNamed` |
| `commands` | search: 3 mails, pool and limit 2, 2 writes of a sync; listing: two folders of 3 UIDs, two dates; text: depth 5; sending: two accounts with every setting, two commands; 1.3 million | `TypeOK`, `RightHits`, `NewestShown`, `Tracks`, `LoadedIsUsable`, `SentAsReported` |
| `backup_additive`, `restore_idempotent`, `messages_bystander` | small instances | the property named there is violated, see below |

Deadlock is checked wherever the system can go on for ever: a run can always be
started again from rest. It is not checked in `messages` and `messages_bystander`, where UIDs
and UIDVALIDITYs run out, and in `commands`, where each command comes to an end and a
document is bounded in depth.

**Why the bounds are enough.**

- *Backup, index.* A folder's treatment depends on the others only through the manifest,
  the pruning of folders and the scope; two folders exercise them. Within a folder the
  code compares a UID with a set, so one UID can be new, known, vanished or torn; two
  UIDs show that what happens to one leaves the other alone, and give two chunks of
  size 1. Two epochs give "same" and "other" UIDVALIDITY, and since a label is only ever
  compared for equality with the present one, a third adds no case. Two syncs meet over one
  folder and one UID; with two UIDs and 2 epochs, flags fixed, TLC finds no error either
  (11 million states, four minutes, too long to be one of the runs).
- *Messages.* Two folders are what a command works on; with two UIDs a folder holds the
  original and a copy, or a message and a draft; the trash can be deleted and created
  again once. The user flags messages in the trash only (`Flagging`): flags travel with the
  message, and their values are told apart by no other command.
- *Embedding.* With two row ids one is freed and given to another message; two keys and
  two texts tell a stale vector from an orphan; three writes suffice to change, delete
  and re-use within one batch.
- *Store.* Names are only compared, so one template and two signatures give "the one the
  account names" and "the one that is the default".
- *Search, listing.* Three mails for two places give a cut; two writes delete a row and
  give its id away. Three UIDs with limit 2 give a cut per folder, two folders one of the
  merged result. A score no side of a search asks for is left 0.

The theorems below remove the bounds where there are any.

**Fairness.** `FairSpec` of Backup, IndexSync and Restore is weak fairness of `RunStep`, all
steps of the running process together: a process that is neither killed nor blocked goes
on (IMAP commands and SQLite transactions end: with a result, or with an error, which is
`Fail` or `Stop`). In Embedding it is weak fairness of each process: the client gives up on
the model after five minutes (`embed.go:44`), and SQLite on a lock after its timeout.
Nothing is assumed of the user, of crashes or of the other clients. `RunEnds`, `SyncEnds` and
`RestoreEnds` then say that a started run ends whatever others do: every loop goes
through a set that was read once. `EmbedEnds` is different, its loop reads the database
again after each batch; it holds because syncs write finitely often while it runs (`MaxWrites`),
and only as long as no two processes embed with different models at a time
(`OneModel`), since those delete each other's vectors for ever.

### The properties

- `BackupIsCopy`, `IndexIsCopy`: the refinement of MailCopy, above. No single step, in
  particular none before a crash, takes away what later runs need, except where the
  documentation says so (a new UIDVALIDITY, an excluded folder, a mirror run) or the
  index is torn; and what is there was delivered.
- `LabelTrusted` (Backup, IndexSync): if the recorded UIDVALIDITY is the folder's
  present one, no file, entry or row is of an earlier incarnation. Both commands reuse
  everything under a matching label without looking at it, so one stale file here
  would be a wrong message for good. It must survive crashes between clearing and
  labelling and a re-creation of the folder between SELECT and FETCH.
- `CoversWhenCalm`, `InLine`: a folder that was processed to its end while nobody changed
  it is backed up (indexed) completely, *from whatever state earlier, interrupted runs
  left*, and stays so under all later runs, pruning of other folders and crashes.
  `CoversWhenCalm` accepts a torn body.
- `MirrorIsExact`: of a folder nobody changed, a mirror run leaves the files, entries and read
  marks of the server's messages and no other, and every message can be restored from
  them, *but for the bodies an earlier crash cut short* (`TornBodies`).
- `ManifestReadable`, `OnlyWanted`, `NoOrphans`: what one part of the directory or
  database says of another.
- `NoDuplicates`, `Complete`: across any sequence of real, dry and scoped restores cut off
  anywhere, also between an APPEND and its answer, no message with a Message-ID is
  there twice and none is missing at the end. They leave out folders a run took for
  empty because SELECT failed (`blind`), messages other clients put there (`Foreign`), and
  for `Complete` folders changed meanwhile. Of a message whose file is torn (`Damaged`)
  `Complete` asks for itself or for a message without Message-ID.
- `DryRunHonest`: a dry run never announces fewer messages than a real run would append to
  the folder as it is then (`Due`), and just as many where no Message-ID is named twice
  and no file a real run needs is missing. At a missing one a real run stops, having
  appended less than was announced (`restore.go:86-89`).
- `HealedAlone`: whatever two overlapping syncs leave, the next sync that overlaps no other
  repairs in the folders that nobody changes meanwhile: it records the present
  UIDVALIDITY and has a row for each message and no other, with its flags. That the
  rows hold these messages' texts it promises only where the folder was never created
  anew (see `Put` [below](#what-the-code-does-not-do)).
- `NothingLost`: a message nobody disposed of is somewhere, unmarked, wherever moves and
  trashings were cut off and however often they were repeated. `MovedOnce`: a move that is
  reported, undisturbed, left the source and made one copy.
- `ActsOnMeant`, `OneSource`: under the UIDVALIDITY the user saw, a command changes no other
  message than the one the user read (but for those its EXPUNGE finds marked), and the
  two fetches of a reply or a download see one message.
- `SchemaWhole`, `VectorsFit`, `FullyEmbedded`: what the version says of the schema, a vector
  of the text beside it, and what an undisturbed run leaves behind.
- `LeavesOthersAlone`, `InitComplete`, `SignedAsNamed`: what commands do to files they were
  not told to change, what a reported `config init` means, and that a message bears the
  signature named for it although the check and the read of the file are two steps.
- `RightHits`, `NewestShown`: the best hits, and the newest messages, survive every cut, and
  what others write meanwhile brings no mail in that the filters exclude.
- `Tracks`: `HTMLToText`'s counters agree with the real nesting. `LoadedIsUsable`: settings that
  pass Validate meet no empty block later. `SentAsReported`: between what was reported,
  what arrived and how often a message was to be sent.

Each property has a mutation of the model in PROJECT.json, a plausible mistake in the
code, under which TLC finds it violated.

## What the code does not do

Three runs check one sentence of the documentation or of a comment each, which TLC
refutes. The quotes are in PROJECT.json.

- `backup_additive`: a torn `index.json` counts as a first run, so the next *additive* run
  deletes every file of the folder, also of messages that are gone from the server.
- `restore_idempotent`: a SELECT that fails for any reason counts as a missing folder, and
  every message is appended a second time.
- `messages_bystander`: `delete --hard`, and a move without MOVE, end in a plain EXPUNGE, which
  also removes the messages others have marked `\Deleted` in that folder.

Seen while modelling; the properties above say where they stop short of it:

*Backup and restore*
- A body torn by a crash in `os.WriteFile` satisfies `os.Stat` later (`backup.go:144`) and is
  not downloaded again while the UIDVALIDITY stays. So a mirror is not always what
  `README.md:143` calls it, "an exact point-in-time copy"; the properties except
  such bodies by name (`TornBodies`, `Damaged`).
- Restore appends a torn body as it is. If it was cut before the end of its Message-ID, no
  later run finds that Message-ID in the mailbox, so each appends the fragment again; and
  a second entry with this Message-ID is skipped in the run that appended it.
- A run with `--folder` writes a manifest of its own folders only; the others' files are
  untouched but restore no longer sees them.
- A message expunged between `SelectInfo` and `FetchMeta` gives a mirror or first run's
  index a zero entry (`zero`), one expunged between `FetchMeta` and `FetchRaw` an entry
  without a file. Restore stops at either. The next mirror run removes them; an additive
  one keeps them.
- A folder created by somebody else between `EnsureFolder`'s LIST and CREATE makes the
  restore fail, though a comment says an existing folder is no error.
- A dry run counts two entries with one Message-ID twice, a real run restores one. A dry run
  also counts entries without a file, at which a real run fails.
- Messages without Message-ID are appended again by every restore; the agent guide
  says so.

*Index, embeddings, search*
- `Put` does not check the UIDVALIDITY its caller read. A slow sync puts messages of the
  old incarnation after a second one has reset the folder, and no later sync fetches
  those UIDs again. Rows of a folder that nobody lists any more may stay behind after
  two overlapping syncs, invisible to `PruneFolders`.
- A process killed while it creates the schema leaves a file that no later command can
  open: its first statement finds the table there, and the version says there is none.
- A message that a sync replaces or deletes while a batch with it is at the model gets
  the vector of its old text, or leaves it to whichever message takes its row id next.
- A hit whose row id was given away between the ranking and its loading is another
  mail, which the filters may exclude.
- In hybrid mode each side offers at most `hybridPool` candidates, so a larger `--limit`
  shows fewer hits than there are.

*Messages, listing*
- The UID of a command is never checked against the UIDVALIDITY the user saw. Without
  MOVE, a COPY of a UID that is not there succeeds, and the STORE and EXPUNGE after it
  may hit a message that arrived under this UID in between.
- An interrupted move without MOVE, repeated, leaves a second copy in the target.
- A per-folder limit goes by UID: where the order of UIDs is not that of the dates (after
  a move, or a restore) the newest messages overall may be left out.

*Configuration, store, text, sending*
- `config init` killed between the configuration and the assets refuses to run again
  without `--force`, and a seeded file torn by the crash is kept by a run without it.
- A configuration that is being written may load as a shorter one that is valid.
- A default signature removed between `Has` and `ReadSignature` is an error although a
  missing one is optional; `template add` empties the file first, and a reader may see it so.
- An account with an empty block is a nil pointer, which `Validate` dereferences
  (`config.go:168-169`).
- A hidden element in which end tags are left out, as HTML allows, hides the rest of the
  text; an end tag too many in it (`</br>`, or `</p>` after `<p/>`) ends the hiding too soon.
- A lost answer of SMTP or Resend is reported as an error although the message was
  sent; sending again sends it twice.

## What is proved

Every theorem is about the specification with arbitrary constants: any set of folders,
messages, keys, any number of UIDs, epochs and processes, any chunk or batch size, any
directories, any configuration, any limits and scores. They rest on the named assumptions
`ServerAssumption`, `ChunkAssumption`, `BackupAssumption`, `IndexAssumption`,
`RestoreAssumption`, `MailboxAssumption`, `OpenAssumption`, `EmbeddingAssumption`,
`StoreAssumption`, `SearchAssumption`, `ListingAssumption`, `DepthAssumption` and
`SendingAssumption`, which only say what kind of value each constant is, and on nothing
else. Every invariant that a passing run checks, and every action property and refinement,
is stated by one of these theorems.

| module | theorem | says |
|---|---|---|
| BackupProofs | `TypeCorrect`, `LabelsAreTrusted` | `[]TypeOK`, `[]LabelTrusted` |
| | `BackupKeepsACopy` | `BackupIsCopy`: Backup implements MailCopy |
| | `CalmIsCovered`, `MirrorsAreExact`, `ManifestIsReadable` | `[]CoversWhenCalm`, `[]MirrorIsExact`, `[]ManifestReadable` |
| IndexProofs | `TypeCorrect`, `LabelsAreTrusted`, `NothingIsOrphaned` | `[]TypeOK`, `[]LabelTrusted`, `[]NoOrphans` |
| | `SyncKeepsACopy` | `IndexIsCopy`: IndexSync implements MailCopy |
| | `SyncedIsInLine`, `UnwantedAreDropped` | `[]InLine`, `[]OnlyWanted` |
| | `HealsAlone` | `[]HealedAlone`, of two syncs |
| RestoreProofs | `TypeCorrect`, `NoSecondCopy`, `RestoredIsComplete` | `[]TypeOK`, `[]NoDuplicates`, `[]Complete` |
| | `DryRunsAreHonest` | `[]DryRunHonest` |
| MessageProofs | `TypeCorrect`, `OneMessageIsQuoted` | `[]TypeOK`, `[]OneSource` |
| | `CommandsActOnMeant` | `ActsOnMeant`, an action property |
| | `NoMessageIsLost`, `MovesAreDoneOnce` | `[]NothingLost`, `[]MovedOnce` |
| EmbeddingProofs | `TypeCorrect`, `SchemaIsWhole`, `VectorsAreRight`, `RunsEmbedAll` | `[]TypeOK`, `[]SchemaWhole`, `[]VectorsFit`, `[]FullyEmbedded` |
| StoreProofs | `StoreTypes` | `[]TypeOK` |
| | `OthersLeftAlone` | `LeavesOthersAlone`, an action property |
| | `InitIsComplete`, `IsSignedAsNamed` | `[]InitComplete`, `[]SignedAsNamed` |
| CommandsProofs | `CommandTypes` | `[]TypeOK` |
| | `BestAreShown`, `NewestAreShown` | `[]RightHits`, `[]NewestShown` |
| | `TextFollowsHtml` | `[]Tracks` |
| | `LoadedCanBeUsed`, `ReportIsTrue` | `[]LoadedIsUsable`, `[]SentAsReported` |

`ImapProofs` has the lemmas about the server and the chunks that backup and index use: an
action of another client on `f` leaves the other folders alone and never lowers an
epoch, `NextChunk` is a subset of what is to be fetched.

The arguments:

- **Backup.** `LabelTrusted` is not inductive: between the SELECT of a folder and its new
  `index.json` the files may already be of the new incarnation while the label is of the
  old one, and the run holds UIDs, metadata and bodies in memory. The inductive
  invariant `LabelInv` orders the epochs: label <= every content and entry beside it
  <= the folder's present epoch, label <= selected UIDVALIDITY <= metadata and bodies in
  memory <= present epoch, and once the folder is past its clearing nothing in it is
  older than the selected UIDVALIDITY. When label and present epoch are equal, all
  between them is. `CoversWhenCalm` and `MirrorIsExact` need in addition that, as long as
  the folder is calm, the UIDs listed are the mailbox, metadata is known for all of them
  but those still to ask for, and files exist for all but those in `todo` and `buf`. That a
  mirror's files and entries are the mailbox's is `FilesExact`; with `CoversWhenCalm`,
  by which each of them is of the present epoch or torn, it gives `MirrorIsExact`.
- **The refinement.** An empty directory is a copy of any mailbox. A step of the run is a
  `Work`: it leaves the mailbox alone, what it stores it has fetched, and UIDs fetched
  are below `uidnext`; and what it removes under the folder's present label is, by
  `LabelInv` and `KeepInv`, not on the server, and then removed in mirror mode only. A step of another
  client is a `MailboxChanges`: within an epoch it leaves the directory's meaning alone;
  with a new one nothing in the directory is of the present incarnation, because no
  epoch in it is larger than the folder's before.
- **IndexSync** has the same layers. `NoOrphans` joins the first: rows are only put into
  folders whose label a `ResetFolder` or an earlier run has recorded. For `InLine` the
  second says which of the listed UIDs are known, described, still to fetch or in `buf`.
- **Two syncs.** The second process may change the database between any two steps of the
  first, and then only the types are left. `AloneInv` says what the first knows while
  it is alone: the invariants of what it has read and fetched, that the label it read
  is still there, and that each folder it has behind it and that is calm is `Held`. `SecondInv` and
  `StoredUnder` bound what the second leaves: no row and no label is of a UIDVALIDITY
  the folder has not reached. In a folder that was never created anew that leaves one
  epoch, hence `Exact`.
- **Restore.** `NoDuplicates` is strengthened by: whatever the target of the current
  folder holds of the messages nobody else adds, the run *knows* (`existing`), so it
  appends only what has no copy. `Complete` by: every entry before `pos`, every entry
  of the folders already done, and every Message-ID in `existing` is `There` as long as
  the folder is calm. `DryRunHonest`
  by `CountInv`: a dry run's number for a folder is that of the entries before `pos` that
  are missing, and 0 where it has not been. What a real run appends is among these, and is
  all of them where the Message-IDs are distinct and the files are there (`MissingIsDue`).
- **MessageOps.** Every step moves the mailbox `Forward`: no epoch falls, within an epoch no
  `uidnext` falls, and a UID that was given out holds its message or none. So what was
  `Seen` under a folder, UID and epoch remains true of it, for `look` and for each element of
  `reads`; `OneSource` and `ActsOnMeant` follow. For `NothingLost`, `StoreInv` says that a move
  about to STORE under the user's UIDVALIDITY has a safe copy of the message elsewhere
  or finds none at its source; every other step leaves a safe copy of each owed message
  where it was, or makes one. For `MovedOnce`, `MoveInv` names the place of the copy: from the
  MOVE or COPY on, exactly one UID of the target has arrived with the message, the
  original is marked before the EXPUNGE, and gone when the move is reported.
- **Embedding.** `SchemaInv`: the statements a process has behind it are all created
  (`next[p] <= created + 1`), so that whoever sets the version has found or made the whole
  schema. `BatchInv`: a batch holds the present texts of its
  ids, but for those in `hit`. `NextIdIsNew` (the largest row id plus one is free) needs
  that a non-empty set of ids has a largest element, by well-founded induction in the
  library.
- **Store.** `LeavesOthersAlone` needs to know during `config init` that the files it has no
  business with are neither the one being written nor, with `--force`, on its list; without,
  that they exist, so that it keeps them (`SpareInv`). `InitComplete`: whatever init owes is
  whole, or being written by init, or still on its list (`DueInv`). `SignedAsNamed`: a
  command that composes and whose signature is not there has missed it since it began
  (`MissingInv`).
- **Search.** `TopOf(s, S, n, R)` says that `s` is a best row of at most `n` of `S` by the order
  `R`; the ranking of each side is one (`CutIsTop`, `RankInv`). The heart is `HybridIsBest`:
  fusing the two cut lists loses no row that beats one that is shown on both sides, and shows as
  many as the limit allows if that is no larger than the pool. A row that beats another on both sides has a larger fused sum, because
  `More` is a weak order of fractions that `Plus` respects; and whoever beats a row a side
  ranked is ranked there. `AnswerInv` carries this through the loading as long as nobody
  writes. When others write, `WantInv` still says that every id ranked names
  a mail the filters let through, unless its row was freed.
- **Listing.** `LeftInv`: for a message of a folder listed that was not found, the list
  contains a stretch of `limit` larger UIDs of the same folder. `NewestShown` follows by counting:
  sorting is a bijection onto places (`SortedPlaces`), the stretch comes later where dates follow UIDs,
  and `limit` elements do not fit into fewer than `limit` places at the end (`TooFewPlaces`). `FetchInv`
  says the same of the UIDs about to be fetched, `QueueInv` that no folder is listed twice.
- **HTMLToText.** `DepthInv`: the first `Depth` open elements are those outside of what is hidden,
  none of them hides, the `skip` innermost of them, and no others, are skipped ones, and the
  next one, if any, is the one that hides. `LinksInv`: the stack of links is the links among them, in order.
  Both hold until an end tag is left out or counted too many within what is hidden or skipped.
- **Sending.** `LoadedInv`: behind Load the settings passed Validate, and the account is one
  of them. `ReportInv`: whoever a command addresses that has not sent yet was counted once more in
  `tried` than, so far, in `got`.

Only model-checked:

- the liveness properties `RunEnds`, `SyncEnds`, `RestoreEnds` and `EmbedEnds`: liveness under
  fairness, and the ENABLED in it, are beyond the prover;
- the three refuted sentences, of course.

Recursion over data does not occur in the models: sets are put in order by `Arranged`, and
sequences are taken up element by element by the actions. No proof needs an
induction over data of its own; those about cardinalities, and the largest row id, use
theorems of the library.

## What is not modelled, and why

- Contents: message text, header syntax, MIME encoding, file names (`encodeFolder` maps
  distinct folders to distinct directories and is represented by the folder itself;
  the names of attachments, of which a later may overwrite an earlier one), JSON and SQL
  text, `ParseDoc`, `safeMatch`, snippets.
- Rendering but for `HTMLToText`: MJML, variables and quoting are functions from text to text.
- The interpolation of the environment and the password commands of the configuration.
- What bm25 and a vector are: scores are any small numbers.
- The network: an answer that never comes is a stop. The loss of an answer is modelled
  where a command changes something at the other side: APPEND, the message and folder
  commands, sending.
- Two backups, or two restores, at the same time on one directory or mailbox.
- `synchronous(NORMAL)`: a power failure may take back the last transactions. `Stop` is
  the death of the process, which takes back none.
- A `--prefix` that differs from one restore to the next.
- The commands that only print (`status`, `path`, `list`, `guide`), flags, exit codes, output; the
  end-to-end tests, which drive the binary against a GreenMail server.

## Plan

Done: all modules above with their runs; the refinement of MailCopy by Backup and IndexSync;
proofs of every safety property.

1. *BackupRestore*: `Backup`'s directory as `Restore`'s archive (INSTANCE Restore WITH
   `archive` derived from `dirs`, `eml`, `index`, `manifest`), so that a round trip can be stated: what
   was restorable is in the mailbox after a finished restore.
2. Theorems: the round trip of 1; that a second process bounded by `SecondInv` keeps
   `IndexIsCopy` up to the folders both were working on.
3. Concurrent backups and restores as second instances, like TwoSyncs; a lossy stop for
   the database.
4. Pure modules with a reference definition: `encodeFolder`, `ReplyHeaders`, the file names
   of attachments, interpolation.

## Running it

```
tlasany Backup.tla
tlc -workers 2 -config MCBackupOne.cfg MCBackup.tla
tlapm BackupProofs.tla
```

A passing run takes from some seconds to three minutes on two cores, a proof module up
to two minutes, CommandsProofs up to five.
