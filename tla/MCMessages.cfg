\* INBOX and a trash, one message that moves between them, every command; others
\* use the trash.  UIDs and UIDVALIDITYs run out, so that the system may stop.
SPECIFICATION Spec
CONSTANTS
  inbox = inbox
  trash = trash
  m1 = m1
  Folders <- TwoFolders
  Inbox = inbox
  Trash = trash
  Drafts = inbox
  Dests <- TwoFolders
  Others <- OnlyTrash
  Flagging <- OnlyTrash
  Messages <- OneMail
  Draft = Draft
  None = None
  MaxUid = 2
  MaxEpoch = 2
INVARIANTS
  TypeOK
  NothingLost
  MovedOnce
  OneSource
PROPERTIES
  ActsOnMeant
CHECK_DEADLOCK FALSE
