\* An attachment and a group; two requests at once, three formats, one fault.
CONSTANTS
  Attachments = {a1}
  Owners = {g1}
  Groups = {g1}
  Exts = {"png", "jpeg", "webp"}
  Slots = {1, 2}
  MaxFaults = 1
  Unused = Unused
  Removed = Removed
  NoFile = NoFile
SPECIFICATION Spec
INVARIANTS NamedFileExists RemovedOnce NoFileLeftBehind
PROPERTIES AnsweredIsGone
