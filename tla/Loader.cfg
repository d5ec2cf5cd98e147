CONSTANTS
  SIZE_PHFS_HANDLERS = 2
  SIZE_PHFS_ALIASES = 3
  Names <- MCNames
  Long <- MCLong
  DevSize = 6
  Word = 16
  SIZE_MSG_BUFF = 2
  Commands <- MCCommands
  Scripts <- MCScripts
  Ehdr <- MCEhdr
  Phdr <- MCPhdr
  MaxProgs = 1
  Preinit <- MCPreinit
  Storage <- MCFlash
  HostFiles <- MCHost
  MaxLines = 3
SPECIFICATION Spec
INVARIANTS LoadsFile CopiesAll NothingHalfDone AliasDenotes
PROPERTIES CommandEnds
