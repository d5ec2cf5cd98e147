CONSTANTS
  SIZE_PHFS_HANDLERS = 2
  SIZE_PHFS_ALIASES = 3
  Names <- MCNames
  Long <- MCLong
  DevSize = 6
  Word = 16
  SIZE_MSG_BUFF = 2
  Commands <- MCCopies
  Scripts <- MCScripts
  Ehdr <- MCEhdr
  Phdr <- MCPhdr
  MaxProgs = 1
  Preinit <- MCPreinit
  Storage <- MCFlash
  HostFiles <- MCHost
  MaxLines = 1
SPECIFICATION Spec
INVARIANT CopiesExactly
