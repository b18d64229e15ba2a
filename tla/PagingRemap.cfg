\* Kernel pages are unmapped whatever shares their tables, and mapped again.
SPECIFICATION SpecUnmap
CONSTANTS
  Blocks = 96
  Mapped <- MCMapped
  Usable <- MCUsable
  ByteSize = 2
  PageSize = 16
  PagetableSize = 2
  FirstKernel = 1
  BootRegion <- MCBootRegion
  BootFrame = 1
  KernelRegions <- MCKernelRegions
  UserRegions <- MCUserRegions
  Programs <- MCPrograms
  ThreadRegions <- MCThreadRegions
  Devices <- MCDevices
  LoopStart = {0}
  MaxSpaces = 3
INVARIANT TranslationExact
