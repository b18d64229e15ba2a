\* Requests of up to three sectors, with PRDT entries of two.
SPECIFICATION FairSpec
CONSTANTS
  Lba <- MCLba
  Buffer <- MCBuffer
  Memory <- MCMemory
  Physical <- MCPhysical
  Counts = {1, 2, 3}
  EntrySize = 2
  EntryStep = 1
  CmdSlots = 2
  SpinLimit = 2
  MaxCalls = 3
INVARIANTS TransferExact NothingElseTouched
PROPERTIES CommandsKept CallsReturn
