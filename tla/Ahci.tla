-------------------------------- MODULE Ahci --------------------------------
(***************************************************************************)
(* A drive behind the AHCI driver (src/kernel/src/storage/ahci/ahci.cpp):  *)
(* bringing the port up, and the polled reads and writes FatFs asks for    *)
(* through disk_read and disk_write (fatfs/diskio.cpp).                    *)
(*                                                                         *)
(* The driver takes one step per access to a register the controller also  *)
(* writes, so that it interleaves with the controller.  The controller is  *)
(* external: it runs the commands in CI, in any order, completes or fails  *)
(* them, and after a failure stops until its engine is restarted.          *)
(* Memory and disk hold one value per sector, which lies within a page.    *)
(***************************************************************************)
EXTENDS Integers, Sequences, FiniteSets

CONSTANTS Lba,        \* the sectors of the disk
          Buffer,     \* the sectors of virtual memory a buffer may lie in
          Physical,   \* where a sector of virtual memory is, physically
          Memory,     \* the sectors of physical memory
          Counts,     \* the sectors of a request
          EntrySize,  \* the sectors of a full PRDT entry (16)
          EntryStep,  \* how far the buffer advances per entry (4 KiB: 8)
          CmdSlots,   \* cmdSlots, (cap >> 8) & 0xF0 of the controller's capabilities
          SpinLimit,  \* 1000000, the polls for a port that is free
          MaxCalls    \* bounds the requests

ASSUME AhciAssumption ==
  /\ Lba \subseteq Nat /\ Buffer \subseteq Nat /\ Memory \subseteq Nat
  /\ Physical \in [Buffer -> Memory]
  /\ Counts \subseteq Nat \ {0}
  /\ EntrySize \in Nat \ {0} /\ EntryStep \in Nat \ {0}
  /\ SpinLimit \in Nat \ {0} /\ MaxCalls \in Nat

\* The 256 bytes between two command tables have room for 8 PRDT entries: enough for
\* the largest cluster of a FAT volume, 128 sectors.
ASSUME TableAssumption == \A count \in Counts : count <= 8 * EntrySize

\* Every slot has a bit in CI and a table in virtualCTBs, which have 32.  The code
\* does not see to it: 0xF0 takes in capability bits above the number of slots, so
\* that cmdSlots may be up to 240 (it is 16 on the controller QEMU emulates).  The
\* further slots come into play when all 32 bits of CI are set; slot 32 has neither.
ASSUME SlotsAssumption == CmdSlots \in 0 .. 32

VARIABLES
  pc, call, slot, spin, result, calls,      \* the driver
  initialized, inWrite,                     \* k_ahci_port
  command,                                  \* the command tables, by slot
  st, cr, ci, tfes, busy, active,           \* the registers and the controller
  disk, memory,                             \* the contents
  before                                    \* the contents when the call began

driverVars == <<pc, call, slot, spin, result, calls, initialized, inWrite, command>>
deviceVars == <<cr, busy, active, disk, memory>>
vars == <<driverVars, st, ci, tfes, deviceVars, before>>

Slot == 0 .. CmdSlots - 1
NoSlot == -1

\* All sectors hold something else at first, so that no transfer goes unseen.
OnDisk(l) == <<"disk", l>>
InMemory(m) == <<"memory", m>>

Request == [op : {"read", "write"}, lba : Lba, count : Counts, buf : Buffer]
Identify == [op |-> "identify"]
NoCommand == [op |-> "none"]

-----------------------------------------------------------------------------
(* The command table a request is turned into.                             *)

\* The PRDT entries: ((count - 1) >> 4) + 1
Entries(count) == (count - 1) \div EntrySize + 1

\* "count" is decremented for every full entry, and what is left of it is the
\* size of the last entry and the count of the FIS.
LeftOver(count) == count - EntrySize * (Entries(count) - 1)

\* The entries begin at the physical address of the buffer's first byte.
Prdt(r) ==
  [i \in 1 .. Entries(r.count) |->
     [dba |-> Physical[r.buf] + (i - 1) * EntryStep,
      size |-> IF i < Entries(r.count) THEN EntrySize ELSE LeftOver(r.count)]]

\* A mutant: the count of a full transfer is one sector short.
MutantCommand(r) ==
  IF r.op = "identify" THEN r
  ELSE [op |-> r.op, lba |-> r.lba, count |-> LeftOver(r.count) - 1, prdt |-> Prdt(r)]

\* What read and write store in the header, the table and the FIS.
Command(r) ==
  IF r.op = "identify" THEN r
  ELSE [op |-> r.op, lba |-> r.lba, count |-> LeftOver(r.count), prdt |-> Prdt(r)]

-----------------------------------------------------------------------------
(* The driver.                                                             *)

Init ==
  /\ pc = "idle" /\ call = NoCommand /\ slot = NoSlot /\ spin = 0
  /\ result = FALSE /\ calls = 0
  /\ initialized = FALSE /\ inWrite = FALSE
  /\ command = [s \in Slot |-> NoCommand]
  /\ st \in BOOLEAN /\ cr \in BOOLEAN /\ ci = {} /\ tfes = FALSE
  /\ busy \in BOOLEAN /\ active = NoSlot
  /\ disk = [l \in Lba |-> OnDisk(l)] /\ memory = [m \in Memory |-> InMemory(m)]
  /\ before = [disk |-> disk, memory |-> memory]

\* A mutant: commands in flight are not looked at.
MutantFindSlot == IF Slot = {} THEN NoSlot ELSE 0

\* findCMDslot: the first slot that is not in CI.
Free == Slot \ ci
FindSlot == IF Free = {} THEN NoSlot ELSE CHOOSE s \in Free : \A t \in Free : s <= t

\* A mutant: the error bit is cleared as well, with the failed command in CI.
MutantPrepare(r) ==
  /\ call' = r
  /\ before' = [disk |-> disk, memory |-> memory]
  /\ slot' = FindSlot
  /\ inWrite' = (inWrite \/ r.op = "write")
  /\ IF slot' = NoSlot
     THEN /\ pc' = "return" /\ result' = FALSE
          /\ UNCHANGED command
     ELSE /\ pc' = "wait"
          /\ command' = [command EXCEPT ![slot'] = Command(r)]
          /\ UNCHANGED result
  /\ spin' = 0
  /\ tfes' = FALSE

\* A request up to the wait for the port: "is = 0xffff" reaches bits 0 to 15
\* of the status, which the error bit is not one of.
Prepare(r) ==
  /\ call' = r
  /\ before' = [disk |-> disk, memory |-> memory]
  /\ slot' = FindSlot
  /\ inWrite' = (inWrite \/ r.op = "write")
  /\ IF slot' = NoSlot
     THEN /\ pc' = "return" /\ result' = FALSE
          /\ UNCHANGED command
     ELSE /\ pc' = "wait"
          /\ command' = [command EXCEPT ![slot'] = Command(r)]
          /\ UNCHANGED result
  /\ spin' = 0
  /\ UNCHANGED tfes

\* k_ahci_driver::initialize: rebase stops the engine and sets up the command
\* list and tables (for which there is memory).
Rebase ==
  /\ pc = "idle" /\ ~ initialized
  /\ st' = FALSE
  /\ initialized' = TRUE
  /\ pc' = "start"
  /\ UNCHANGED <<call, slot, spin, result, calls, inWrite, command, ci, tfes,
                 deviceVars, before>>

\* startCMD, once CR is clear, then identify up to its wait.
StartCMD ==
  /\ pc = "start" /\ ~ cr
  /\ st' = TRUE
  /\ Prepare(Identify)
  /\ UNCHANGED <<calls, initialized, ci, deviceVars>>

\* disk_read and disk_write, through the driver, up to the wait.
Start(r) ==
  /\ pc = "idle" /\ initialized /\ calls < MaxCalls
  /\ calls' = calls + 1
  /\ Prepare(r)
  /\ UNCHANGED <<initialized, st, ci, deviceVars>>

\* One poll of the task file while the device is busy.
Spin ==
  /\ pc = "wait" /\ busy /\ spin < SpinLimit
  /\ spin' = spin + 1
  /\ UNCHANGED <<pc, call, slot, result, calls, initialized, inWrite, command,
                 st, ci, tfes, deviceVars, before>>

\* The port is hung.
GiveUp ==
  /\ pc = "wait" /\ spin = SpinLimit
  /\ pc' = "return" /\ result' = FALSE
  /\ UNCHANGED <<call, slot, spin, calls, initialized, inWrite, command,
                 st, ci, tfes, deviceVars, before>>

\* The command is issued.
Issue ==
  /\ pc = "wait" /\ ~ busy /\ spin < SpinLimit
  /\ ci' = ci \cup {slot}
  /\ pc' = "poll"
  /\ UNCHANGED <<call, slot, spin, result, calls, initialized, inWrite, command,
                 st, tfes, deviceVars, before>>

\* A read of CI.  identify does not look for errors.
PollCI ==
  /\ pc = "poll"
  /\ pc' = IF slot \notin ci THEN "status"
           ELSE IF call.op = "identify" THEN "poll" ELSE "error"
  /\ UNCHANGED <<call, slot, spin, result, calls, initialized, inWrite, command,
                 st, ci, tfes, deviceVars, before>>

\* A mutant: a task file error does not end the loop.
MutantPollError ==
  /\ pc = "error"
  /\ pc' = "poll"
  /\ UNCHANGED <<call, slot, spin, result, calls, initialized, inWrite, command,
                 st, ci, tfes, deviceVars, before>>

\* A read of the status while the command runs.
PollError ==
  /\ pc = "error"
  /\ pc' = IF tfes THEN "return" ELSE "poll"
  /\ result' = IF tfes THEN FALSE ELSE result
  /\ UNCHANGED <<call, slot, spin, calls, initialized, inWrite, command,
                 st, ci, tfes, deviceVars, before>>

\* The status after the command has left CI.
Complete ==
  /\ pc = "status"
  /\ pc' = "return"
  /\ result' = (call.op = "identify" \/ ~ tfes)
  /\ inWrite' = (inWrite /\ ~ (call.op = "write" /\ ~ tfes))
  /\ UNCHANGED <<call, slot, spin, calls, initialized, command,
                 st, ci, tfes, deviceVars, before>>

\* The caller has seen the result.
Return ==
  /\ pc = "return"
  /\ pc' = "idle"
  /\ call' = NoCommand /\ slot' = NoSlot /\ spin' = 0
  /\ before' = [disk |-> disk, memory |-> memory]
  /\ UNCHANGED <<result, calls, initialized, inWrite, command, st, ci, tfes, deviceVars>>

Driver ==
  \/ Rebase \/ StartCMD \/ Spin \/ GiveUp \/ Issue
  \/ PollCI \/ PollError \/ Complete \/ Return

-----------------------------------------------------------------------------
(* The controller and the drive (external).                                *)

\* The engine follows ST.
Engine ==
  /\ cr # st
  /\ cr' = st
  /\ UNCHANGED <<driverVars, st, ci, tfes, busy, active, disk, memory, before>>

\* The drive comes up, or has done what kept it busy.
Ready ==
  /\ busy /\ active = NoSlot
  /\ busy' = FALSE
  /\ UNCHANGED <<driverVars, st, ci, tfes, cr, active, disk, memory, before>>

\* A command is taken up.
Begin(s) ==
  /\ cr /\ st /\ ~ tfes /\ ~ busy /\ active = NoSlot
  /\ s \in ci
  /\ active' = s /\ busy' = TRUE
  /\ UNCHANGED <<driverVars, st, ci, tfes, cr, disk, memory, before>>

\* The k-th sector of a transfer, counted from 0, is found through the PRDT.
Place(c, k) == c.prdt[k \div EntrySize + 1].dba + (k % EntrySize)

\* The first n sectors of a command are transferred.
Transfer(c, n) ==
  /\ memory' = IF c.op # "read" THEN memory
               ELSE [m \in Memory |->
                       IF \E k \in 0 .. n - 1 : Place(c, k) = m
                       THEN disk[c.lba + CHOOSE k \in 0 .. n - 1 : Place(c, k) = m]
                       ELSE memory[m]]
  /\ disk' = IF c.op # "write" THEN disk
             ELSE [l \in Lba |-> IF l - c.lba \in 0 .. n - 1
                                 THEN memory[Place(c, l - c.lba)] ELSE disk[l]]

SectorsOf(c) == IF c.op = "identify" THEN 0 ELSE c.count

Finish ==
  /\ active # NoSlot
  /\ Transfer(command[active], SectorsOf(command[active]))
  /\ ci' = ci \ {active}
  /\ active' = NoSlot /\ busy' = FALSE
  /\ UNCHANGED <<driverVars, st, tfes, cr, before>>

\* A task file error after any number of sectors: the command stays in CI.
Fail ==
  /\ active # NoSlot
  /\ \E n \in 0 .. SectorsOf(command[active]) : Transfer(command[active], n)
  /\ tfes' = TRUE
  /\ active' = NoSlot /\ busy' = FALSE
  /\ UNCHANGED <<driverVars, st, ci, cr, before>>

Device == Engine \/ Ready \/ Finish \/ Fail \/ \E s \in Slot : Begin(s)

-----------------------------------------------------------------------------
(* A request FatFs may make: the disk and the buffer hold it.              *)
Valid(r) ==
  /\ r.lba .. r.lba + r.count - 1 \subseteq Lba
  /\ r.buf .. r.buf + r.count - 1 \subseteq Buffer

Done == pc = "idle" /\ calls = MaxCalls /\ UNCHANGED vars

Next == Driver \/ (\E r \in Request : Valid(r) /\ Start(r)) \/ Device \/ Done

Spec == Init /\ [][Next]_vars

\* The processor goes on executing the driver, and the controller answers:
\* a command it has is taken up and ends, one way or the other.
FairSpec == Spec /\ WF_vars(Driver) /\ WF_vars(Device)

-----------------------------------------------------------------------------
(* Properties.                                                             *)

\* What a request was for, sector by sector.
Wanted(r) ==
  IF r.op = "read"
  THEN [disk |-> before.disk,
        memory |-> [m \in Memory |->
          IF \E k \in 0 .. r.count - 1 : Physical[r.buf + k] = m
          THEN before.disk[r.lba + CHOOSE k \in 0 .. r.count - 1 : Physical[r.buf + k] = m]
          ELSE before.memory[m]]]
  ELSE [memory |-> before.memory,
        disk |-> [l \in Lba |->
          IF l - r.lba \in 0 .. r.count - 1
          THEN before.memory[Physical[r.buf + (l - r.lba)]] ELSE before.disk[l]]]

Transferring == pc \in {"wait", "poll", "error", "status", "return"} /\ call \in Request

\* The buffer lies in consecutive sectors of physical memory: the PRDT is built from
\* the address of its first byte only.
Contiguous(r) == \A k \in 0 .. r.count - 1 : Physical[r.buf + k] = Physical[r.buf] + k

\* disk_read and disk_write return RES_OK only when all of the sectors, and no
\* others, have been transferred: for every request that fits one PRDT entry and has
\* a contiguous buffer, whatever requests, fitting or not, came before it.  Of a
\* longer one read and write transfer what is left over for the last entry.
TransferExact ==
  Transferring /\ pc = "return" /\ result /\ call.count <= EntrySize /\ Contiguous(call)
    => [disk |-> disk, memory |-> memory] = Wanted(call)

\* Whatever becomes of a request, short or long, only its sectors of the disk change,
\* and only as much of the memory, from the first byte of the buffer on, as it has
\* sectors: no command of an earlier request that failed or was given up takes
\* effect later.  If the buffer is contiguous each of these sectors holds what it
\* held before or what the request puts there.
NothingElseTouched ==
  /\ Transferring =>
       /\ \A l \in Lba : l - call.lba \notin 0 .. call.count - 1 => disk[l] = before.disk[l]
       /\ \A m \in Memory : m - Physical[call.buf] \notin 0 .. call.count - 1
            => memory[m] = before.memory[m]
  /\ Transferring /\ Contiguous(call) =>
       /\ \A l \in Lba : disk[l] \in {before.disk[l], Wanted(call).disk[l]}
       /\ \A m \in Memory : memory[m] \in {before.memory[m], Wanted(call).memory[m]}
  /\ ~ Transferring => before = [disk |-> disk, memory |-> memory]

\* The table of a command the controller may still run is left alone, also by
\* the requests that follow one that failed.
CommandsKept == [][\A s \in ci : command'[s] = command[s]]_vars

\* Every read and every write returns.
CallsReturn == Transferring ~> pc = "idle"

=============================================================================
