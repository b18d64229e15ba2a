----------------------------- MODULE AhciProofs -----------------------------
(***************************************************************************)
(* For any disk, memory and number of slots: the tables of commands in     *)
(* flight are kept; a request that fits one PRDT entry and has a           *)
(* contiguous buffer has been done exactly when it is reported as done;    *)
(* and no request touches more than its own sectors.                       *)
(***************************************************************************)
EXTENDS Ahci, ListLemmas

USE SMTT(20), ZenonT(20)  \* the provers of a leaf that names none

ValidRequest == {r \in Request : Valid(r)}
Contents == [disk |-> disk, memory |-> memory]

\* The sectors read and write ask the controller for.
Moved(r) == LeftOver(r.count)

\* The memory after the first n sectors of a read, and the disk after those of
\* a write, from contents c.
Filled(c, r, n) ==
  [m \in Memory |-> IF m - Physical[r.buf] \in 0 .. n - 1
                    THEN c.disk[r.lba + (m - Physical[r.buf])] ELSE c.memory[m]]
Stored(c, r, n) ==
  [l \in Lba |-> IF l - r.lba \in 0 .. n - 1
                 THEN c.memory[Physical[r.buf] + (l - r.lba)] ELSE c.disk[l]]

\* The contents after the first n sectors of a request.
After(c, r, n) ==
  [disk |-> IF r.op = "write" THEN Stored(c, r, n) ELSE c.disk,
   memory |-> IF r.op = "read" THEN Filled(c, r, n) ELSE c.memory]

-----------------------------------------------------------------------------
(* The arithmetic of a request.                                            *)

\* A number smaller than the divisor is its own remainder.
LEMMA SmallQuotient ==
  ASSUME NEW k \in Nat, NEW n \in Nat \ {0}, k < n
  PROVE  k \div n = 0 /\ k % n = k
  OBVIOUS

\* The largest multiple of the divisor in a number.
LEMMA Division ==
  ASSUME NEW k \in Nat, NEW n \in Nat, n > 0
  PROVE  k \div n \in Nat /\ n * (k \div n) \in Nat /\ n * (k \div n) <= k /\ k < n * (k \div n) + n
<1>1. k \div n \in Int /\ k \div n >= 0 OBVIOUS
<1>2. n * (k \div n) <= k OBVIOUS
<1>3. k < n * (k \div n) + n OBVIOUS
<1>4. n * (k \div n) \in Nat BY <1>1
<1> QED BY <1>1, <1>2, <1>3, <1>4

\* What a request the disk and the buffer hold looks like: what is left over of its
\* count is at least a sector, and at most a full entry.
LEMMA RequestFacts ==
  ASSUME NEW r \in ValidRequest
  PROVE  /\ r.count \in Nat \ {0} /\ Moved(r) \in Nat \ {0}
         /\ Moved(r) <= r.count /\ Moved(r) <= EntrySize
         /\ r.count <= EntrySize => Moved(r) = r.count
         /\ Entries(r.count) \in Nat \ {0}
         /\ r.lba \in Nat /\ r.buf \in Buffer /\ Physical[r.buf] \in Nat
         /\ r.op \in {"read", "write"}
<1>1. r \in Request /\ Valid(r) BY DEF ValidRequest
<1>2. /\ r.count \in Nat \ {0} /\ r.lba \in Nat /\ r.buf \in Buffer /\ r.buf \in Nat
      /\ Physical[r.buf] \in Nat /\ r.op \in {"read", "write"}
  BY <1>1, AhciAssumption, Zenon DEF Request
<1> DEFINE n == r.count - 1  d == n \div EntrySize  p == EntrySize * d
<1>3. n \in Nat /\ EntrySize \in Nat /\ EntrySize > 0 BY <1>2, AhciAssumption
<1>4. d \in Nat /\ p \in Nat /\ p <= n /\ n < p + EntrySize
  <2> HIDE DEF n
  <2> QED BY <1>3, Division
<1>5. Entries(r.count) = d + 1 BY DEF Entries
<1>6. Entries(r.count) - 1 = d BY <1>4, <1>5
<1>7. Moved(r) = r.count - p BY <1>6 DEF Moved, LeftOver
<1>8. r.count <= EntrySize => d = 0 /\ p = 0
  <2>1. SUFFICES ASSUME r.count <= EntrySize PROVE d = 0 /\ p = 0 OBVIOUS
  <2>2. d = 0 BY <1>2, <1>3, <2>1, SmallQuotient
  <2> QED BY <1>3, <2>2
<1> HIDE DEF p, d
<1> QED BY <1>2, <1>3, <1>4, <1>5, <1>7, <1>8 DEF n

\* The command of a request has these sectors, all in its first entry.
LEMMA CommandFacts ==
  ASSUME NEW r \in ValidRequest
  PROVE  /\ SectorsOf(Command(r)) = Moved(r)
         /\ Command(r).op = r.op /\ Command(r).lba = r.lba
         /\ \A k \in 0 .. Moved(r) - 1 : Place(Command(r), k) = Physical[r.buf] + k
<1>1. /\ Moved(r) \in Nat \ {0} /\ Moved(r) <= EntrySize /\ r.op \in {"read", "write"}
      /\ Physical[r.buf] \in Nat /\ Entries(r.count) \in Nat \ {0}
  BY RequestFacts
<1>2. EntrySize \in Nat \ {0} /\ EntryStep \in Nat \ {0} BY AhciAssumption
<1>3. 1 \in 1 .. Entries(r.count) BY <1>1
<1>4. Prdt(r)[1].dba = Physical[r.buf] + (1 - 1) * EntryStep BY <1>3 DEF Prdt
<1>5. Prdt(r)[1].dba = Physical[r.buf] BY <1>1, <1>2, <1>4
<1>6. Command(r) = [op |-> r.op, lba |-> r.lba, count |-> Moved(r), prdt |-> Prdt(r)]
  BY <1>1 DEF Command, Moved
<1>7. ASSUME NEW k \in 0 .. Moved(r) - 1
      PROVE  Place(Command(r), k) = Physical[r.buf] + k
  <2>1. k \div EntrySize = 0 /\ k % EntrySize = k BY <1>1, <1>2, SmallQuotient
  <2>2. Command(r).prdt[1].dba = Physical[r.buf] BY <1>5, <1>6
  <2> QED BY <2>1, <2>2 DEF Place
<1> QED BY <1>1, <1>6, <1>7 DEF SectorsOf

-----------------------------------------------------------------------------
(* What a transfer does, and what was wanted, in the same terms.           *)

\* A request in flight does what After says.
LEMMA TransferIs ==
  ASSUME NEW r \in ValidRequest, NEW n \in 0 .. Moved(r),
         Transfer(Command(r), n)
  PROVE  disk' = After(Contents, r, n).disk /\ memory' = After(Contents, r, n).memory
<1> DEFINE c == Command(r)
<1>1. Moved(r) \in Nat /\ r.op \in {"read", "write"} /\ Physical[r.buf] \in Nat BY RequestFacts
<1>2. c.op = r.op /\ c.lba = r.lba BY CommandFacts
<1>3. \A k \in 0 .. n - 1 : Place(c, k) = Physical[r.buf] + k BY <1>1, CommandFacts
<1> HIDE DEF c
<1>4. CASE r.op = "read"
  <2>1. memory' = [m \in Memory |-> IF \E k \in 0 .. n - 1 : Place(c, k) = m
                     THEN disk[r.lba + CHOOSE k \in 0 .. n - 1 : Place(c, k) = m] ELSE memory[m]]
    BY <1>2, <1>4 DEF Transfer, c
  <2>2. ASSUME NEW m \in Memory
        PROVE  memory'[m] = Filled(Contents, r, n)[m]
    <3>1. m \in Nat BY AhciAssumption
    <3>2. \A k \in 0 .. n - 1 : Place(c, k) = m <=> k = m - Physical[r.buf] BY <1>1, <1>3, <3>1
    <3>3. CASE \E k \in 0 .. n - 1 : Place(c, k) = m
      <4> DEFINE j == CHOOSE k \in 0 .. n - 1 : Place(c, k) = m
      <4>1. j \in 0 .. n - 1 /\ Place(c, j) = m BY <3>3
      <4>2. j = m - Physical[r.buf] BY <3>2, <4>1
      <4>3. memory'[m] = disk[r.lba + j] BY <2>1, <3>3
      <4> QED BY <4>1, <4>2, <4>3, Zenon DEF Filled, Contents
    <3>4. CASE ~ \E k \in 0 .. n - 1 : Place(c, k) = m
      BY <2>1, <3>2, <3>4 DEF Filled, Contents
    <3> QED BY <3>3, <3>4
  <2>3. memory' = Filled(Contents, r, n) BY <2>1, <2>2 DEF Filled
  <2>4. disk' = disk BY <1>2, <1>4 DEF Transfer, c
  <2> QED BY <1>4, <2>3, <2>4 DEF After, Contents
<1>5. CASE r.op = "write"
  <2>1. disk' = [l \in Lba |-> IF l - r.lba \in 0 .. n - 1
                               THEN memory[Place(c, l - r.lba)] ELSE disk[l]]
    BY <1>2, <1>5 DEF Transfer, c
  <2>2. disk' = Stored(Contents, r, n) BY <1>3, <2>1 DEF Stored, Contents
  <2>3. memory' = memory BY <1>2, <1>5 DEF Transfer, c
  <2> QED BY <1>5, <2>2, <2>3 DEF After, Contents
<1> QED BY <1>1, <1>4, <1>5

\* What was wanted is what After says of the whole request, if its buffer is
\* contiguous.
LEMMA WantedIs ==
  ASSUME NEW r \in ValidRequest, Contiguous(r)
  PROVE  Wanted(r) = After(before, r, r.count)
<1>1. /\ r.count \in Nat /\ r.op \in {"read", "write"} /\ r.lba \in Nat
      /\ Physical[r.buf] \in Nat
      /\ \A k \in 0 .. r.count - 1 : Physical[r.buf + k] = Physical[r.buf] + k
  BY RequestFacts DEF Contiguous
<1>2. CASE r.op = "read"
  <2> DEFINE W == [m \in Memory |-> IF \E k \in 0 .. r.count - 1 : Physical[r.buf + k] = m
            THEN before.disk[r.lba + CHOOSE k \in 0 .. r.count - 1 : Physical[r.buf + k] = m]
            ELSE before.memory[m]]
  <2>1. ASSUME NEW m \in Memory
        PROVE  W[m] = Filled(before, r, r.count)[m]
    <3>1. m \in Nat BY AhciAssumption
    <3>2. \A k \in 0 .. r.count - 1 : Physical[r.buf + k] = m <=> k = m - Physical[r.buf]
      BY <1>1, <3>1
    <3>3. CASE \E k \in 0 .. r.count - 1 : Physical[r.buf + k] = m
      <4> DEFINE j == CHOOSE k \in 0 .. r.count - 1 : Physical[r.buf + k] = m
      <4>1. j \in 0 .. r.count - 1 /\ Physical[r.buf + j] = m BY <3>3
      <4>2. j = m - Physical[r.buf] BY <3>2, <4>1
      <4>3. W[m] = before.disk[r.lba + j] BY <3>3
      <4> QED BY <4>1, <4>2, <4>3, Zenon DEF Filled
    <3>4. CASE ~ \E k \in 0 .. r.count - 1 : Physical[r.buf + k] = m
      BY <3>2, <3>4 DEF Filled
    <3> QED BY <3>3, <3>4
  <2>2. W = Filled(before, r, r.count) BY <2>1 DEF Filled
  <2> QED BY <1>2, <2>2 DEF Wanted, After
<1>3. CASE r.op = "write"
  <2>1. [l \in Lba |-> IF l - r.lba \in 0 .. r.count - 1
          THEN before.memory[Physical[r.buf + (l - r.lba)]] ELSE before.disk[l]]
        = Stored(before, r, r.count)
    BY <1>1 DEF Stored
  <2> QED BY <1>3, <2>1 DEF Wanted, After
<1> QED BY <1>1, <1>2, <1>3

\* A transfer that stops early has done part of the whole one, and nothing outside it.
LEMMA PartOfAll ==
  ASSUME NEW r \in ValidRequest, NEW n \in 0 .. r.count, NEW c
  PROVE  /\ \A l \in Lba :
              /\ After(c, r, n).disk[l] \in {c.disk[l], After(c, r, r.count).disk[l]}
              /\ l - r.lba \notin 0 .. r.count - 1 => After(c, r, n).disk[l] = c.disk[l]
         /\ \A m \in Memory :
              /\ After(c, r, n).memory[m] \in {c.memory[m], After(c, r, r.count).memory[m]}
              /\ m - Physical[r.buf] \notin 0 .. r.count - 1
                   => After(c, r, n).memory[m] = c.memory[m]
<1>1. r.count \in Nat BY RequestFacts
<1>2. \A i : i \in 0 .. n - 1 => i \in 0 .. r.count - 1 BY <1>1
<1>3. \A l \in Lba : /\ Stored(c, r, n)[l] \in {c.disk[l], Stored(c, r, r.count)[l]}
                     /\ l - r.lba \notin 0 .. r.count - 1 => Stored(c, r, n)[l] = c.disk[l]
  BY <1>2 DEF Stored
<1>4. \A m \in Memory : /\ Filled(c, r, n)[m] \in {c.memory[m], Filled(c, r, r.count)[m]}
                        /\ m - Physical[r.buf] \notin 0 .. r.count - 1
                             => Filled(c, r, n)[m] = c.memory[m]
  BY <1>2 DEF Filled
<1> QED BY <1>3, <1>4 DEF After

-----------------------------------------------------------------------------
(* The inductive invariant.                                                *)

\* What a step needs to know of the variables.
Types ==
  /\ pc \in {"idle", "start", "wait", "poll", "error", "status", "return"}
  /\ slot \in Slot \cup {NoSlot} /\ active \in Slot \cup {NoSlot} /\ ci \in SUBSET Slot
  /\ call \in ValidRequest \cup {Identify, NoCommand}
  /\ command = [s \in Slot |-> command[s]]
  /\ tfes \in BOOLEAN

\* The driver waits for its own command, and as long as nothing has failed no
\* other one is in CI.  After a failure the controller does not run any.
Flight ==
  /\ pc \in {"idle", "start"} => call = NoCommand
  /\ pc \in {"wait", "poll", "error", "status"} =>
       slot \in Slot /\ call # NoCommand /\ command[slot] = Command(call)
  /\ ~ tfes => ci \subseteq (IF pc \in {"poll", "error"} THEN {slot} ELSE {})
  /\ tfes /\ pc \in {"poll", "error"} => slot \in ci
  /\ pc = "status" => ~ tfes
  /\ active # NoSlot => active = slot /\ slot \in ci /\ ~ tfes /\ pc \in {"poll", "error"}

Goal == After(before, call, Moved(call))

\* All of the request's sectors moved, into or out of contiguous memory.
Whole == After(before, call, call.count)

\* Some of them moved, and nothing else.
Mixed ==
  /\ \A l \in Lba :
       /\ disk[l] \in {before.disk[l], Whole.disk[l]}
       /\ l - call.lba \notin 0 .. call.count - 1 => disk[l] = before.disk[l]
  /\ \A m \in Memory :
       /\ memory[m] \in {before.memory[m], Whole.memory[m]}
       /\ m - Physical[call.buf] \notin 0 .. call.count - 1 => memory[m] = before.memory[m]

\* Where the contents are, between those before the request and its goal.
Data ==
  /\ call \notin ValidRequest => Contents = before
  /\ call \in ValidRequest =>
       /\ Mixed
       /\ pc = "wait" => Contents = before
       /\ pc \in {"poll", "error"} /\ slot \in ci => tfes \/ Contents = before
       /\ pc \in {"poll", "error"} /\ slot \notin ci => Contents = Goal
       /\ pc = "status" => Contents = Goal
       /\ pc = "return" /\ result => Contents = Goal

IInv == Types /\ Flight /\ Data

\* The commands that are not requests are told apart from them.
LEMMA Kinds ==
  /\ Identify \notin ValidRequest /\ NoCommand \notin ValidRequest /\ Identify # NoCommand
  /\ Command(Identify) = Identify /\ SectorsOf(Identify) = 0
<1>1. \A r \in ValidRequest : r.op \in {"read", "write"} BY DEF ValidRequest, Request
<1>2. Identify.op = "identify" /\ NoCommand.op = "none" BY DEF Identify, NoCommand
<1> QED BY <1>1, <1>2 DEF Command, SectorsOf

\* findCMDslot returns a slot that is not in CI.
LEMMA SlotFound ==
  /\ FindSlot \in Slot \cup {NoSlot}
  /\ FindSlot # NoSlot => FindSlot \in Slot /\ FindSlot \notin ci
<1>1. Slot \subseteq Nat /\ NoSlot \notin Slot BY SlotsAssumption DEF Slot, NoSlot
<1>2. CASE Free = {} BY <1>2 DEF FindSlot
<1>3. CASE Free # {}
  <2>1. PICK s \in Free : \A t \in Free : s <= t
    <3>1. Free \in SUBSET Nat BY <1>1, Zenon DEF Free
    <3> QED BY <1>3, <3>1, Least
  <2>2. FindSlot \in Free BY <1>3, <2>1 DEF FindSlot
  <2> QED BY <2>2 DEF Free
<1> QED BY <1>2, <1>3

-----------------------------------------------------------------------------
(* The steps.                                                              *)

\* The controller is brought up or starts with the disk as it is.
LEMMA InitEstablished == Init => IInv
<1> SUFFICES ASSUME Init PROVE IInv OBVIOUS
<1>1. Types BY Zenon DEF Init, Types
<1>2. Flight BY DEF Init, Flight
<1>3. Data BY Kinds DEF Init, Data, Contents
<1> QED BY <1>1, <1>2, <1>3 DEF IInv

\* A request, or identify, up to its wait: an error that is still reported
\* does no harm, since the slot found is none of those in CI.
LEMMA PrepareKeeps ==
  ASSUME IInv, pc \in {"idle", "start"},
         NEW r \in ValidRequest \cup {Identify}, Prepare(r),
         UNCHANGED <<ci, active, disk, memory>>
  PROVE  IInv'
<1>1. slot' \in Slot \cup {NoSlot} /\ pc' \in {"wait", "return"}
  BY SlotFound DEF Prepare
<1>2. Types'
  <2>1. command' = [s \in Slot |-> command'[s]]
    BY DEF Prepare, IInv, Types
  <2> QED BY <1>1, <2>1 DEF Prepare, IInv, Types
<1>3. Flight'
  <2>1. pc' = "wait" => slot' \in Slot /\ command'[slot'] = Command(r) /\ call' # NoCommand
    <3>1. pc' = "wait" => slot' \in Slot /\ command' = [command EXCEPT ![slot'] = Command(r)]
      BY <1>1 DEF Prepare
    <3>2. r # NoCommand BY Kinds
    <3> QED BY <3>1, <3>2 DEF Prepare, IInv, Types
  <2>2. active = NoSlot BY DEF IInv, Flight
  <2>3. call' = r /\ tfes' = tfes BY DEF Prepare
  <2> QED BY <1>1, <2>1, <2>2, <2>3 DEF IInv, Flight
<1>4. Data'
  <2>1. before' = Contents /\ Contents' = Contents BY DEF Prepare, Contents
  <2>2. Mixed' BY <2>1 DEF Mixed, Contents
  <2>3. pc' = "return" => ~ result' BY DEF Prepare
  <2> QED BY <1>1, <2>1, <2>2, <2>3 DEF Data
<1> QED BY <1>2, <1>3, <1>4 DEF IInv

\* The other steps of the driver.
LEMMA DriverKeeps ==
  ASSUME IInv, Driver
  PROVE  IInv'
<1> USE DEF deviceVars
<1>1. CASE Rebase
  BY <1>1 DEF Rebase, IInv, Types, Flight, Data, Mixed, Whole, Goal, Contents
<1>2. CASE StartCMD
  BY <1>2, PrepareKeeps DEF StartCMD
<1>3. CASE Spin
  BY <1>3 DEF Spin, IInv, Types, Flight, Data, Mixed, Whole, Goal, Contents
<1>4. CASE GiveUp
  BY <1>4 DEF GiveUp, IInv, Types, Flight, Data, Mixed, Whole, Goal, Contents
<1>5. CASE Issue
  BY <1>5 DEF Issue, IInv, Types, Flight, Data, Mixed, Whole, Goal, Contents
<1>6. CASE PollCI
  BY <1>6 DEF PollCI, IInv, Types, Flight, Data, Mixed, Whole, Goal, Contents
<1>7. CASE PollError
  BY <1>7 DEF PollError, IInv, Types, Flight, Data, Mixed, Whole, Goal, Contents
<1>8. CASE Complete
  BY <1>8 DEF Complete, IInv, Types, Flight, Data, Mixed, Whole, Goal, Contents
<1>9. CASE Return
  BY <1>9, Kinds DEF Return, IInv, Types, Flight, Data, Mixed, Whole, Goal, Contents
<1> QED BY <1>1, <1>2, <1>3, <1>4, <1>5, <1>6, <1>7, <1>8, <1>9 DEF Driver

\* The controller: only the command the driver waits for can be running, and
\* it moves the contents towards the goal.
LEMMA DeviceKeeps ==
  ASSUME IInv, Device
  PROVE  IInv'
<1> USE DEF driverVars
<1>1. CASE Engine
  BY <1>1 DEF Engine, IInv, Types, Flight, Data, Mixed, Whole, Goal, Contents
<1>2. CASE Ready
  BY <1>2 DEF Ready, IInv, Types, Flight, Data, Mixed, Whole, Goal, Contents
<1>3. CASE \E s \in Slot : Begin(s)
  <2>1. PICK s \in Slot : Begin(s) BY <1>3
  <2>2. pc \in {"poll", "error"} /\ s = slot BY <2>1 DEF Begin, IInv, Flight
  <2> QED BY <2>1, <2>2 DEF Begin, IInv, Types, Flight, Data, Mixed, Whole, Goal, Contents
<1>4. CASE Finish \/ Fail
  <2>1. /\ active = slot /\ slot \in Slot /\ slot \in ci /\ ~ tfes /\ pc \in {"poll", "error"}
        /\ call # NoCommand /\ command[slot] = Command(call)
    BY <1>4 DEF Finish, Fail, IInv, Types, Flight
  <2>2. UNCHANGED <<pc, call, slot, command, before, result>> /\ active' = NoSlot
    BY <1>4 DEF Finish, Fail
  <2>3. NoSlot \notin Slot BY DEF NoSlot, Slot
  <2>4. PICK n \in 0 .. SectorsOf(Command(call)) :
          /\ Transfer(Command(call), n)
          /\ Finish => n = SectorsOf(Command(call))
    <3>1. SectorsOf(Command(call)) \in Nat
      <4>1. CASE call \in ValidRequest BY <4>1, CommandFacts, RequestFacts
      <4>2. CASE call = Identify BY <4>2, Kinds
      <4> QED BY <4>1, <4>2, <2>1 DEF IInv, Types
    <3>2. CASE Finish BY <3>1, <3>2, <2>1 DEF Finish
    <3>3. CASE ~ Finish BY <3>3, <1>4, <2>1 DEF Fail
    <3> QED BY <3>2, <3>3
  <2>5. \/ Finish /\ ci' = ci \ {slot} /\ tfes' = tfes
        \/ ~ Finish /\ ci' = ci /\ tfes' = TRUE
    BY <1>4, <2>1 DEF Finish, Fail
  <2>6. Types' BY <2>2, <2>5, Zenon DEF IInv, Types
  <2>7. Flight' BY <2>1, <2>2, <2>5 DEF IInv, Flight
  <2>8. Data'
    <3>1. CASE call = Identify
      <4>1. disk' = disk /\ memory' = memory
        BY <2>4, <3>1, Kinds DEF Transfer, Identify
      <4> QED BY <2>2, <3>1, <4>1, Kinds DEF IInv, Data, Contents
    <3>2. CASE call \in ValidRequest
      <4>1. /\ SectorsOf(Command(call)) = Moved(call) /\ Moved(call) \in Nat
            /\ call.count \in Nat /\ n \in 0 .. call.count
        <5>1. SectorsOf(Command(call)) = Moved(call) BY <3>2, CommandFacts
        <5>2. Moved(call) \in Nat /\ call.count \in Nat /\ Moved(call) <= call.count
          BY <3>2, RequestFacts
        <5> QED BY <2>4, <5>1, <5>2
      <4>2. Contents = before BY <2>1, <3>2 DEF IInv, Data
      <4>3. disk' = After(before, call, n).disk /\ memory' = After(before, call, n).memory
        BY <2>4, <3>2, <4>1, <4>2, TransferIs
      <4>4. Mixed'
        BY <2>2, <3>2, <4>1, <4>3, PartOfAll DEF Mixed, Whole
      <4>5. Finish => Contents' = Goal'
        <5>1. Finish => n = Moved(call) BY <2>4, <4>1
        <5> QED BY <2>2, <4>3, <5>1 DEF Contents, Goal, After
      <4> QED BY <2>1, <2>2, <2>5, <3>2, <4>4, <4>5 DEF Data
    <3> QED BY <2>1, <3>1, <3>2 DEF IInv, Types
  <2> QED BY <2>6, <2>7, <2>8 DEF IInv
<1> QED BY <1>1, <1>2, <1>3, <1>4 DEF Device

\* Every step keeps the invariant.
LEMMA StepKeeps ==
  ASSUME IInv, [Next]_vars
  PROVE  IInv'
<1>1. CASE Driver BY <1>1, DriverKeeps
<1>2. CASE \E r \in Request : Valid(r) /\ Start(r)
  <2>1. PICK r \in ValidRequest : Start(r) BY <1>2 DEF ValidRequest
  <2> QED BY <2>1, PrepareKeeps DEF Start, deviceVars
<1>3. CASE Device BY <1>3, DeviceKeeps
<1>4. CASE UNCHANGED vars
  BY <1>4 DEF vars, driverVars, deviceVars, IInv, Types, Flight, Data, Mixed, Whole, Goal, Contents
<1> QED BY <1>1, <1>2, <1>3, <1>4 DEF Next, Done

\* The invariant gives what disk_read and disk_write promise.
LEMMA InvariantGives ==
  ASSUME IInv
  PROVE  TransferExact /\ NothingElseTouched
<1>1. call \in Request => call \in ValidRequest
  <2>1. \A r \in Request : r.op \in {"read", "write"} BY DEF Request
  <2>2. Identify.op = "identify" /\ NoCommand.op = "none" BY DEF Identify, NoCommand
  <2> QED BY <2>1, <2>2 DEF IInv, Types
<1>2. call \in ValidRequest /\ Contiguous(call) => Wanted(call) = Whole BY WantedIs DEF Whole
<1>3. TransferExact
  <2>1. call \in ValidRequest /\ call.count <= EntrySize => Goal = Whole
    BY RequestFacts DEF Goal, Whole
  <2> QED BY <1>1, <1>2, <2>1 DEF TransferExact, Transferring, IInv, Data, Contents
<1>4. NothingElseTouched
  <2>1. CASE Transferring
    BY <1>1, <1>2, <2>1 DEF NothingElseTouched, Transferring, IInv, Data, Mixed
  <2>2. CASE ~ Transferring
    <3>1. call \notin ValidRequest
      BY <2>2, Kinds DEF Transferring, IInv, Types, Flight, ValidRequest
    <3> QED BY <2>2, <3>1 DEF NothingElseTouched, IInv, Data, Contents
  <2> QED BY <2>1, <2>2
<1> QED BY <1>3, <1>4

-----------------------------------------------------------------------------
(* The theorems.                                                           *)

\* disk_read and disk_write return RES_OK for a request that fits one PRDT entry and
\* has a contiguous buffer only when all of its sectors, and no others, have been
\* transferred: for every disk and memory, and whatever requests came before.
THEOREM TransferAlwaysExact == Spec => []TransferExact
<1>1. Init => IInv BY InitEstablished
<1>2. IInv /\ [Next]_vars => IInv' BY StepKeeps
<1>3. IInv => TransferExact BY InvariantGives
<1> QED BY <1>1, <1>2, <1>3, PTL DEF Spec

\* Whatever becomes of a request, however long it is and wherever its buffer lies, it
\* changes no sector of the disk but its own, and no memory but that many sectors
\* from the first byte of the buffer on.
THEOREM NothingElseEverTouched == Spec => []NothingElseTouched
<1>1. Init => IInv BY InitEstablished
<1>2. IInv /\ [Next]_vars => IInv' BY StepKeeps
<1>3. IInv => NothingElseTouched BY InvariantGives
<1> QED BY <1>1, <1>2, <1>3, PTL DEF Spec

\* What keeps the tables of the commands in CI: also with requests of several
\* entries, and after any failure.
TablesApart ==
  /\ command = [s \in Slot |-> command[s]]
  /\ ci \in SUBSET Slot
  /\ pc = "wait" => slot \in Slot

\* Only Prepare writes a table, that of a slot that is not in CI.
LEMMA TablesStep ==
  ASSUME TablesApart, [Next]_vars
  PROVE  TablesApart' /\ \A s \in ci : command'[s] = command[s]
<1> USE DEF TablesApart, driverVars, deviceVars
<1>1. ASSUME NEW r, Prepare(r), ci' = ci
      PROVE  TablesApart' /\ \A s \in ci : command'[s] = command[s]
  <2>1. CASE slot' = NoSlot BY <1>1, <2>1 DEF Prepare
  <2>2. CASE slot' # NoSlot
    <3>1. slot' \in Slot /\ slot' \notin ci BY <1>1, <2>2, SlotFound DEF Prepare
    <3>2. command' = [command EXCEPT ![slot'] = Command(r)] BY <1>1, <2>2 DEF Prepare
    <3> QED BY <1>1, <3>1, <3>2
  <2> QED BY <2>1, <2>2
<1>2. CASE Driver
  <2>1. CASE StartCMD BY <1>1, <2>1 DEF StartCMD
  <2>2. CASE ~ StartCMD
    BY <1>2, <2>2, Zenon DEF Driver, Rebase, Spin, GiveUp, Issue, PollCI, PollError, Complete, Return
  <2> QED BY <2>1, <2>2
<1>3. CASE \E r \in Request : Valid(r) /\ Start(r)
  BY <1>1, <1>3 DEF Start
<1>4. CASE Device
  BY <1>4 DEF Device, Engine, Ready, Begin, Finish, Fail
<1>5. CASE UNCHANGED vars BY <1>5 DEF vars
<1> QED BY <1>2, <1>3, <1>4, <1>5 DEF Next, Done

\* The table of a command the controller may still run is never written.
THEOREM CommandsAlwaysKept == Spec => CommandsKept
<1>1. Init => TablesApart BY DEF Init, TablesApart
<1>2. TablesApart /\ [Next]_vars
        => TablesApart' /\ [\A s \in ci : command'[s] = command[s]]_vars
  BY TablesStep
<1> QED BY <1>1, <1>2, PTL DEF Spec, CommandsKept

=============================================================================
