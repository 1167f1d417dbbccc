---------------------------- MODULE FwCfgProofs ----------------------------
(***************************************************************************)
(* The driver of FwCfg never leaves a call the device still works for, and *)
(* finds etc/ramfb, for every directory, whatever its locals held before   *)
(* and however late the device is.                                         *)
(***************************************************************************)
EXTENDS FwCfg, TLAPS

(* What the constants say of the directory. *)
LEMMA DirectoryFits ==
  ASSUME TypeOK
  PROVE  /\ directory \in Seq(Entry) /\ Len(directory) \in Nat /\ Len(directory) < 256
         /\ \A i \in 1 .. Len(directory) :
              /\ directory[i] \in Entry
              /\ directory[i].select \in uint16 \ {0}
<1>1. directory \in Seq(Entry) /\ Len(directory) < 256
  BY DirectoryAssumption DEF TypeOK
<1>2. Len(directory) \in Nat /\ DOMAIN directory = 1 .. Len(directory)
  BY <1>1
<1>3. \A i \in DOMAIN directory : directory[i].select # 0
  BY DirectoryAssumption DEF TypeOK
<1>4. \A i \in 1 .. Len(directory) : directory[i] \in Entry
  BY <1>1
<1> QED
  BY <1>1, <1>2, <1>3, <1>4 DEF Entry

(* Two bytes swapped are two bytes, and none is lost. *)
LEMMA SwapInRange ==
  ASSUME NEW n \in uint16
  PROVE  bswap(n) \in uint16 /\ (n # 0 => bswap(n) # 0)
BY DEF bswap, uint16

(* Swapped twice, a length is what it was. *)
LEMMA SwapsBack ==
  ASSUME NEW n \in Nat, n < 256
  PROVE  bswap(n) \in uint16 /\ bswap(bswap(n)) = n
BY DEF bswap, uint16

(* The keys of requests, but for the file's. *)
LEMMA KeysInRange == 0 \in uint16 /\ QEMU_CFG_FILE_DIR \in uint16
BY DEF uint16, QEMU_CFG_FILE_DIR

-----------------------------------------------------------------------------
(* While the device has a record, the driver waits for just that record. *)
Attended ==
  request # Idle => /\ request.buffer \in {"count", "qfile", "cfg"}
                    /\ pc = request.buffer
                    /\ control \in {"READ", "SELECT READ", "SELECT WRITE"}

(* The device does not work for nobody. *)
Resting == request = Idle => ~moved

(* The entry being read is one of those counted. *)
EntryCounted == pc = "qfile" => e < bswap(count)

(* The device has yet to move the data of the transfer the driver is in. *)
Pending == request # Idle /\ ~moved

(* The first n entries have been looked at, and select is what came of it. *)
Searched(n) ==
  \/ select = 0 /\ \A i \in 1 .. n : directory[i].name # "etc/ramfb"
  \/ \E i \in 1 .. n : /\ directory[i].name = "etc/ramfb"
                       /\ select = bswap(directory[i].select)

(* What each transfer has asked for, and has brought. *)
CountTransfer ==
  pc = "count" =>
    IF Pending
    THEN request = [control |-> "SELECT READ", key |-> QEMU_CFG_FILE_DIR, buffer |-> "count"]
    ELSE item = QEMU_CFG_FILE_DIR /\ offset = 1 /\ count = bswap(Len(directory))

EntryTransfer ==
  pc = "qfile" =>
    /\ count = bswap(Len(directory)) /\ e < Len(directory)
    /\ item = QEMU_CFG_FILE_DIR
    /\ IF Pending
       THEN /\ request = [control |-> "READ", key |-> 0, buffer |-> "qfile"]
            /\ offset = e + 1
       ELSE offset = e + 2 /\ qfile = directory[e + 1]

ConfigTransfer ==
  pc = "cfg" =>
    IF Pending
    THEN request = [control |-> "SELECT WRITE", key |-> select, buffer |-> "cfg"]
    ELSE configured

(* How far the search has come. *)
Search ==
  /\ pc \in {"start", "count"} => e = 0 /\ select = 0
  /\ pc = "qfile" => Searched(e)
  /\ pc \in {"found", "cfg", "ready"} => IsRamfb(select)
  /\ pc = "failed" => \A i \in 1 .. Len(directory) : directory[i].name # "etc/ramfb"
  /\ pc = "ready" => configured

Straight == ~errors => CountTransfer /\ EntryTransfer /\ ConfigTransfer /\ Search

IInv == TypeOK /\ Attended /\ Resting /\ EntryCounted /\ Straight

-----------------------------------------------------------------------------
LEMMA InitHolds == Init => IInv
<1> SUFFICES ASSUME Init PROVE IInv
  OBVIOUS
<1>1. TypeOK
  <2>1. count \in uint16 /\ qfile \in Entry
    BY DirectoryAssumption DEF Init
  <2>2. Idle \in [control : Controls, key : uint16,
                  buffer : {"none", "count", "qfile", "cfg"}]
    BY KeysInRange DEF Idle, Controls
  <2> QED
    BY <2>1, <2>2, KeysInRange DEF Init, TypeOK, Controls
<1>2. Attended /\ Resting /\ EntryCounted
  BY DEF Init, Attended, Resting, EntryCounted
<1>3. Straight
  BY DEF Init, Straight, CountTransfer, EntryTransfer, ConfigTransfer, Search
<1> QED
  BY <1>1, <1>2, <1>3 DEF IInv

(* A driver that has been answered has no request out, and may start one. *)
LEMMA AnsweredIsIdle ==
  ASSUME IInv, TransferDone \/ pc \notin {"count", "qfile", "cfg"}
  PROVE  request = Idle /\ ~moved
<1>1. pc \in {"count", "qfile", "cfg"} => control \in {"0", "ERROR"}
  BY DEF TransferDone
<1>2. request = Idle
  BY <1>1 DEF IInv, Attended
<1> QED
  BY <1>2 DEF IInv, Resting

-----------------------------------------------------------------------------
(* The steps of the driver. *)

LEMMA ReadCountKeeps ==
  ASSUME IInv, read_count
  PROVE  IInv'
<1> USE DEF read_count, qemu_cfg_dma_transfer
<1>1. request = Idle /\ ~moved
  BY AnsweredIsIdle
<1>2. TypeOK'
  BY KeysInRange DEF IInv, TypeOK, Controls
<1>3. Attended' /\ Resting' /\ EntryCounted'
  BY <1>1 DEF Attended, Resting, EntryCounted, Idle
<1>4. request' # Idle /\ ~moved'
  BY <1>1 DEF Idle
<1>5. Straight'
  BY <1>4 DEF IInv, Straight, CountTransfer, EntryTransfer, ConfigTransfer, Search, Pending
<1> QED
  BY <1>2, <1>3, <1>5 DEF IInv

(* The loop's test after n entries, with what they have given. *)
LEMMA NextEntryKeeps ==
  ASSUME IInv, pc \in {"count", "qfile"}, TransferDone,
         NEW k \in uint16, e' = k, select' \in uint16,
         NextEntry(bswap(count), k, select'),
         ~errors => /\ k <= Len(directory)
                    /\ bswap(count) = Len(directory)
                    /\ count = bswap(Len(directory))
                    /\ item = QEMU_CFG_FILE_DIR /\ offset = k + 1
                    /\ \/ select' = 0 /\ \A i \in 1 .. k : directory[i].name # "etc/ramfb"
                       \/ \E i \in 1 .. k : /\ directory[i].name = "etc/ramfb"
                                            /\ select' = bswap(directory[i].select)
  PROVE  IInv'
<1>1. request = Idle /\ ~moved
  BY AnsweredIsIdle
<1>2. bswap(count) \in uint16 /\ Len(directory) \in Nat /\ Len(directory) < 256
  BY SwapInRange, DirectoryFits DEF IInv, TypeOK
<1>3. CASE /\ k < bswap(count)
           /\ qemu_cfg_dma_transfer("READ", 0, "qfile")
  <2> USE <1>3 DEF qemu_cfg_dma_transfer
  <2>1. TypeOK'
    BY KeysInRange DEF IInv, TypeOK, Controls
  <2>2. Attended' /\ Resting' /\ EntryCounted'
    BY <1>1 DEF Attended, Resting, EntryCounted, Idle
  <2>3. request' # Idle /\ ~moved'
    BY <1>1 DEF Idle
  <2>4. ~errors => EntryTransfer' /\ Searched(e)'
    BY <1>2, <2>3 DEF EntryTransfer, Searched, Pending
  <2>5. Straight'
    BY <2>3, <2>4 DEF IInv, Straight, CountTransfer, ConfigTransfer, Search
  <2> QED
    BY <2>1, <2>2, <2>5 DEF IInv
<1>4. CASE /\ ~(k < bswap(count))
           /\ pc' = IF select' = 0 THEN "failed" ELSE "found"
           /\ UNCHANGED <<device, control, count, qfile>>
  <2> USE <1>4 DEF device
  <2>1. TypeOK'
    BY DEF IInv, TypeOK
  <2>2. Attended' /\ Resting' /\ EntryCounted'
    BY <1>1 DEF Attended, Resting, EntryCounted
  <2>3. ASSUME ~errors PROVE Search'
    <3>1. k = Len(directory)
      BY <1>2, <2>3 DEF uint16
    <3>2. ASSUME NEW i \in 1 .. k PROVE bswap(directory[i].select) # 0
      BY <3>1, SwapInRange, DirectoryFits DEF IInv
    <3>3. DOMAIN directory = 1 .. Len(directory)
      BY DirectoryFits DEF IInv
    <3>4. CASE select' = 0
      <4>1. \A i \in 1 .. Len(directory) : directory[i].name # "etc/ramfb"
        BY <2>3, <3>1, <3>2, <3>4
      <4> QED
        BY <3>4, <4>1 DEF Search
    <3>5. CASE select' # 0
      <4>1. IsRamfb(select')
        BY <2>3, <3>1, <3>3, <3>5 DEF IsRamfb
      <4>2. IsRamfb(select)'
        BY <4>1 DEF IsRamfb
      <4> QED
        BY <3>5, <4>2 DEF Search
    <3> QED
      BY <3>4, <3>5
  <2>4. Straight'
    BY <2>3 DEF Straight, CountTransfer, EntryTransfer, ConfigTransfer
  <2> QED
    BY <2>1, <2>2, <2>4 DEF IInv
<1> QED
  BY <1>3, <1>4 DEF NextEntry

LEMMA GotCountKeeps ==
  ASSUME IInv, got_count
  PROVE  IInv'
<1> USE DEF got_count
<1>1. request = Idle /\ ~moved
  BY AnsweredIsIdle
<1>2. e \in uint16 /\ select \in uint16
  BY DEF IInv, TypeOK
<1>3. ASSUME ~errors
      PROVE  /\ e = 0 /\ select = 0 /\ item = QEMU_CFG_FILE_DIR /\ offset = 1
             /\ count = bswap(Len(directory))
  BY <1>1, <1>3 DEF IInv, Straight, CountTransfer, Search, Pending
<1>4. Len(directory) \in Nat /\ Len(directory) < 256 /\ bswap(bswap(Len(directory))) = Len(directory)
  BY DirectoryFits, SwapsBack DEF IInv
<1>5. NextEntry(bswap(count), e, select')
  BY DEF NextEntry
<1> QED
  BY <1>2, <1>3, <1>4, <1>5, NextEntryKeeps

LEMMA GotEntryKeeps ==
  ASSUME IInv, got_entry
  PROVE  IInv'
<1> USE DEF got_entry
<1>1. request = Idle /\ ~moved
  BY AnsweredIsIdle
<1>2. e \in uint16 /\ select \in uint16 /\ qfile \in Entry
  BY DEF IInv, TypeOK
<1>3. e + 1 \in uint16
  <2>1. bswap(count) \in uint16
    BY SwapInRange DEF IInv, TypeOK
  <2> QED
    BY <1>2, <2>1 DEF IInv, EntryCounted, uint16
<1>4. select' \in uint16
  BY <1>2, SwapInRange DEF Selector, Entry
<1>5. ASSUME ~errors
      PROVE  /\ item = QEMU_CFG_FILE_DIR /\ offset = e + 2
             /\ count = bswap(Len(directory)) /\ e < Len(directory)
             /\ qfile = directory[e + 1]
             /\ Searched(e)
  BY <1>1, <1>5 DEF IInv, Straight, EntryTransfer, Search, Pending
<1>6. Len(directory) \in Nat /\ Len(directory) < 256 /\ bswap(bswap(Len(directory))) = Len(directory)
  BY DirectoryFits, SwapsBack DEF IInv
<1>7. ASSUME ~errors
      PROVE  \/ select' = 0 /\ \A i \in 1 .. e + 1 : directory[i].name # "etc/ramfb"
             \/ \E i \in 1 .. e + 1 : /\ directory[i].name = "etc/ramfb"
                                      /\ select' = bswap(directory[i].select)
  <2>1. CASE Matches(qfile)
    <3>1. select' = bswap(directory[e + 1].select) /\ directory[e + 1].name = "etc/ramfb"
      BY <1>5, <1>7, <2>1 DEF Matches, Selector
    <3> QED
      BY <1>2, <3>1 DEF uint16
  <2>2. CASE ~Matches(qfile)
    <3>1. select' = select /\ directory[e + 1].name # "etc/ramfb"
      BY <1>5, <1>7, <2>2 DEF Matches
    <3>2. CASE select = 0 /\ \A i \in 1 .. e : directory[i].name # "etc/ramfb"
      BY <1>2, <3>1, <3>2
    <3>3. CASE \E i \in 1 .. e : /\ directory[i].name = "etc/ramfb"
                                 /\ select = bswap(directory[i].select)
      BY <1>2, <3>1, <3>3 DEF uint16
    <3> QED
      BY <1>5, <1>7, <3>2, <3>3 DEF Searched
  <2> QED
    BY <2>1, <2>2
<1>8. NextEntry(bswap(count), e + 1, select') /\ e' = e + 1
  BY DEF NextEntry
<1>9. ~errors => /\ e + 1 <= Len(directory) /\ bswap(count) = Len(directory)
                 /\ offset = (e + 1) + 1
  BY <1>2, <1>5, <1>6 DEF uint16
<1> QED
  BY <1>3, <1>4, <1>5, <1>7, <1>8, <1>9, NextEntryKeeps

LEMMA WriteConfigKeeps ==
  ASSUME IInv, write_config
  PROVE  IInv'
<1> USE DEF write_config, qemu_cfg_dma_transfer
<1>1. request = Idle /\ ~moved
  BY AnsweredIsIdle
<1>2. TypeOK'
  BY DEF IInv, TypeOK, Controls
<1>3. Attended' /\ Resting' /\ EntryCounted'
  BY <1>1 DEF Attended, Resting, EntryCounted, Idle
<1>4. request' # Idle /\ ~moved'
  BY <1>1 DEF Idle
<1>5. ~errors => IsRamfb(select)'
  BY DEF IInv, Straight, Search, IsRamfb
<1>6. Straight'
  BY <1>4, <1>5 DEF IInv, Straight, CountTransfer, EntryTransfer, ConfigTransfer, Search, Pending
<1> QED
  BY <1>2, <1>3, <1>6 DEF IInv

LEMMA ConfigWrittenKeeps ==
  ASSUME IInv, config_written
  PROVE  IInv'
<1> USE DEF config_written, device
<1>1. request = Idle /\ ~moved
  BY AnsweredIsIdle
<1>2. TypeOK'
  BY DEF IInv, TypeOK
<1>3. Attended' /\ Resting' /\ EntryCounted'
  BY <1>1 DEF Attended, Resting, EntryCounted
<1>4. ~errors => IsRamfb(select)' /\ configured'
  BY <1>1 DEF IInv, Straight, Search, ConfigTransfer, IsRamfb, Pending
<1>5. Straight'
  BY <1>4 DEF IInv, Straight, CountTransfer, EntryTransfer, ConfigTransfer, Search
<1> QED
  BY <1>2, <1>3, <1>5 DEF IInv

-----------------------------------------------------------------------------
(* The steps of the device. *)

LEMMA DeviceMovesKeeps ==
  ASSUME IInv, DeviceMoves
  PROVE  IInv'
<1> USE DEF DeviceMoves
<1>1. Pending /\ moved' /\ request' # Idle /\ ~Pending'
  BY DEF Pending
<1>2. TypeOK'
  <2>1. Item \in uint16 /\ At \in Nat
    BY DEF IInv, TypeOK, Item, At
  <2>2. CountAt \in uint16
    BY DirectoryFits, SwapsBack DEF IInv, CountAt, uint16
  <2>3. EntryAt \in Entry
    <3>1. [name |-> "", select |-> 0] \in Entry
      <4>1. "" \in FileNames
        BY DEF FileNames
      <4> QED
        BY <4>1, KeysInRange DEF Entry
    <3>2. \A k \in DOMAIN directory : directory[k] \in Entry
      BY DirectoryFits DEF IInv
    <3> QED
      BY <3>1, <3>2 DEF EntryAt
  <2> QED
    BY <2>1, <2>2, <2>3 DEF IInv, TypeOK
<1>3. Attended' /\ Resting'
  BY <1>1 DEF IInv, Attended, Resting
<1>4. EntryCounted'
  BY DEF IInv, Attended, EntryCounted
<1>5. ASSUME ~errors
      PROVE  CountTransfer' /\ EntryTransfer' /\ ConfigTransfer' /\ Search'
  <2> USE <1>5
  <2>1. Search'
    BY DEF IInv, Straight, Search, Attended, Searched, IsRamfb
  <2>2. CountTransfer'
    <3> SUFFICES ASSUME pc = "count"
                 PROVE  /\ item' = QEMU_CFG_FILE_DIR /\ offset' = 1
                        /\ count' = bswap(Len(directory))
      BY <1>1 DEF CountTransfer
    <3>1. request = [control |-> "SELECT READ", key |-> QEMU_CFG_FILE_DIR, buffer |-> "count"]
      BY <1>1 DEF IInv, Straight, CountTransfer
    <3>2. Item = QEMU_CFG_FILE_DIR /\ At = 0
      BY <3>1 DEF Item, At
    <3>3. CountAt = bswap(Len(directory))
      BY <3>2 DEF CountAt
    <3>4. item' = QEMU_CFG_FILE_DIR
      BY <3>2
    <3>5. offset' = 1
      BY <3>2
    <3>6. count' = bswap(Len(directory))
      BY <3>1, <3>3
    <3> QED
      BY <3>4, <3>5, <3>6
  <2>3. EntryTransfer'
    <3> SUFFICES ASSUME pc = "qfile" PROVE EntryTransfer'
      BY DEF EntryTransfer
    <3>1. /\ count = bswap(Len(directory)) /\ e < Len(directory)
          /\ item = QEMU_CFG_FILE_DIR /\ offset = e + 1
          /\ request = [control |-> "READ", key |-> 0, buffer |-> "qfile"]
      BY <1>1 DEF IInv, Straight, EntryTransfer
    <3>2. Item = QEMU_CFG_FILE_DIR /\ At = e + 1
      BY <3>1 DEF Item, At
    <3>3. e + 1 \in DOMAIN directory /\ e \in Nat
      BY <3>1, DirectoryFits DEF IInv, TypeOK, uint16
    <3>4. EntryAt = directory[e + 1]
      BY <3>2, <3>3 DEF EntryAt
    <3>5. /\ item' = QEMU_CFG_FILE_DIR /\ offset' = e + 2
          /\ qfile' = directory[e + 1] /\ count' = count
      BY <3>1, <3>2, <3>3, <3>4
    <3> QED
      BY <1>1, <3>1, <3>5 DEF EntryTransfer
  <2>4. ConfigTransfer'
    <3> SUFFICES ASSUME pc = "cfg" PROVE configured'
      BY <1>1 DEF ConfigTransfer
    <3>1. request = [control |-> "SELECT WRITE", key |-> select, buffer |-> "cfg"]
      BY <1>1 DEF IInv, Straight, ConfigTransfer
    <3>2. IsRamfb(Item)
      BY <3>1 DEF IInv, Straight, Search, Item
    <3> QED
      BY <3>1, <3>2
  <2> QED
    BY <2>1, <2>2, <2>3, <2>4
<1> QED
  BY <1>2, <1>3, <1>4, <1>5 DEF IInv, Straight

LEMMA DeviceAnswersKeeps ==
  ASSUME IInv, DeviceAnswers
  PROVE  IInv'
<1> USE DEF DeviceAnswers
<1>1. TypeOK'
  BY KeysInRange DEF IInv, TypeOK, Controls, Idle
<1>2. Attended' /\ Resting' /\ EntryCounted'
  BY DEF IInv, Attended, Resting, EntryCounted
<1>3. ~Pending /\ ~Pending'
  BY DEF Pending
<1>4. ASSUME ~errors
      PROVE  CountTransfer' /\ EntryTransfer' /\ ConfigTransfer' /\ Search'
  BY <1>3, <1>4 DEF IInv, Straight, CountTransfer, EntryTransfer, ConfigTransfer, Search,
                    Searched, IsRamfb
<1> QED
  BY <1>1, <1>2, <1>4 DEF IInv, Straight

LEMMA DeviceFailsKeeps ==
  ASSUME IInv, DeviceFails
  PROVE  IInv'
<1> USE DEF DeviceFails
<1>1. TypeOK'
  BY KeysInRange DEF IInv, TypeOK, Controls, Idle
<1>2. Attended' /\ Resting' /\ EntryCounted'
  BY DEF IInv, Attended, Resting, EntryCounted
<1> QED
  BY <1>1, <1>2 DEF IInv, Straight

-----------------------------------------------------------------------------
LEMMA NextKeeps == IInv /\ [Next]_vars => IInv'
<1> SUFFICES ASSUME IInv, [Next]_vars PROVE IInv'
  OBVIOUS
<1>1. CASE Driver
  BY <1>1, ReadCountKeeps, GotCountKeeps, GotEntryKeeps, WriteConfigKeeps,
     ConfigWrittenKeeps DEF Driver
<1>2. CASE Device
  BY <1>2, DeviceMovesKeeps, DeviceAnswersKeeps, DeviceFailsKeeps DEF Device
<1>3. CASE UNCHANGED vars
  BY <1>3, ZenonT(60)
     DEF vars, device, driver, IInv, TypeOK, Attended, Resting, EntryCounted, Straight,
              CountTransfer, EntryTransfer, ConfigTransfer, Search, Searched, Pending, IsRamfb
<1> QED
  BY <1>1, <1>2, <1>3 DEF Next, Waits, Returned

LEMMA DriverInvariant == Spec => []IInv
BY InitHolds, NextKeeps, PTL DEF Spec

(* The variables of driver and device hold what TypeOK says: counts and    *)
(* selectors of 16 bits stay in 16 bits, even those read in error.         *)
THEOREM TypeCorrect == Spec => []TypeOK
<1>1. IInv => TypeOK
  BY DEF IInv
<1> QED
  BY <1>1, DriverInvariant, PTL

(* The device never writes to a frame of qemu_cfg_dma_transfer, or to a     *)
(* buffer of its callers, that is gone.                                     *)
THEOREM FramesOutlive == Spec => []FrameOutlivesTransfer
<1>1. IInv => FrameOutlivesTransfer
  BY DEF IInv, Attended, FrameOutlivesTransfer
<1> QED
  BY <1>1, DriverInvariant, PTL

(* Without errors ramfb_setup finds etc/ramfb in every directory that has   *)
(* it, reports every one that has not, and configures what it has found.    *)
THEOREM FileIsFound == Spec => []FindsFile
<1>1. ASSUME IInv PROVE FindsFile
  <2>1. DOMAIN directory = 1 .. Len(directory)
    BY <1>1, DirectoryFits DEF IInv
  <2> QED
    BY <1>1, <2>1 DEF IInv, Straight, Search, FindsFile
<1> QED
  BY <1>1, DriverInvariant, PTL

=============================================================================
