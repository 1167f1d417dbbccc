------------------------------- MODULE FwCfg -------------------------------
(***************************************************************************)
(* The fw_cfg DMA driver of src/qemu_dma.c, from the directory search that *)
(* ramfb_setup (src/fb.c) starts to the configuration it writes, against a *)
(* device that fills buffers and answers in its own time.                  *)
(*                                                                         *)
(* The driver hands the device the address of a record on its stack and    *)
(* spins until the device has cleared the record's control word, or left   *)
(* nothing but the ERROR bit in it.  What was read is then used; nobody    *)
(* looks at ERROR.                                                         *)
(***************************************************************************)
EXTENDS Naturals, Sequences

CONSTANTS
  Directories,  \* what the device's file directory may be
  Leftovers,    \* what an unwritten local of the driver may hold
  MayFail       \* whether the device may answer ERROR

QEMU_CFG_FILE_DIR == 25     \* 0x19

(* The combinations of control bits that occur; 0 is the cleared word. *)
Controls == {"0", "ERROR", "READ", "SELECT READ", "SELECT WRITE"}

(* Numbers the device keeps are big-endian; here they have two bytes. *)
bswap(n) == (n % 256) * 256 + n \div 256

uint16 == {n \in Nat : n < 65536}
FileNames == {""} \cup UNION {{d[i].name : i \in DOMAIN d} : d \in Directories}
             \cup {l.qfile.name : l \in Leftovers}
Entry == [name : FileNames, select : uint16]

(***************************************************************************)
(* File names are unique, and so are selectors, which fit 16 bits and are  *)
(* neither zero nor the directory's own (a selector is stored swapped).    *)
(***************************************************************************)
ASSUME DirectoryAssumption ==
  /\ \A d \in Directories :
       /\ d \in Seq(Entry) /\ Len(d) < 256
       /\ \A i, j \in DOMAIN d :
            d[i].name = d[j].name \/ d[i].select = d[j].select => i = j
       /\ \A i \in DOMAIN d : /\ d[i].select # 0
                              /\ bswap(d[i].select) # QEMU_CFG_FILE_DIR
  /\ \A l \in Leftovers : l.count \in uint16 /\ l.qfile \in Entry
  /\ MayFail \in BOOLEAN

VARIABLES
  directory,   \* device: the directory's entries
  item,        \* device: the selected item
  offset,      \* device: how much of it has been read: the count, then entries
  request,     \* device: the record it was handed: control, key, buffer
  moved,       \* device: whether it has read or written the buffer already
  configured,  \* device: whether the ramfb file has been written
  control,     \* driver: access.control, in its stack frame
  pc,          \* driver: where ramfb_setup is, by the buffer it waits for
  count, qfile,\* driver: the buffers it reads into
  e, select,   \* driver: locals of qemu_cfg_find_file
  errors       \* whether any answer was ERROR (history)

device == <<directory, item, offset, request, moved, configured, errors>>
driver == <<pc, control, count, qfile, e, select>>
vars   == <<device, driver>>

-----------------------------------------------------------------------------
Idle == [control |-> "0", key |-> 0, buffer |-> "none"]

Init ==
  /\ directory \in Directories
  /\ item = 0 /\ offset = 0 /\ request = Idle /\ moved = FALSE
  /\ configured = FALSE /\ errors = FALSE
  /\ control = "0" /\ pc = "start"
  /\ \E l \in Leftovers : count = l.count /\ qfile = l.qfile
  /\ e = 0 /\ select = 0

(***************************************************************************)
(* qemu_cfg_dma_transfer up to its wait: the device now has the address of *)
(* access, which names the item, if one is to be selected, and the buffer. *)
(***************************************************************************)
qemu_cfg_dma_transfer(ctl, key, buffer) ==
  /\ pc' = buffer
  /\ control' = ctl
  /\ request' = [control |-> ctl, key |-> key, buffer |-> buffer]
  /\ UNCHANGED <<directory, item, offset, moved, configured, errors, count,
                 qfile>>

DoesNotWait == TRUE              \* mutant: no loop

(* while (access.control & ~QEMU_CFG_DMA_CTL_ERROR) has ended. *)
TransferDone == control \in {"0", "ERROR"}

(* An iteration of that loop. *)
Waits == pc \in {"count", "qfile", "cfg"} /\ ~TransferDone /\ UNCHANGED vars

(* qemu_cfg_read_entry(&count, QEMU_CFG_FILE_DIR, sizeof(count)) *)
read_count ==
  /\ pc = "start"
  /\ qemu_cfg_dma_transfer("SELECT READ", QEMU_CFG_FILE_DIR, "count")
  /\ UNCHANGED <<e, select>>

(* The loop's test: read the next entry, or return select. *)
NextEntry(n, i, s) ==
  \/ /\ i < n
     /\ qemu_cfg_dma_transfer("READ", 0, "qfile")
  \/ /\ ~(i < n)
     /\ pc' = IF s = 0 THEN "failed" ELSE "found"
     /\ UNCHANGED <<device, control, count, qfile>>

got_count ==
  /\ pc = "count" /\ TransferDone
  /\ NextEntry(bswap(count), e, select)
  /\ UNCHANGED <<e, select>>

(* mutant: compares 9 bytes *)
MatchesPrefix(f) == f.name \in {"etc/ramfb", "etc/ramfb.old"}

(* memcmp_str(qfile.name, "etc/ramfb", 10) == 0: the terminator counts. *)
Matches(f) == f.name = "etc/ramfb"

Selector(f) == bswap(f.select)

got_entry ==
  LET s == IF Matches(qfile) THEN Selector(qfile) ELSE select
  IN /\ pc = "qfile" /\ TransferDone
     /\ select' = s
     /\ e' = e + 1
     /\ NextEntry(bswap(count), e + 1, s)

(* qemu_cfg_write_entry(&cfg, select, sizeof(cfg)) *)
write_config ==
  /\ pc = "found"
  /\ qemu_cfg_dma_transfer("SELECT WRITE", select, "cfg")
  /\ UNCHANGED <<e, select>>

(* ramfb_setup returns 0. *)
config_written ==
  /\ pc = "cfg" /\ TransferDone
  /\ pc' = "ready"
  /\ UNCHANGED <<device, control, count, qfile, e, select>>

-----------------------------------------------------------------------------
(* The device.                                                             *)

(* Selecting an item rewinds it. *)
Item == IF request.control = "READ" THEN item ELSE request.key
At   == IF request.control = "READ" THEN offset ELSE 0

(* What a read returns; beyond the end of an item there are zeros. *)
CountAt  == IF Item = QEMU_CFG_FILE_DIR /\ At = 0 THEN bswap(Len(directory)) ELSE 0
EntryAt  == IF Item = QEMU_CFG_FILE_DIR /\ At \in DOMAIN directory
            THEN directory[At] ELSE [name |-> "", select |-> 0]
IsRamfb(key) == \E i \in DOMAIN directory :
                  directory[i].name = "etc/ramfb" /\ key = bswap(directory[i].select)

(* It selects, and reads or writes the buffer. *)
DeviceMoves ==
  /\ request # Idle /\ ~moved
  /\ moved' = TRUE
  /\ item' = Item
  /\ offset' = At + 1
  /\ count' = IF request.buffer = "count" THEN CountAt ELSE count
  /\ qfile' = IF request.buffer = "qfile" THEN EntryAt ELSE qfile
  /\ configured' = (configured \/ (request.buffer = "cfg" /\ IsRamfb(Item)))
  /\ UNCHANGED <<directory, request, errors, control, pc, e, select>>

(* It clears the record's control word and forgets the record. *)
DeviceAnswers ==
  /\ request # Idle /\ moved
  /\ control' = "0"
  /\ request' = Idle /\ moved' = FALSE
  /\ UNCHANGED <<directory, item, offset, configured, errors, pc, count, qfile,
                 e, select>>

(* It gives up: only the ERROR bit is left, and the buffer is as it was. *)
DeviceFails ==
  /\ MayFail
  /\ request # Idle /\ ~moved
  /\ control' = "ERROR"
  /\ request' = Idle
  /\ errors' = TRUE
  /\ UNCHANGED <<directory, item, offset, moved, configured, pc, count, qfile,
                 e, select>>

-----------------------------------------------------------------------------
(* ramfb_setup has returned. *)
Returned == pc \in {"ready", "failed"} /\ UNCHANGED vars

Driver == \/ read_count \/ got_count \/ got_entry \/ write_config \/ config_written

Device == DeviceMoves \/ DeviceAnswers \/ DeviceFails

Next == Driver \/ Waits \/ Device \/ Returned

Spec == Init /\ [][Next]_vars

-----------------------------------------------------------------------------
(* Properties *)

TypeOK ==
  /\ directory \in Directories
  /\ item \in uint16 /\ offset \in Nat
  /\ request \in [control : Controls, key : uint16,
                  buffer : {"none", "count", "qfile", "cfg"}]
  /\ moved \in BOOLEAN /\ configured \in BOOLEAN /\ errors \in BOOLEAN
  /\ control \in Controls
  /\ pc \in {"start", "count", "qfile", "found", "cfg", "ready", "failed"}
  /\ count \in uint16 /\ qfile \in Entry
  /\ e \in uint16 /\ select \in uint16

(***************************************************************************)
(* The record and the buffer are on the driver's stack: while the device   *)
(* has their addresses, the driver is in the call they belong to (the loop *)
(* at the end of qemu_cfg_dma_transfer).                                   *)
(***************************************************************************)
FrameOutlivesTransfer == request # Idle => pc = request.buffer

(***************************************************************************)
(* If no transfer failed, qemu_cfg_find_file returns the selector of       *)
(* etc/ramfb, or 0 when the directory has no such file, and ramfb_setup    *)
(* goes on to allocate only with the device configured.                    *)
(***************************************************************************)
FindsFile ==
  ~errors =>
    /\ pc \in {"found", "cfg", "ready"} => IsRamfb(select)
    /\ pc = "failed" => \A i \in DOMAIN directory : directory[i].name # "etc/ramfb"
    /\ pc = "ready" => configured

=============================================================================
