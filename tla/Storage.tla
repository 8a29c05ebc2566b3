------------------------------ MODULE Storage ------------------------------
(***************************************************************************)
(* lib/storage/storage.cpp on top of pico-vfs (vfs.c, fat.c) and the SD      *)
(* card: fs_init creates a device and a file system, mounts it, formats the *)
(* card when that fails, and mounts again.  FatFS itself is external: f_mount *)
(* initialises the disk and reads its first block, f_mkfs initialises it and*)
(* writes the boot block and the tables, writing a row programs one block.  *)
(*                                                                         *)
(* One call of the block device at a time: `fs' waits at its label until the*)
(* call has returned (pc = "free") and then looks at its status.            *)
(***************************************************************************)
EXTENDS SdCard

CONSTANTS
    Volumes,     \* FF_VOLUMES: volumes FatFS can mount, 4
    MountPoints, \* PICO_VFS_MAX_MOUNTPOINT: 8
    Fat, Row,    \* a block that is a boot sector, and one with rows of a file
    MaxInits     \* bound of the model: calls of fs_init

ASSUME StorageAssumption ==
    /\ Volumes \in Nat \ {0} /\ MountPoints \in Nat \ {0} /\ MaxInits \in Nat
    /\ {Fat, Row} \subseteq Values /\ Fat # Row /\ Erased \notin {Fat, Row}
    /\ Size >= 3

VARIABLES
    fs,              \* where fs_init is, or "up": no call
    attempt,         \* first or second fs_mount of this fs_init
    slots,           \* _ffs: the device of each volume, by the fs_init that made it, or 0
    id,              \* context->id, or Volumes: none (-1)
    mounts,          \* mountpoints[] in use
    sd_card_mounted,
    inits            \* fs_init calls so far: names the device of the last one

volume == <<slots, id>>
storage == <<fs, attempt, volume, mounts, sd_card_mounted, inits>>
allvars == <<sdvars, storage>>

Boot == 0
Data == 2
VolumeIds == 0 .. (Volumes - 1)
Free == { i \in VolumeIds : slots[i] = 0 }
First(S) == CHOOSE i \in S : \A j \in S : i =< j

Init ==
    /\ SdInit
    /\ stored \in { [b \in Blocks |-> IF b = Boot THEN Fat ELSE IF b = Data THEN Row ELSE Erased],
                    [b \in Blocks |-> Erased] }
    /\ fs = "up" /\ attempt = 1 /\ slots = [i \in VolumeIds |-> 0] /\ id = Volumes
    /\ mounts = 0 /\ sd_card_mounted = FALSE /\ inits = 0

-----------------------------------------------------------------------------
\* A call of the block device, to be looked at under the next label.
Device(op, first, count, data, next) ==
    \E c \in Callers : Begin(c, Call(op, first, count, data)) /\ fs' = next

\* A step of the file system that calls no device.
Quiet == UNCHANGED sdvars

At(label) == fs = label /\ pc = "free" /\ UNCHANGED inits

Boots == UNCHANGED <<attempt, volume, mounts, sd_card_mounted>>

\* fs_init: a new device, which blockdevice_sd_create initialises.
FsInit ==
    /\ fs = "up" /\ pc = "free" /\ ~sd_card_mounted /\ inits < MaxInits
    /\ inits' = inits + 1
    /\ sd_card_mounted' = FALSE /\ attempt' = 1 /\ id' = Volumes /\ fs' = "create"
    /\ card_type' = "NONE" /\ is_initialized' = FALSE /\ total_sectors' = 0 /\ ready' = FALSE
    /\ UNCHANGED <<card, progress, owner, pc, status, faults, slots, mounts>>

CreateDevice == At("create") /\ Device("init", 0, 0, Erased, "mount") /\ Boots

\* fs_mount fails for any reason: the first time fs_init formats, then it gives up.
MountFails(slots1) ==
    /\ Quiet
    /\ slots' = slots1
    /\ fs' = IF attempt = 1 THEN "format" ELSE "up"
    /\ UNCHANGED <<attempt, id, mounts, sd_card_mounted>>

\* fs_mount initialises a device that is not yet.
FsMount ==
    /\ At("mount")
    /\ IF ready THEN fs' = "volume" /\ Quiet ELSE Device("init", 0, 0, Erased, "mount_init")
    /\ Boots

FsMountInit ==
    /\ At("mount_init")
    /\ IF status = "OK" THEN fs' = "volume" /\ Quiet /\ Boots ELSE MountFails(slots)

\* mount of fat.c: the first free volume is taken before f_mount is tried.
TakeVolume ==
    /\ slots' = [slots EXCEPT ![First(Free)] = inits]
    /\ id' = First(Free)
    /\ UNCHANGED <<attempt, mounts, sd_card_mounted>>

MountVolume ==
    /\ At("volume")
    /\ IF Free = {} THEN MountFails(slots)
       ELSE TakeVolume /\ Device("init", 0, 0, Erased, "mount_disk")

\* disk_initialize gives FatFS the low byte of the error, of which it looks at bit 0:
\* the even error codes are taken for a disk that is ready.
NotInitialised == status \in {"PARAMETER", "NO_DEVICE", "UNUSABLE", "DEVICE_ERROR"}

MountDisk ==
    /\ At("mount_disk")
    /\ IF NotInitialised THEN MountFails(slots)
       ELSE Device("read", Boot, 1, Erased, "mount_read") /\ Boots

IsFat == status = "OK" /\ buffer = <<Fat>>

\* Mutant: one mount point too few.
HasPlace_Less == mounts + 1 < MountPoints

HasPlace == mounts < MountPoints

\* f_mount has read the first block; fs_mount then enters the mount point.  A
\* volume that could not be mounted stays taken.
MountRead ==
    /\ At("mount_read")
    /\ IF IsFat /\ HasPlace
         THEN /\ mounts' = mounts + 1 /\ sd_card_mounted' = TRUE /\ fs' = "up"
              /\ UNCHANGED <<attempt, volume>> /\ Quiet
         ELSE MountFails(slots)

-----------------------------------------------------------------------------
\* fs_format returns: only an init that failed is -1 to fs_init; after every other
\* error it tries to mount all the same.
FormatReturns(slots1) ==
    /\ Quiet /\ slots' = slots1
    /\ fs' = "mount" /\ attempt' = 2
    /\ UNCHANGED <<id, mounts, sd_card_mounted>>

FsFormat ==
    /\ At("format")
    /\ IF ready THEN fs' = "format_first" /\ Quiet ELSE Device("init", 0, 0, Erased, "format_init")
    /\ Boots

FsFormatInit ==
    /\ At("format_init")
    /\ fs' = IF status = "OK" THEN "format_first" ELSE "up"
    /\ Quiet /\ Boots

\* format of fat.c: the first two blocks are overwritten, the card is trimmed.
FormatFirst == At("format_first") /\ Device("program", 0, 1, Erased, "format_second") /\ Boots

OrFormatReturns(op, first, count, data, next) ==
    IF status = "OK" THEN Device(op, first, count, data, next) /\ Boots ELSE FormatReturns(slots)

FormatSecond == At("format_second") /\ OrFormatReturns("program", 1, 1, Erased, "format_trim")

FormatTrim == At("format_trim") /\ OrFormatReturns("trim", 0, total_sectors, Erased, "format_volume")

\* It needs a volume of its own for f_mkfs.
FormatVolume ==
    /\ At("format_volume")
    /\ IF status # "OK" \/ Free = {} THEN FormatReturns(slots)
       ELSE TakeVolume /\ Device("init", 0, 0, Erased, "mkfs_disk")

\* Mutant: unmount forgets to free the volume.
Unmounted_Kept == slots

Unmounted == [slots EXCEPT ![id] = 0]

MkfsDisk ==
    /\ At("mkfs_disk")
    /\ IF NotInitialised THEN FormatReturns(Unmounted)
       ELSE Device("program", Boot, 1, Fat, "mkfs_boot") /\ Boots

MkfsBoot ==
    /\ At("mkfs_boot")
    /\ IF status # "OK" THEN FormatReturns(Unmounted)
       ELSE Device("program", 1, 2, Erased, "mkfs_tables") /\ Boots

MkfsTables == At("mkfs_tables") /\ FormatReturns(Unmounted)

-----------------------------------------------------------------------------
\* A row is written to the mounted card; fs_init is not called again.
WriteRow ==
    /\ fs = "up" /\ pc = "free" /\ sd_card_mounted
    /\ Device("program", Data, 1, Row, "transferred") /\ Boots
    /\ UNCHANGED inits

\* f_read takes whole blocks of a file at once.
ReadRows ==
    /\ fs = "up" /\ pc = "free" /\ sd_card_mounted
    /\ Device("read", Data - 1, 2, Erased, "transferred") /\ Boots
    /\ UNCHANGED inits

Transferred == At("transferred") /\ fs' = "up" /\ Quiet /\ Boots

StorageStep ==
    \/ CreateDevice \/ FsMount \/ FsMountInit \/ MountVolume \/ MountDisk \/ MountRead
    \/ FsFormat \/ FsFormatInit \/ FormatFirst \/ FormatSecond \/ FormatTrim \/ FormatVolume
    \/ MkfsDisk \/ MkfsBoot \/ MkfsTables \/ Transferred
    \/ SdStep /\ UNCHANGED storage

Next == FsInit \/ WriteRow \/ ReadRows \/ StorageStep \/ (CardResets /\ UNCHANGED storage)

Spec == Init /\ [][Next]_allvars
FairSpec == Spec /\ WF_allvars(StorageStep)

-----------------------------------------------------------------------------
(* Properties.                                                             *)

\* With a card that works, nothing that is done at boot or later takes a flight's
\* data from it.
WorkingCardKept ==
    [][faults = 0 /\ stored[Boot] = Fat =>
           stored'[Boot] = Fat /\ (stored[Data] = Row => stored'[Data] = Row)]_allvars

\* Does the card have a whole number of erase sectors?  Only such a one can be trimmed
\* from end to end, as format does.
WholeSectors == Size % EraseSize[kind] = 0

\* With a card that works, fs_init mounts it, if it was formatted or can be: a standard
\* card that is no whole number of erase sectors cannot, its first two blocks are
\* overwritten and the trim is then refused.  And whatever has failed before, a card that
\* is said to be mounted has a boot sector, a device that is initialised, a volume that is
\* this device's, and the mount point that paths are looked up in.
WorkingCardMounts ==
    fs = "up" /\ inits > 0 /\ faults = 0 /\ (WholeSectors \/ stored[Boot] = Fat) => sd_card_mounted

MountedIsUsable ==
    sd_card_mounted =>
        /\ stored[Boot] = Fat /\ ready /\ mounts = 1
        /\ id \in VolumeIds /\ slots[id] = inits

MountIsTrue == WorkingCardMounts /\ MountedIsUsable

\* fs_init returns, and so does every write.
StorageCallsEnd == fs # "up" ~> fs = "up"
=============================================================================
