----------------------------- MODULE BlkConfig -----------------------------
(***************************************************************************)
(* The capacity of the virtio disk: a 64-bit number in the configuration   *)
(* space, of which a load answers one word, and which changes when the     *)
(* image does.  Every load and every command looks at the image again      *)
(* (openfile); a change counts ConfigGeneration up and raises the          *)
(* configuration bit of InterruptStatus.                                   *)
(*                                                                         *)
(* The driver is outside the repository, and is that of Linux: it reads    *)
(* the generation, the two words, and the generation again, until the two  *)
(* agree; it acknowledges the bits it has read from InterruptStatus, and   *)
(* after a configuration interrupt it reads the capacity again.            *)
(***************************************************************************)
EXTENDS Integers

CONSTANTS
    WordValues,     \* the number of values of a word of the capacity
    ImageSizes,     \* the sizes disk.img may have, in sectors
    MaxResizes      \* bound: how often the image changes

ASSUME BlkAssumption ==
    /\ WordValues \in Nat \ {0}
    /\ ImageSizes \subseteq 1 .. WordValues * WordValues - 1
    /\ MaxResizes \in Nat

VARIABLES
    image,              \* the size of disk.img
    sector_count,       \* what openfile has seen last, over restarts
    ConfigGeneration, InterruptStatus,
    step,               \* where the driver is in its reading
    low, high, old,     \* what it has read
    capacity,           \* the capacity it uses, or None
    due,                \* a configuration interrupt has come since
    resizes, seen       \* history: the sizes sector_count has had

disk == <<image, resizes>>
blk == <<sector_count, ConfigGeneration, InterruptStatus, seen>>
driver == <<step, low, high, old, capacity, due>>
blkVars == <<disk, blk, driver>>

None == -1
Used == 1
Config == 2
Reading == {"generation", "low", "high", "again"}

BlkInit ==
    /\ image \in ImageSizes /\ sector_count = 0
    /\ ConfigGeneration = 0 /\ InterruptStatus = {}
    /\ step = "down" /\ low = 0 /\ high = 0 /\ old = 0
    /\ capacity = None /\ due = FALSE
    /\ resizes = 0 /\ seen = {}

-----------------------------------------------------------------------------
\* The host changes the image, at any time.
Resize ==
    /\ resizes < MaxResizes
    /\ image' \in ImageSizes \ {image}
    /\ resizes' = resizes + 1
    /\ UNCHANGED <<blk, driver>>

\* Bug: the interrupt is raised, and the generation stays.
ConfigChangedSilently(bits) ==
    /\ ConfigGeneration' = ConfigGeneration
    /\ InterruptStatus' = InterruptStatus \cup bits \cup {Config}

\* virtio_config_changed, and the bits a completion adds after it.
ConfigChanged(bits) ==
    /\ ConfigGeneration' = ConfigGeneration + 1
    /\ InterruptStatus' = InterruptStatus \cup bits \cup {Config}

\* openfile, before a load (no bits) or a command (the bit of its completion).
OpenFile(bits) ==
    /\ sector_count' = image
    /\ seen' = seen \cup {image}
    /\ \/ /\ image # sector_count
          /\ ConfigChanged(bits)
       \/ /\ image = sector_count
          /\ InterruptStatus' = InterruptStatus \cup bits
          /\ UNCHANGED ConfigGeneration

\* Status is stored as 0, and the driver goes on to read the capacity.
Probe ==
    /\ step = "down"
    /\ InterruptStatus' = {}
    /\ step' = "generation"
    /\ UNCHANGED <<disk, sector_count, ConfigGeneration, seen, low, high, old, capacity, due>>

\* A load at 0xfc.
LoadGeneration ==
    /\ step = "generation"
    /\ old' = ConfigGeneration
    /\ step' = "low"
    /\ UNCHANGED <<disk, blk, low, high, capacity, due>>

\* virtio_blk_config_load at 0 and at 4.
LoadLow ==
    /\ step = "low"
    /\ OpenFile({})
    /\ low' = sector_count' % WordValues
    /\ step' = "high"
    /\ UNCHANGED <<disk, high, old, capacity, due>>

LoadHigh ==
    /\ step = "high"
    /\ OpenFile({})
    /\ high' = sector_count' \div WordValues
    /\ step' = "again"
    /\ UNCHANGED <<disk, low, old, capacity, due>>

LoadAgain ==
    /\ step = "again"
    /\ old' = ConfigGeneration
    /\ \/ /\ old = ConfigGeneration
          /\ capacity' = high * WordValues + low
          /\ step' = "idle"
       \/ /\ old # ConfigGeneration
          /\ capacity' = capacity
          /\ step' = "low"
    /\ UNCHANGED <<disk, blk, low, high, due>>

\* A read or a write of a block: it completes inside the notify.
Command ==
    /\ step = "idle"
    /\ OpenFile({Used})
    /\ UNCHANGED <<disk, driver>>

\* The driver's interrupt handler, between any two of its steps.
Handle ==
    /\ step # "down"
    /\ InterruptStatus # {}
    /\ InterruptStatus' = {}
    /\ due' = (due \/ Config \in InterruptStatus)
    /\ UNCHANGED <<disk, sector_count, ConfigGeneration, seen, step, low, high, old, capacity>>

Reread ==
    /\ step = "idle" /\ due
    /\ due' = FALSE
    /\ step' = "generation"
    /\ UNCHANGED <<disk, blk, low, high, old, capacity>>

GuestStep ==
    Probe \/ LoadGeneration \/ LoadLow \/ LoadHigh \/ LoadAgain \/ Command \/ Handle \/ Reread

\* virtio_create makes the device anew; the image and sector_count stay.
BlkCreate ==
    /\ ConfigGeneration' = 0 /\ InterruptStatus' = {}
    /\ step' = "down" /\ capacity' = None /\ due' = FALSE
    /\ UNCHANGED <<disk, sector_count, seen, low, high, old>>

-----------------------------------------------------------------------------
\* A capacity the driver uses is a size the image has had, never the low word
\* of one and the high word of another, over the image's changes and restarts
\* of the machine; and as soon as the device knows another size, the driver
\* has been told, or is reading it (virtio.c:352, the generation).
CapacityWholeAndFresh ==
    capacity # None =>
        /\ capacity \in seen
        /\ \/ capacity = sector_count
           \/ Config \in InterruptStatus \/ due \/ step \in Reading

-----------------------------------------------------------------------------
(* What makes it inductive: words that were read under the generation the  *)
(* device still has are those of the size it still has.                    *)

BlkTypes ==
    /\ image \in ImageSizes /\ sector_count \in ImageSizes \cup {0}
    /\ seen \subseteq ImageSizes /\ capacity \in ImageSizes \cup {None}
    /\ ConfigGeneration \in Nat /\ old \in Nat
    /\ step \in Reading \cup {"down", "idle"}

WordsMatch ==
    /\ step \in Reading \ {"generation"} => old <= ConfigGeneration
    /\ step \in {"high", "again"} /\ old = ConfigGeneration =>
         sector_count \in seen /\ low = sector_count % WordValues
    /\ step = "again" /\ old = ConfigGeneration => high = sector_count \div WordValues

BlkIInv == BlkTypes /\ WordsMatch /\ CapacityWholeAndFresh
=============================================================================
