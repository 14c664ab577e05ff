------------------------------ MODULE DiskPrep ------------------------------
(***************************************************************************)
(* partition.sh and format.sh: lay out a card and make its file systems,   *)
(* on a computer that mounts partitions by itself (the root image has      *)
(* neither sfdisk nor mkfs).  Partition 4 is the extended one: its device  *)
(* file reaches only the record that leads to partitions 5 to 7.           *)
(***************************************************************************)
EXTENDS Integers, Sequences

CONSTANTS
  DiskSize,     \* size of the card in MB
  CleanBits,    \* second arguments of format.sh
  Mountable,    \* partitions that others mount when they find a file system
  UmountFails,  \* may a mounted partition be busy
  MaxRuns,      \* bound: calls of the two scripts
  MaxCuts       \* bound: how often the card is taken out or loses power

Part == 1..7

ASSUME DiskAssumption ==
  /\ DiskSize \in Nat /\ MaxRuns \in Nat /\ MaxCuts \in Nat
  /\ CleanBits \subseteq Nat
  /\ Mountable \subseteq Part
  /\ UmountFails \in BOOLEAN

VARIABLES
  written,  \* the partition table is on the card
  parts,    \* partitions the kernel knows
  fs,       \* file system of each partition; "record" at the start of 4
  mounts,   \* /proc/mounts: the mounted partitions in order
  pc,       \* label of the script that runs, "end" after one has ended
  script,   \* the one that runs or ran last
  bits,     \* its clean_bits
  found,    \* its is_mounted
  counter,  \* its counter, or the section of format.sh
  before,   \* fs when it was started
  used      \* calls and cuts so far

card == <<written, parts, fs>>
call == <<script, bits, found, before>>
vars == <<card, mounts, pc, call, counter, used>>

(* The lines for sfdisk, in MB: all its numbers are multiples of 2048 sectors.
   A line without a start takes the next free MB after the record of its
   logical partition, one without a size the rest. *)
Extended == 2176
RootSize == 2048
Logical(n) == Extended + n + (n - 1) * RootSize

(* Variant of Start: the sum of the comment on line 110, 61384 being a slip
   for 16384, is taken for the start (30 MB). *)
StartOverlaps == <<8, 30, 128, Extended, Logical(1), Logical(2), Logical(3)>>

Start == <<8, 68, 128, Extended, Logical(1), Logical(2), Logical(3)>>
Size == <<60, 60, 2048, DiskSize - Extended, RootSize, RootSize, DiskSize - Logical(3)>>
Fits == DiskSize > Logical(3)

(* Variant of Sections: boot2 is made like the partition after it. *)
SectionsExtBoot ==
  <<[bit |-> 1, part |-> 1, mkfs |-> "vfat"], [bit |-> 64, part |-> 2, mkfs |-> "ext4"],
    [bit |-> 2, part |-> 3, mkfs |-> "ext4"], [bit |-> 4, part |-> 5, mkfs |-> "ext4"],
    [bit |-> 128, part |-> 6, mkfs |-> "ext4"], [bit |-> 8, part |-> 7, mkfs |-> "vfat"]>>

(* The sections of format.sh: the bit, the partition and the command. *)
Sections ==
  <<[bit |-> 1, part |-> 1, mkfs |-> "vfat"], [bit |-> 64, part |-> 2, mkfs |-> "vfat"],
    [bit |-> 2, part |-> 3, mkfs |-> "ext4"], [bit |-> 4, part |-> 5, mkfs |-> "ext4"],
    [bit |-> 128, part |-> 6, mkfs |-> "ext4"], [bit |-> 8, part |-> 7, mkfs |-> "vfat"]>>

(* clean_bits & bit. *)
IsSet(bit) == (bits \div bit) % 2 = 1

Mounted == {mounts[i] : i \in 1..Len(mounts)}

(* A blank card, or one that both scripts have prepared. *)
Prepared == [p \in Part |-> IF p \in {1, 2, 7} THEN "vfat" ELSE IF p = 4 THEN "record" ELSE "ext4"]
Init ==
  /\ \/ written = FALSE /\ parts = {} /\ fs = [p \in Part |-> "none"]
     \/ written = TRUE /\ parts = Part /\ fs = Prepared /\ Fits
  /\ mounts = <<>> /\ pc = "idle" /\ script = "format" /\ bits = 0 /\ found = <<>> /\ counter = 1
  /\ before = fs /\ used = [runs |-> 0, cuts |-> 0]

-----------------------------------------------------------------------------

(* Variant of StartScript: the counter starts at 0. *)
StartAtZero ==
  /\ pc \in {"idle", "end"} /\ used.runs < MaxRuns
  /\ used' = [used EXCEPT !.runs = @ + 1]
  /\ \/ script' = "partition" /\ bits' = 0
     \/ script' = "format" /\ bits' \in CleanBits
  /\ found' = mounts /\ before' = fs /\ counter' = 0 /\ pc' = "umount"
  /\ UNCHANGED <<card, mounts>>

(* The arguments, and is_mounted at the top of check_mounted. *)
StartScript ==
  /\ pc \in {"idle", "end"} /\ used.runs < MaxRuns
  /\ used' = [used EXCEPT !.runs = @ + 1]
  /\ \/ script' = "partition" /\ bits' = 0
     \/ script' = "format" /\ bits' \in CleanBits
  /\ found' = mounts /\ before' = fs /\ counter' = 1 /\ pc' = "umount"
  /\ UNCHANGED <<card, mounts>>

(* umount of the next mount point, whose result is not looked at, or the end
   of the loop. *)
Unmount ==
  /\ pc = "umount"
  /\ \/ /\ counter <= Len(found) /\ pc' = "erase" /\ counter' = counter
        /\ \/ \E i \in 1..Len(mounts) :
                mounts[i] = found[counter] /\ mounts' = SubSeq(mounts, 1, i - 1) \o SubSeq(mounts, i + 1, Len(mounts))
           \/ (UmountFails \/ found[counter] \notin Mounted) /\ mounts' = mounts
     \/ /\ counter > Len(found) /\ counter' = 1 /\ mounts' = mounts
        /\ pc' = IF script = "partition" THEN "sfdisk" ELSE "format"
  /\ UNCHANGED <<card, call, used>>

(* Variant of Erase: the counter is advanced before dd. *)
EraseNext ==
  /\ pc = "erase" /\ pc' = "umount"
  /\ fs' = [p \in Part |-> IF p = counter + 1 /\ p \in parts THEN "none" ELSE fs[p]]
  /\ counter' = counter + 1
  /\ UNCHANGED <<written, parts, mounts, call, used>>

(* dd to the partition of this number. *)
Erase ==
  /\ pc = "erase" /\ pc' = "umount"
  /\ fs' = [p \in Part |-> IF p = counter /\ p \in parts THEN "none" ELSE fs[p]]
  /\ counter' = counter + 1
  /\ UNCHANGED <<written, parts, mounts, call, used>>

(* sfdisk refuses a card that is in use or too small; the script does not
   look at that. *)
Sfdisk ==
  /\ pc = "sfdisk" /\ pc' = "end"
  /\ \/ mounts = <<>> /\ Fits
        /\ written' = TRUE /\ parts' = Part /\ fs' = [fs EXCEPT ![4] = "record"]
     \/ (mounts # <<>> \/ ~Fits) /\ UNCHANGED card
  /\ UNCHANGED <<mounts, call, counter, used>>

(* One section: mkfs, which refuses a partition that is mounted. *)
FormatSection ==
  /\ pc = "format"
  /\ LET s == Sections[counter] IN
       fs' = IF IsSet(s.bit) /\ s.part \in parts /\ s.part \notin Mounted
             THEN [fs EXCEPT ![s.part] = s.mkfs] ELSE fs
  /\ counter' = counter + 1
  /\ pc' = IF counter = Len(Sections) THEN "end" ELSE "format"
  /\ UNCHANGED <<written, parts, mounts, call, used>>

(* The computer mounts what it finds. *)
Automount ==
  /\ \E p \in (Mountable \cap parts) \ Mounted :
       fs[p] \in {"vfat", "ext4"} /\ mounts' = Append(mounts, p)
  /\ UNCHANGED <<card, pc, call, counter, used>>

(* The card is taken out or loses power, and comes back: the kernel knows
   the partitions it can find.  A mkfs that was cut off leaves nothing. *)
Reinsert ==
  /\ used.cuts < MaxCuts /\ used' = [used EXCEPT !.cuts = @ + 1]
  /\ mounts' = <<>> /\ pc' = "idle"
  /\ parts' = {p \in Part : written /\ (p <= 4 \/ fs[4] = "record")}
  /\ \/ fs' = fs
     \/ pc = "format" /\ IsSet(Sections[counter].bit) /\ Sections[counter].part \in parts
        /\ fs' = [fs EXCEPT ![Sections[counter].part] = "none"]
  /\ script' = "format" /\ bits' = 0 /\ found' = <<>> /\ before' = fs' /\ counter' = 1
  /\ UNCHANGED written

Next == StartScript \/ Unmount \/ Erase \/ Sfdisk \/ FormatSection \/ Automount \/ Reinsert

Spec == Init /\ [][Next]_vars

-----------------------------------------------------------------------------

(* Every variable has its type. *)
TypeOK ==
  /\ written \in BOOLEAN /\ parts \in SUBSET Part
  /\ fs \in [Part -> {"none", "record", "vfat", "ext4"}] /\ before \in [Part -> {"none", "record", "vfat", "ext4"}]
  /\ mounts \in Seq(Part) /\ found \in Seq(Part)
  /\ pc \in {"idle", "umount", "erase", "sfdisk", "format", "end"} /\ script \in {"partition", "format"}
  /\ bits \in Nat /\ counter \in Nat \ {0}
  /\ used \in [runs: 0..MaxRuns, cuts: 0..MaxCuts]

(* The partitions that a call is asked to format. *)
Asked == {Sections[i].part : i \in {j \in 1..Len(Sections) : IsSet(Sections[j].bit)}}

(* check_mounted counts mount points and erases by number (partition.sh and
   format.sh, "4k erase on"), so partitions nobody asked for lose their
   file systems.  The damage is bounded: whatever is mounted, unmounted or
   busy meanwhile, when a script ends a partition that it was not asked to
   format and whose number is greater than the number of mount points it
   found has the file system it had, and so has the record of the logical
   partitions as long as fewer than four were found. *)
OnlyAskedOrCounted ==
  pc = "end" => \A p \in Part : p \notin Asked /\ p > Len(found) /\ before[p] # "none" => fs[p] = before[p]

(* "format done": unless something is mounted when format.sh ends, each
   partition it was asked for is one that ota_upgrade.sh (lines 226 and 274)
   and fstab can mount, although check_mounted may have erased it first and
   an earlier call may have been cut off. *)
AskedIsFormatted ==
  pc = "end" /\ script = "format" /\ mounts = <<>> =>
    \A p \in Asked \cap parts : fs[p] = Prepared[p]

(* The layout: partitions of the card do not overlap each other or the 8 MB
   "reserverd for uboot and environment var" (partition.sh line 93), where
   etc/fw_env.config has the environment (0xc0000); logical ones lie in the
   extended one, behind their records; all of them end on the card. *)
LayoutSound ==
  /\ \A p, q \in parts \ {4} : p < q => Start[p] + Size[p] <= Start[q]
  /\ \A p \in parts : 8 <= Start[p] /\ Size[p] > 0 /\ Start[p] + Size[p] <= DiskSize
  /\ \A p \in parts : p > 4 => Start[4] < Start[p] /\ Start[p] + Size[p] <= Start[4] + Size[4]

(* Why OnlyAskedOrCounted and AskedIsFormatted hold: how far each loop has
   come, and what it has not reached. *)
Kept(p) == before[p] # "none" => fs[p] = before[p]
LoopInv ==
  /\ fs[4] \in {"none", "record"} /\ before[4] \in {"none", "record"}
  /\ (written \/ parts # {}) => Fits
  /\ pc = "umount" => counter <= Len(found) + 1
  /\ pc = "erase" => counter <= Len(found)
  /\ pc = "format" => counter <= Len(Sections)
  /\ pc \in {"umount", "erase"} => \A p \in Part : p >= counter => Kept(p)
  /\ pc = "sfdisk" => script = "partition" /\ \A p \in Part : p > Len(found) => Kept(p)
  /\ pc \in {"format", "end"} => \A p \in Part : p > Len(found) /\ p \notin Asked => Kept(p)
  /\ pc = "format" /\ mounts = <<>> =>
       \A i \in 1..Len(Sections) :
         i < counter /\ IsSet(Sections[i].bit) /\ Sections[i].part \in parts =>
           fs[Sections[i].part] = Prepared[Sections[i].part]

(* "We will need to unmount and kill them by writing 4k zeros to the
   partitions that were found" (partition.sh lines 54 and 55): what
   check_mounted erases was found mounted. *)
ErasedWereFound ==
  pc \in {"umount", "erase"} => \A p \in Part : fs[p] # before[p] => \E i \in 1..Len(found) : found[i] = p
=============================================================================
