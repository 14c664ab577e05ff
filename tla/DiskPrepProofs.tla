-------------------------- MODULE DiskPrepProofs ----------------------------
(***************************************************************************)
(* Theorems about DiskPrep for cards of any size, any clean bits, any      *)
(* partitions that others mount, in any order, and any number of calls of  *)
(* the scripts and of power cuts.                                          *)
(***************************************************************************)
EXTENDS DiskPrep, TLAPS

(* The lines that partition.sh gives to sfdisk. *)
LEMMA Lines ==
  /\ Start[1] = 8 /\ Start[2] = 68 /\ Start[3] = 128 /\ Start[4] = 2176
  /\ Start[5] = 2177 /\ Start[6] = 4226 /\ Start[7] = 6275
  /\ Size[1] = 60 /\ Size[2] = 60 /\ Size[3] = 2048 /\ Size[4] = DiskSize - 2176
  /\ Size[5] = 2048 /\ Size[6] = 2048 /\ Size[7] = DiskSize - 6275
  /\ Fits => DiskSize > 6275
BY DiskAssumption DEF Start, Size, Fits, Logical, Extended, RootSize

(* A card that is large enough has room for all of them. *)
LEMMA Layout ==
  ASSUME Fits, NEW S \in SUBSET Part
  PROVE  /\ \A p, q \in S \ {4} : p < q => Start[p] + Size[p] <= Start[q]
         /\ \A p \in S : 8 <= Start[p] /\ Size[p] > 0 /\ Start[p] + Size[p] <= DiskSize
         /\ \A p \in S : p > 4 => Start[4] < Start[p] /\ Start[p] + Size[p] <= Start[4] + Size[4]
<1>1. DiskSize \in Nat /\ DiskSize > 6275
  BY Lines, DiskAssumption
<1>2. \A p \in S : p \in {1, 2, 3, 4, 5, 6, 7}
  <2>1. \A p \in 1..7 : p \in {1, 2, 3, 4, 5, 6, 7}
    OBVIOUS
  <2>2. \A p \in S : p \in 1..7
    BY Zenon DEF Part
  <2>. QED BY <2>1, <2>2, Zenon
<1>3. \A p \in {1, 2, 3, 5, 6} : Start[p] \in Nat /\ Size[p] \in Nat /\ Start[p] + Size[p] <= Start[7]
                                 /\ (p < 6 => Start[p] + Size[p] <= Start[6])
                                 /\ (p < 5 => Start[p] + Size[p] <= Start[5])
                                 /\ (p < 3 => Start[p] + Size[p] <= Start[3])
                                 /\ (p < 2 => Start[p] + Size[p] <= Start[2])
  BY Lines
<1>4. \A p, q \in {1, 2, 3, 5, 6, 7} : p < q => Start[p] + Size[p] <= Start[q]
  BY <1>3
<1>5. \A p \in {1, 2, 3, 4, 5, 6, 7} : 8 <= Start[p] /\ Size[p] > 0 /\ Start[p] + Size[p] <= DiskSize
  BY <1>1, Lines
<1>6. \A p \in {5, 6, 7} : Start[4] < Start[p] /\ Start[p] + Size[p] <= Start[4] + Size[4]
  BY <1>1, Lines
<1>. QED BY <1>2, <1>4, <1>5, <1>6

(* The sections of format.sh make what the devices mount, never partition 4. *)
LEMMA SectionFacts ==
  /\ Len(Sections) = 6
  /\ \A i \in 1..6 : /\ Sections[i].part \in Part \ {4}
                     /\ Sections[i].mkfs = Prepared[Sections[i].part]
                     /\ Sections[i].mkfs \in {"vfat", "ext4"}
                     /\ Sections[i].bit \in Nat
<1>1. Len(Sections) = 6
  BY DEF Sections
<1>2. ASSUME NEW i \in 1..6
      PROVE  /\ Sections[i].part \in Part \ {4} /\ Sections[i].mkfs = Prepared[Sections[i].part]
             /\ Sections[i].mkfs \in {"vfat", "ext4"} /\ Sections[i].bit \in Nat
  <2>1. i \in {1, 2, 3, 4, 5, 6}
    OBVIOUS
  <2>. QED BY <2>1 DEF Sections, Prepared, Part
<1>. QED BY <1>1, <1>2

-----------------------------------------------------------------------------

(* The inductive invariant. *)
IInv == TypeOK /\ LoopInv /\ AskedIsFormatted

(* It holds of a blank and of a prepared card. *)
LEMMA InitInv == Init => IInv
<1> SUFFICES ASSUME Init PROVE IInv OBVIOUS
<1>1. Prepared \in [Part -> {"none", "record", "vfat", "ext4"}] /\ Prepared[4] = "record"
  BY DEF Prepared, Part
<1>2. fs \in [Part -> {"none", "record", "vfat", "ext4"}] /\ fs[4] \in {"none", "record"} /\ written \in BOOLEAN
  <2>1. 4 \in Part
    BY DEF Part
  <2>. QED BY <1>1, <2>1 DEF Init
<1>3. used \in [runs: 0..MaxRuns, cuts: 0..MaxCuts]
  BY DiskAssumption DEF Init
<1>4. TypeOK
  BY <1>2, <1>3 DEF Init, TypeOK, Part
<1>. QED BY <1>2, <1>4 DEF Init, IInv, LoopInv, AskedIsFormatted

(* It is preserved by every step. *)
LEMMA InvStep == IInv /\ [Next]_vars => IInv'
<1> SUFFICES ASSUME IInv, [Next]_vars PROVE IInv' OBVIOUS
<1> USE DEF card, call, vars, IInv
<1>0. UNCHANGED bits => Asked' = Asked /\ \A b \in Nat : IsSet(b)' <=> IsSet(b)
  BY DEF Asked, IsSet
<1>1. CASE StartScript
  <2>1. used' \in [runs: 0..MaxRuns, cuts: 0..MaxCuts]
    <3>1. used.runs < MaxRuns /\ used' = [used EXCEPT !.runs = @ + 1]
      BY <1>1 DEF StartScript
    <3>. QED BY <3>1, DiskAssumption DEF TypeOK
  <2>2. bits' \in Nat /\ script' \in {"partition", "format"}
    BY <1>1, DiskAssumption DEF StartScript
  <2>3. TypeOK'
    BY <1>1, <2>1, <2>2 DEF StartScript, TypeOK
  <2>4. LoopInv'
    BY <1>1, <2>3 DEF StartScript, LoopInv, TypeOK, Kept
  <2>. QED BY <1>1, <2>3, <2>4 DEF StartScript, AskedIsFormatted
<1>2. CASE Unmount
  <2>1. mounts' \in Seq(Part)
    <3>1. CASE mounts' = mounts
      BY <3>1 DEF TypeOK
    <3>2. ASSUME NEW i \in 1..Len(mounts), mounts' = SubSeq(mounts, 1, i - 1) \o SubSeq(mounts, i + 1, Len(mounts))
          PROVE  mounts' \in Seq(Part)
      <4>1. SubSeq(mounts, 1, i - 1) \in Seq(Part) /\ SubSeq(mounts, i + 1, Len(mounts)) \in Seq(Part)
        BY DEF TypeOK
      <4>. QED BY <3>2, <4>1
    <3>. QED BY <1>2, <3>1, <3>2 DEF Unmount
  <2>2. /\ pc = "umount" /\ UNCHANGED <<written, parts, fs, script, bits, found, before, used>>
        /\ \/ counter <= Len(found) /\ pc' = "erase" /\ counter' = counter
           \/ counter > Len(found) /\ counter' = 1 /\ pc' = IF script = "partition" THEN "sfdisk" ELSE "format"
    BY <1>2 DEF Unmount
  <2>3. TypeOK'
    BY <2>1, <2>2 DEF TypeOK
  <2>4. LoopInv'
    <3>1. CASE counter <= Len(found)
      BY <2>2, <3>1 DEF LoopInv, TypeOK, Kept
    <3>2. CASE counter > Len(found)
      <4>1. counter = Len(found) + 1 /\ counter' = 1
        BY <2>2, <3>2 DEF LoopInv, TypeOK
      <4>2. \A p \in Part : p > Len(found) => Kept(p)'
        BY <2>2, <4>1 DEF LoopInv, TypeOK, Kept, Part
      <4>3. counter' <= Len(Sections) /\ \A i \in 1..Len(Sections) : ~(i < counter')
        BY <4>1, SectionFacts
      <4>4. pc' \in {"sfdisk", "format"} /\ (pc' = "sfdisk" => script' = "partition")
        BY <2>2, <3>2, <4>1 DEF TypeOK
      <4>. QED BY <2>2, <4>2, <4>3, <4>4 DEF LoopInv
    <3>. QED BY <3>1, <3>2 DEF TypeOK
  <2>. QED BY <2>2, <2>3, <2>4 DEF AskedIsFormatted
<1>3. CASE Erase
  <2>1. TypeOK'
    BY <1>3 DEF Erase, TypeOK
  <2>2. \A p \in Part : p >= counter' => fs'[p] = fs[p]
    BY <1>3 DEF Erase, TypeOK, Part
  <2>3. fs'[4] \in {"none", "record"}
    BY <1>3 DEF Erase, LoopInv, Part
  <2>4. LoopInv'
    BY <1>3, <2>2, <2>3 DEF Erase, LoopInv, TypeOK, Kept, Part
  <2>. QED BY <1>3, <2>1, <2>4 DEF Erase, AskedIsFormatted
<1>4. CASE Sfdisk
  <2>1. TypeOK'
    BY <1>4 DEF Sfdisk, TypeOK
  <2>2. \A p \in Part : p # 4 => fs'[p] = fs[p]
    BY <1>4 DEF Sfdisk, TypeOK
  <2>3. fs'[4] \in {"none", "record"} /\ (fs[4] = "record" => fs'[4] = "record")
    BY <1>4 DEF Sfdisk, TypeOK, LoopInv, Part
  <2>4. \A p \in Part : p > Len(found) => Kept(p)'
    BY <1>4, <2>2, <2>3 DEF Sfdisk, LoopInv, Kept
  <2>5. (written' \/ parts' # {}) => Fits
    BY <1>4 DEF Sfdisk, LoopInv
  <2>6. LoopInv'
    BY <1>4, <2>3, <2>4, <2>5 DEF Sfdisk, LoopInv
  <2>7. AskedIsFormatted'
    BY <1>4 DEF Sfdisk, LoopInv, AskedIsFormatted
  <2>. QED BY <2>1, <2>6, <2>7
<1>5. CASE FormatSection
  <2> DEFINE s == Sections[counter]
  <2>1. counter \in 1..6 /\ s.part \in Part \ {4} /\ s.mkfs = Prepared[s.part] /\ s.mkfs \in {"vfat", "ext4"}
        /\ s.bit \in Nat
    <3>1. counter \in Nat \ {0} /\ counter <= Len(Sections)
      BY <1>5 DEF FormatSection, LoopInv, TypeOK
    <3>2. counter \in 1..6
      BY <3>1, SectionFacts
    <3>. QED BY <3>2, SectionFacts
  <2>2. /\ fs' \in [Part -> {"none", "record", "vfat", "ext4"}]
        /\ \A p \in Part : fs'[p] # fs[p] => p = s.part /\ IsSet(s.bit) /\ fs'[p] = s.mkfs
        /\ mounts = <<>> /\ IsSet(s.bit) /\ s.part \in parts => fs'[s.part] = s.mkfs
    BY <1>5, <2>1 DEF FormatSection, TypeOK, Mounted
  <2>3. s.part \in Asked \/ ~IsSet(s.bit)
    BY <2>1, SectionFacts DEF Asked
  <2>4. TypeOK'
    BY <1>5, <2>2 DEF FormatSection, TypeOK
  <2>5. \A p \in Part : p > Len(found) /\ p \notin Asked => Kept(p)'
    BY <1>5, <2>2, <2>3 DEF FormatSection, LoopInv, Kept
  <2>6. ASSUME mounts = <<>>, NEW i \in 1..Len(Sections), i < counter', IsSet(Sections[i].bit), Sections[i].part \in parts
        PROVE  fs'[Sections[i].part] = Prepared[Sections[i].part]
    <3>1. Sections[i].part \in Part
      BY <2>6, SectionFacts
    <3>2. i < counter \/ i = counter
      BY <1>5, <2>1, <2>6, SectionFacts DEF FormatSection
    <3>. QED BY <1>5, <2>1, <2>2, <2>6, <3>1, <3>2 DEF FormatSection, LoopInv
  <2>7. fs'[4] \in {"none", "record"}
    BY <2>1, <2>2 DEF LoopInv, Part
  <2>8. /\ \A b \in Nat : IsSet(b)' <=> IsSet(b)
        /\ Asked' = Asked
    BY <1>0, <1>5 DEF FormatSection
  <2>9. LoopInv'
    <3>1. pc' = "format" => counter' <= Len(Sections)
      BY <1>5, <2>1, SectionFacts DEF FormatSection
    <3>2. pc' \in {"format", "end"} /\ UNCHANGED <<written, parts, mounts, found, before>>
      BY <1>5 DEF FormatSection, call
    <3>3. pc' = "format" /\ mounts' = <<>> =>
            \A i \in 1..Len(Sections) :
              i < counter' /\ IsSet(Sections[i].bit)' /\ Sections[i].part \in parts' =>
                fs'[Sections[i].part] = Prepared[Sections[i].part]
      <4>1. \A i \in 1..Len(Sections) : IsSet(Sections[i].bit)' <=> IsSet(Sections[i].bit)
        BY <2>8, SectionFacts
      <4>. QED BY <2>6, <3>2, <4>1
    <3>. QED BY <2>5, <2>7, <2>8, <3>1, <3>2, <3>3 DEF LoopInv
  <2>10. AskedIsFormatted'
    <3> SUFFICES ASSUME pc' = "end", mounts = <<>>, NEW p \in Asked \cap parts PROVE fs'[p] = Prepared[p]
      BY <1>5, <2>8 DEF FormatSection, AskedIsFormatted
    <3>1. PICK i \in 1..Len(Sections) : IsSet(Sections[i].bit) /\ p = Sections[i].part
      BY DEF Asked
    <3>2. i < counter'
      BY <1>5, <2>1, <3>1, SectionFacts DEF FormatSection
    <3>. QED BY <2>6, <3>1, <3>2
  <2>. QED BY <2>4, <2>9, <2>10
<1>6. CASE Automount
  <2>1. mounts' \in Seq(Part) /\ mounts' # <<>>
    BY <1>6 DEF Automount, TypeOK
  <2>2. TypeOK'
    BY <1>6, <2>1 DEF Automount, TypeOK
  <2>3. LoopInv'
    BY <1>0, <1>6, <2>1 DEF Automount, LoopInv, Kept
  <2>. QED BY <1>6, <2>1, <2>2, <2>3 DEF Automount, AskedIsFormatted
<1>7. CASE Reinsert
  <2>1. used' \in [runs: 0..MaxRuns, cuts: 0..MaxCuts]
    BY <1>7, DiskAssumption DEF Reinsert, TypeOK
  <2>2. fs' \in [Part -> {"none", "record", "vfat", "ext4"}] /\ fs'[4] \in {"none", "record"}
    <3>1. 4 \in Part /\ (fs' = fs \/ \E p : fs' = [fs EXCEPT ![p] = "none"])
      BY <1>7 DEF Reinsert, Part
    <3>. QED BY <3>1 DEF TypeOK, LoopInv
  <2>3. TypeOK'
    BY <1>7, <2>1, <2>2 DEF Reinsert, TypeOK
  <2>4. LoopInv'
    BY <1>7, <2>2 DEF Reinsert, LoopInv
  <2>. QED BY <1>7, <2>3, <2>4 DEF Reinsert, AskedIsFormatted
<1>8. CASE UNCHANGED vars
  <2>1. TypeOK' /\ UNCHANGED bits
    BY <1>8 DEF TypeOK
  <2>2. LoopInv'
    BY <1>8 DEF LoopInv, Kept, Asked, IsSet
  <2>3. AskedIsFormatted'
    BY <1>8 DEF AskedIsFormatted, Asked, IsSet
  <2>. QED BY <2>1, <2>2, <2>3
<1>. QED BY <1>1, <1>2, <1>3, <1>4, <1>5, <1>6, <1>7, <1>8 DEF Next

(* partition.sh: whatever the size of the card, partitions that exist overlap
   neither each other nor the space of the boot loader. *)
THEOREM SoundLayout == Spec => []LayoutSound
<1>1. IInv => LayoutSound
  <2> SUFFICES ASSUME IInv PROVE LayoutSound OBVIOUS
  <2>1. CASE parts = {}
    BY <2>1 DEF LayoutSound
  <2>2. CASE parts # {}
    BY <2>2, Layout DEF IInv, LoopInv, TypeOK, LayoutSound
  <2>. QED BY <2>1, <2>2
<1>. QED BY <1>1, InitInv, InvStep, PTL DEF Spec

(* check_mounted of both scripts: the erasing by number never goes beyond the
   number of mount points that were found. *)
THEOREM BoundedErase == Spec => []OnlyAskedOrCounted
<1>1. IInv => OnlyAskedOrCounted
  BY DEF IInv, LoopInv, OnlyAskedOrCounted, Kept
<1>. QED BY <1>1, InitInv, InvStep, PTL DEF Spec

(* format.sh makes the file systems that are asked for, if they can be made. *)
THEOREM FormatsAsked == Spec => []AskedIsFormatted
<1>1. IInv => AskedIsFormatted
  BY DEF IInv
<1>. QED BY <1>1, InitInv, InvStep, PTL DEF Spec

(* Every variable of the two scripts keeps its type. *)
THEOREM DiskTypes == Spec => []TypeOK
<1>1. IInv => TypeOK
  BY DEF IInv
<1>. QED BY <1>1, InitInv, InvStep, PTL DEF Spec
=============================================================================
