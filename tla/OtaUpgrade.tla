----------------------------- MODULE OtaUpgrade -----------------------------
(***************************************************************************)
(* prepare_fw_install.sh and the ota_upgrade.sh it runs: unpack the        *)
(* downloaded package, extract its images into the partitions that the     *)
(* environment does not select, select them, and leave Status.txt for the  *)
(* next boot.  One action per command whose effect survives a power cut.   *)
(***************************************************************************)
EXTENDS OtaState

(* The section the script enters next.  The sections of the data and of the
   application archive are skipped when the archive is not in the package. *)
AfterData(bits) == IF "app" \in bits /\ "app" \in extract.files THEN "app_tar" ELSE "switch"
AfterRoot(bits) == IF "data" \in bits /\ "data" \in extract.files THEN "data_tar" ELSE AfterData(bits)
AfterBoot(bits) == IF "rootfs" \in bits THEN "root_tar" ELSE AfterRoot(bits)
AfterRead(bits) == IF "boot" \in bits THEN "boot_tar" ELSE AfterBoot(bits)

(* mount and tar: everything extracted; a member of Faults; or no archive. *)
Outcomes(file) ==
  IF file \in extract.files
  THEN {o \in {"ok", "tar", "kill", "mount"} : o = "ok" \/ o \in Faults}
  ELSE {"nofile"}

(* tar writes into the partition unless it was not mounted or there is no
   archive to read. *)
Written(o) == o \in {"ok", "tar", "kill"}

(* Without a mounted partition tar fills the directory of the mount point,
   which is in the running root file system. *)
Strayed(file) == [rootfs EXCEPT ![running.rootpart].stray = @ \cup {file}]

(* "$? -eq 1" of tar. *)
TarFailed(o) == o \in {"tar", "nofile"}

-----------------------------------------------------------------------------

(* The application starts the installer on a package it has downloaded and
   verified; the previous extraction is removed. *)
StartInstall(p) ==
  /\ ServicesUp /\ upc = "idle" /\ used.installs < MaxInstalls
  /\ used' = [used EXCEPT !.installs = @ + 1]
  /\ extract' = NoPackage
  /\ ureg' = [IdleReg EXCEPT !.pkg = p]
  /\ upc' = "unzip"
  /\ UNCHANGED <<flash, status, info, version, devinfo, dgstatus, power, fin, downgrader>>

(* unzip; when it fails the installer exits and nothing reboots. *)
Unzip ==
  /\ upc = "unzip"
  /\ \/ extract' = ureg.pkg /\ upc' = "read_boot" /\ ureg' = ureg
     \/ "unzip" \in Faults /\ extract' = extract /\ upc' = "idle" /\ ureg' = IdleReg
  /\ UNCHANGED <<flash, status, info, version, devinfo, dgstatus, power, fin, downgrader, used>>

(* Read upgrade_bits and bootpart; without bits the script reboots and exits. *)
ReadBootpart ==
  /\ upc = "read_boot"
  /\ \/ /\ extract.info = {}
        /\ rebooting' = TRUE /\ upc' = "idle" /\ ureg' = IdleReg
     \/ \E b \in extract.info :
          /\ ureg' = [ureg EXCEPT !.bits = b, !.bootpart = OtherBoot(env.bootpart)]
          /\ upc' = "read_root" /\ rebooting' = rebooting
  /\ UNCHANGED <<flash, files, running, fin, downgrader, used>>

(* Variant of ReadRootpart: upgrade into the partition in use. *)
ReadRootpartCurrent ==
  /\ upc = "read_root"
  /\ ureg' = [ureg EXCEPT !.rootpart = env.rootpart]
  /\ upc' = AfterRead(ureg.bits)
  /\ UNCHANGED <<flash, files, power, fin, downgrader, used>>

ReadRootpart ==
  /\ upc = "read_root"
  /\ ureg' = [ureg EXCEPT !.rootpart = OtherRoot(env.rootpart)]
  /\ upc' = AfterRead(ureg.bits)
  /\ UNCHANGED <<flash, files, power, fin, downgrader, used>>

-----------------------------------------------------------------------------

(* Variant of BootTar: bootpart is switched before the sync. *)
BootTarUnsynced ==
  /\ upc = "boot_tar"
  /\ bootfs' = [bootfs EXCEPT ![ureg.bootpart] = Torn]
  /\ ureg' = [ureg EXCEPT !.bootfs_updated = TRUE]
  /\ upc' = "set_part"
  /\ UNCHANGED <<env, rootfs, files, power, fin, downgrader, used>>

(* mount and tar of the boot image.  On status 1 update_error asks for a
   reboot and returns, the restore from /backup finds no archive, and the
   script carries on. *)
BootTar ==
  /\ upc = "boot_tar"
  /\ \E o \in Outcomes("boot") :
       /\ bootfs' = IF Written(o) THEN [bootfs EXCEPT ![ureg.bootpart] = Torn] ELSE bootfs
       /\ rootfs' = IF o = "mount" THEN Strayed("boot") ELSE rootfs
       /\ ureg' = [ureg EXCEPT !.tar = o]
       /\ rebooting' = (rebooting \/ TarFailed(o))
  /\ upc' = "boot_sync"
  /\ UNCHANGED <<env, files, running, fin, downgrader, used>>

(* sync and umount: from here on the extraction survives a power cut. *)
BootSync ==
  /\ upc = "boot_sync"
  /\ bootfs' = IF ureg.tar = "ok" THEN [bootfs EXCEPT ![ureg.bootpart] = extract.release] ELSE bootfs
  /\ ureg' = [ureg EXCEPT !.bootfs_updated = TRUE, !.section = "boot", !.attempt = 1]
  /\ upc' = "set_part"
  /\ UNCHANGED <<env, rootfs, files, power, fin, downgrader, used>>

(* Variant of RootTar: rootpart is switched without a sync. *)
RootTarUnsynced ==
  /\ upc = "root_tar"
  /\ rootfs' = [rootfs EXCEPT ![ureg.rootpart].base = Torn, ![ureg.rootpart].app = Torn]
  /\ ureg' = [ureg EXCEPT !.rootfs_updated = TRUE]
  /\ upc' = AfterRoot(ureg.bits)
  /\ UNCHANGED <<env, bootfs, files, power, fin, downgrader, used>>

(* The root image holds the base system and the application. *)
RootTar ==
  /\ upc = "root_tar"
  /\ \E o \in Outcomes("rootfs") :
       /\ \/ Written(o) /\ rootfs' = [rootfs EXCEPT ![ureg.rootpart].base = Torn, ![ureg.rootpart].app = Torn]
          \/ o = "mount" /\ rootfs' = Strayed("rootfs")
          \/ o = "nofile" /\ rootfs' = rootfs
       /\ ureg' = [ureg EXCEPT !.tar = o]
       /\ rebooting' = (rebooting \/ TarFailed(o))
  /\ upc' = "root_sync"
  /\ UNCHANGED <<env, bootfs, files, running, fin, downgrader, used>>

RootSync ==
  /\ upc = "root_sync"
  /\ rootfs' = IF ureg.tar = "ok"
               THEN [rootfs EXCEPT ![ureg.rootpart].base = extract.release,
                                   ![ureg.rootpart].app = extract.release]
               ELSE rootfs
  /\ ureg' = [ureg EXCEPT !.rootfs_updated = TRUE]
  /\ upc' = AfterRoot(ureg.bits)
  /\ UNCHANGED <<env, bootfs, files, power, fin, downgrader, used>>

(* Partition 7 is FAT (format.sh), so mounting it as ext4 fails; /data, which is
   bound instead, is no mount point of fstab either.  An error of tar is only
   logged. *)
DataTar ==
  /\ upc = "data_tar"
  /\ \E o \in Outcomes("data") \ {"mount"} : ureg' = [ureg EXCEPT !.tar = o]
  /\ rootfs' = Strayed("data")
  /\ upc' = "data_sync"
  /\ UNCHANGED <<env, bootfs, files, power, fin, downgrader, used>>

DataSync ==
  /\ upc = "data_sync"
  /\ ureg' = [ureg EXCEPT !.rootfs_updated = TRUE]
  /\ upc' = AfterData(ureg.bits)
  /\ UNCHANGED <<flash, files, power, fin, downgrader, used>>

(* The application archive is unpacked over what the partition holds. *)
AppTar ==
  /\ upc = "app_tar"
  /\ \E o \in Outcomes("app") :
       /\ \/ Written(o) /\ rootfs' = [rootfs EXCEPT ![ureg.rootpart].app = Torn]
          \/ o = "mount" /\ rootfs' = Strayed("app")
       /\ ureg' = [ureg EXCEPT !.tar = o]
       /\ rebooting' = (rebooting \/ TarFailed(o))
  /\ upc' = "app_sync"
  /\ UNCHANGED <<env, bootfs, files, running, fin, downgrader, used>>

AppSync ==
  /\ upc = "app_sync"
  /\ rootfs' = IF ureg.tar = "ok" THEN [rootfs EXCEPT ![ureg.rootpart].app = extract.release] ELSE rootfs
  /\ ureg' = [ureg EXCEPT !.rootfs_updated = TRUE]
  /\ upc' = "switch"
  /\ UNCHANGED <<env, bootfs, files, power, fin, downgrader, used>>

-----------------------------------------------------------------------------

(* What follows the last section: select the new root partition if any
   section set rootfs_updated, otherwise go on to Status.txt; an upgrade
   that updated nothing only reboots. *)
AfterSwitch(r) == IF r.rootfs_updated \/ r.bootfs_updated THEN "rm_status" ELSE "reboot"

Switch ==
  /\ upc = "switch"
  /\ \/ ureg.rootfs_updated /\ upc' = "set_part" /\ ureg' = [ureg EXCEPT !.section = "root", !.attempt = 1]
     \/ ~ureg.rootfs_updated /\ upc' = AfterSwitch(ureg) /\ ureg' = ureg
  /\ UNCHANGED <<flash, files, power, fin, downgrader, used>>

(* Variant of SetPart: the section of the boot image writes the number of
   the root partition into bootpart. *)
SetPartSwapped ==
  /\ upc = "set_part"
  /\ SetEnv(IF ureg.section = "boot" THEN "bootpart" ELSE "rootpart", ureg.rootpart)
  /\ upc' = "set_bits"
  /\ UNCHANGED <<bootfs, rootfs, files, power, ureg, fin, downgrader, used>>

(* The three fw_setenv of a section. *)
SetPart ==
  /\ upc = "set_part"
  /\ \/ ureg.section = "boot" /\ SetEnv("bootpart", ureg.bootpart)
     \/ ureg.section = "root" /\ SetEnv("rootpart", ureg.rootpart)
  /\ upc' = "set_bits"
  /\ UNCHANGED <<bootfs, rootfs, files, power, ureg, fin, downgrader, used>>

SetBits ==
  /\ upc = "set_bits"
  /\ SetEnv("upgrade_bits", ureg.bits)
  /\ upc' = "set_retry"
  /\ UNCHANGED <<bootfs, rootfs, files, power, ureg, fin, downgrader, used>>

AfterSetEnv == IF ureg.section = "boot" THEN AfterBoot(ureg.bits) ELSE AfterSwitch(ureg)

SetRetry ==
  /\ upc = "set_retry"
  /\ SetEnv("otaRetry", OtaRetry)
  /\ upc' = IF ureg.attempt = 1 THEN "verify" ELSE AfterSetEnv
  /\ UNCHANGED <<bootfs, rootfs, files, power, ureg, fin, downgrader, used>>

(* Read the partition back; the three commands are repeated once if it is
   not the new one. *)
Selected(r) ==
  IF r.section = "boot" THEN env.bootpart = r.bootpart ELSE env.rootpart = r.rootpart

Verify ==
  /\ upc = "verify"
  /\ \/ Selected(ureg) /\ upc' = AfterSetEnv /\ ureg' = ureg
     \/ ~Selected(ureg) /\ upc' = "set_part" /\ ureg' = [ureg EXCEPT !.attempt = 2]
  /\ UNCHANGED <<flash, files, power, fin, downgrader, used>>

-----------------------------------------------------------------------------

(* Status.txt, one command at a time; /app_data is mounted sync. *)
RmStatus ==
  /\ upc = "rm_status"
  /\ status' = NoStatus
  /\ upc' = "touch"
  /\ UNCHANGED <<flash, info, extract, version, devinfo, dgstatus, power, ureg, fin, downgrader, used>>

Touch ==
  /\ upc = "touch"
  /\ status' = [status EXCEPT !.exists = TRUE]
  /\ upc' = "exp_boot"
  /\ UNCHANGED <<flash, info, extract, version, devinfo, dgstatus, power, ureg, fin, downgrader, used>>

ExpectedBootpart ==
  /\ upc = "exp_boot"
  /\ status' = Appended(status, <<"expected_bootpart", env.bootpart>>)
  /\ upc' = "exp_root"
  /\ UNCHANGED <<flash, info, extract, version, devinfo, dgstatus, power, ureg, fin, downgrader, used>>

ExpectedRootpart ==
  /\ upc = "exp_root"
  /\ status' = Appended(status, <<"expected_rootpart", env.rootpart>>)
  /\ upc' = "completed"
  /\ UNCHANGED <<flash, info, extract, version, devinfo, dgstatus, power, ureg, fin, downgrader, used>>

OtaCompleted ==
  /\ upc = "completed"
  /\ status' = Appended(status, <<"ota_completed", 0>>)
  /\ upc' = "cp_trunc"
  /\ UNCHANGED <<flash, info, extract, version, devinfo, dgstatus, power, ureg, fin, downgrader, used>>

(* cp of upgrade_info.txt: open for writing, then the content. *)
CopyInfo ==
  /\ upc \in {"cp_trunc", "cp_fill"}
  /\ info' = IF upc = "cp_trunc" THEN {} ELSE extract.info
  /\ upc' = IF upc = "cp_trunc" THEN "cp_fill" ELSE "reboot"
  /\ UNCHANGED <<flash, status, extract, version, devinfo, dgstatus, power, ureg, fin, downgrader, used>>

(* Variant of Reboot: the script ends without it, as ota_downgrade.sh does. *)
NoReboot ==
  /\ upc = "reboot"
  /\ upc' = "idle" /\ ureg' = IdleReg
  /\ UNCHANGED <<flash, files, power, fin, downgrader, used>>

Reboot ==
  /\ upc = "reboot"
  /\ rebooting' = TRUE
  /\ upc' = "idle" /\ ureg' = IdleReg
  /\ UNCHANGED <<flash, files, running, fin, downgrader, used>>

UpgradeStep ==
  \/ Unzip \/ ReadBootpart \/ ReadRootpart
  \/ BootTar \/ BootSync \/ RootTar \/ RootSync \/ DataTar \/ DataSync \/ AppTar \/ AppSync
  \/ Switch \/ SetPart \/ SetBits \/ SetRetry \/ Verify
  \/ RmStatus \/ Touch \/ ExpectedBootpart \/ ExpectedRootpart \/ OtaCompleted \/ CopyInfo \/ Reboot
=============================================================================
