# Verification of the datalogger root file system

The repository is the root file system of an i.MX7 data logger. Its own code is
a set of shell scripts under `src/rootfs/usr/sbin`; the application
(`mainProject`), the watchdog (`dogApp`), `mqttSendMessage`, `fw_setenv` and
U-Boot are binaries or not in the repository, and most of its other text is
headers and data of third-party packages. The scripts that carry risk replace
the firmware, keep settings across such a replacement, prepare the card, and
finish the installation of packages at the first boot. This project models them
and checks and proves what they keep true while power is cut, commands fail and
scripts overlap.

## Parts and modules

| part | source | module |
|---|---|---|
| what an A/B device promises | abstract | `ABSlots` |
| installation | `prepare_fw_install.sh`, `ota_upgrade.sh` | `OtaUpgrade` |
| completion at boot | `otaFinishup.sh` | `OtaFinishup` |
| downgrade | `ota_downgrade.sh` | `OtaDowngrade` |
| the update as a whole, with boot loader, shutdown, power, application | these and external | `OtaState`, `Ota`, `MCOta` |
| secondary Ethernet | `syncEth1Config.sh` | `EthSync` |
| application files | `appFilesSync.sh` | `AppFiles` |
| start-up sequence on an A/B device | `dataloggerStart.sh` | `StartUp`, `MCStartUp` |
| disk preparation | `partition.sh`, `format.sh` | `DiskPrep` |
| alternatives | `usr/bin/update-alternatives` | `Alternatives` |
| packages at first boot | `run-postinsts` and its unit | `Postinsts`, `MCPostinsts` |

Theorems are in `OtaProofs`, `OtaSlotProofs`, `OtaRefinementProofs`,
`OtaDowngradeProofs`, `OtaStatusProofs`, `StartUpProofs`, `DiskPrepProofs` and
`PostinstsProofs`. `PROJECT.json` lists
every part with its status, the lines behind each definition, and the hazards of
the code at the line where they bite. Definitions introduced as "Variant of ..."
are deliberately wrong forms of the definition that follows them; each breaks a
property that the code keeps.

How the parts interact: `Ota` composes the three scripts of the update, and its
boot and root partitions implement `ABSlots` (`BootSlots`, `RootSlots`).
`StartUp` builds on that: it takes the actions of `ABSlots` for the update, in
place of the scripts, and adds what runs at every boot and keeps files across
updates. `Postinsts` calls `Alternatives` step by step. `DiskPrep` stands alone,
as its scripts run on another computer.

## The update (`OtaState`, `OtaUpgrade`, `OtaFinishup`, `OtaDowngrade`, `Ota`)

`prepare_fw_install.sh` empties `extract/`, unzips the downloaded package into
it and runs `ota_upgrade.sh`. That script reads the upgrade bits of the package,
takes from the environment which boot (1, 2) and root partition (5, 6) is
selected, extracts each image into the other one, selects it with `fw_setenv`
together with `upgrade_bits` and `otaRetry`, writes the partitions it expects
into `Status.txt` and reboots. On the next boot, before the services start,
`otaFinishup.sh` compares `Status.txt` with the environment, clears the pending
bits and marks a response for the application. `ota_downgrade.sh` selects the
other partitions again, on request and without a reboot.

`env` is the U-Boot environment. `bootfs` and `rootfs` give for each partition
the release it holds, `Empty` (formatted) or `Torn` (extraction not synced); a
root partition holds a base system, an application and stray files, which were
meant for a partition that was not mounted (`stray`). The files on
`/app_data` and `/log_data` are one variable each. `running` and `rebooting`
describe the device, `upc`/`ureg`, `fin` and `dpc`/`dreg` the program counter
and shell variables of the scripts. There is one action per command whose effect
survives a power cut, in the order of the script, with its error paths. Both
`fw_setenv` sections of `ota_upgrade.sh` share the actions `SetPart`, `SetBits`,
`SetRetry` and `Verify`; `ureg.section` tells them apart.

* `reboot` only asks systemd to shut down: it sets `rebooting`, and the script
  goes on until `Shutdown` happens. `update_error` returns after it.
* tar makes the target `Torn`; the `sync` after it makes the content durable.
  `/app_data` is mounted `sync` (`etc/fstab`), so each append to `Status.txt` is
  durable; `sed -i` renames a new file and is atomic.
* A failed `mount` goes unnoticed: tar then fills the directory of the mount
  point, in the running root file system (`Strayed`). The data archive always
  ends there, as partition 7 is FAT and `/data` is no mount point of `fstab`.
* The restore from `/backup` (line 236) finds no archive.
* The status file of the downgrade (lines 174 to 193) is written in one step; no
  script reads it.
* `fw_setenv` is atomic and may fail. The sanity checks for an environment
  without valid partitions are never taken: this is part of `TypeCorrect`.
* U-Boot is derived from what the scripts write and compare: while
  `upgrade_bits` is set each boot takes one from `otaRetry`; when none is left
  it may boot as selected or go back to the other partitions of the pending
  bits. A torn image may or may not boot, an empty one does not.
* The application and the watchdog start scripts at any time that the services
  are up. The application takes a pending response, records the version of a
  completed update and removes `Status.txt`.
* `pre-install` and `post-install` belong to the package and are taken to leave
  the modelled state alone. MQTT messages, echo and `get_dlid` are left out.

## Start-up (`EthSync`, `AppFiles`, `StartUp`)

`syncEth1Config.sh` compares the checksums of the user's file on `/log_data` and
of a reference copy on `/app_data`, creates missing ones, validates port and
mask, edits `eth1.network` in the root partition, renews the reference copy,
restarts networkd and syncs. `net` is `eth1.network` of each root partition on
flash, `cache` the one the running system reads, `inUse` what networkd has set;
a copy is created (`Blank`) and filled in two steps. A checksum is the file
itself. The three values of a file are an address, which the script does not
look at, and two numbers. `appFilesSync.sh` copies two files and notes each in
its `Status.txt`; the image has one of the two. Its call in `dataloggerStart.sh`
is commented out, so it is started at any time after start-up. Its `cp` is
stopped by power cuts only; a full partition is left out. The user edits
the file when `/log_data` has been exported; the owner of a copy changes it.

## Disk preparation (`DiskPrep`)

Both scripts begin with `check_mounted`: unmount each mounted partition and
erase the start of the partition whose number is the position in that list.
`partition.sh` then writes the table, `format.sh` makes the file systems that
`clean_bits` asks for. `Automount` is the computer that mounts what it finds at
any time; `Reinsert` takes the card out, after which only the partitions that
the table and the extended record lead to are known. Sizes are in MB, since all
numbers of the script are multiples of 2048 sectors. sfdisk and mkfs refuse
mounted partitions, and the scripts do not look at that. The computer unmounts
nothing by itself while a script runs.

## First boot (`Alternatives`, `Postinsts`)

The model has one name, its file and the places of its link. `Like` says which
lines a path matches when `sed` takes it for an expression. `local` is what a
shell function has read before the step that uses it. `set -e` makes `mv` of a
missing link and a plain file in place of the link end the script with an error.
`run-postinsts` is stopped by a reboot between any two commands and is run again
until the unit has disabled itself, which is taken to succeed. An image may come without scriptlets, as the
one in the repository does.

## Runs

| run | bounds and faults | shows |
|---|---|---|
| `power_cut` | 2 installs, 4 power cuts, 1 reboot; packages with boot+root, root+app+data, and root of a second release; fair | `BootPartitionsAreAB`, `RootPartitionsAreAB` (refinement of `ABSlots`), `ImagesReady`, `CompletedMeansInstalled`, `DeviceInfoTrue`, `InstallTakesEffect`, `ComesBack` |
| `faults` | 1 install, 2 cuts; every command may fail; packages with missing bits and archives | `TypeOK`, `SparesUsedPartitions`, `UpgradeFollowsRunning` |
| `downgrade` | 1 install, 2 downgrades, 1 cut, 2 reboots | `DowngradeSelectsBoth`, `DowngradeUndoesUpdate`, `SelectsWhole` |
| `start_up` | 2 edits at the ends of the intervals, 1 cut, failing sed and restart, updates and reverts, fair | `OnlyAccepted`, `FinishedRunIsDurable`, `RecordedOnceChanged`, `ChangeTakesEffect`, `NotedIsPresent`, `NotedIsPreserved`, `TypeOK` |
| `disk` | 2 calls, 1 cut, 4 partitions that get mounted, busy ones | `OnlyAskedOrCounted`, `AskedIsFormatted`, `LayoutSound`, `TypeOK` |
| `postinsts` | 2 scriptlets for two places, 2 stops, 2 later calls, fair | `LinkFollowsBest`, `NoDuplicates`, `ScriptletsTakeEffect`, `EveryScriptletRuns` |

Bounds. Four power cuts are enough to use up `otaRetry` = 3 and to see the boot
after it. One installation exercises every path through the script; the second
one of `power_cut` finds what an interrupted one has left. Two edits make a change
and its reversal, one cut hits every label, and updates and reverts are not
bounded at all. Two calls of the disk scripts have one work on what another has
left, and four mounted partitions bring the counter to the extended one. The two
priorities, 9 and 19, are ordered differently as numbers and as text, and one is
the end of the other; the third program matches the second. For all other values of the constants there
are the theorems. `CHECK_DEADLOCK FALSE` is set where the system may really
stop: with its installations and reboots used up an idle device has nothing left
to do, and so have a prepared card and a disabled service. `start_up` checks
deadlock, as a device can always be shut down and booted.

Fairness. `Ota`: a script that runs takes its next step, a shutdown that was
asked for ends, and the boot loader boots selected partitions that hold whole
images (`SureBoot`). A shell script on a running system justifies the first,
systemd's stop timeout the second, and the third is what a boot loader is for.
Nothing is assumed of a torn image, of going back to the other partitions, of
the application, the operator or of power cuts. `StartUp`: the two scripts go
on. `Postinsts`: systemd starts an enabled service, and it goes on; nothing is
assumed of the operator.

What the properties of `Ota` do not promise. `SparesUsedPartitions` is about
images: files of the data archive, and of an archive whose mount failed, do get
into the running root file system, and no others. `ComesBack` has one exception,
`Stranded`: the boot section selects the new boot partition before the root image
is extracted; power cuts in between use up the attempts, and the boot loader goes
back, with the boot partition, to the root partition that is being written. TLC
reaches it. It ends with the first installation: a second one that is started
while an interrupted one is pending may extract into the partition to which the
boot loader then goes back. `CompletedMeansInstalled` and `DeviceInfoTrue` end
there too (`First`).

`EveryScriptletRuns` says that each scriptlet that can be run is called to its
end and then leaves the directory for good. It does not say that the call
succeeds: `run-postinsts` removes a scriptlet whatever its status, and with it
the directory, although its line 95 gives success as the reason.

The following runs find states that a comment or message of the code rules out
(quotations in `PROJECT.json`):

| run | what happens |
|---|---|
| `pending` | power cut before `Status.txt` exists: pending on every later boot |
| `tar_error` | after a failed tar the script selects the half-written partition |
| `downgrade_install` | installing after a downgrade overwrites the running system |
| `eth_pending` | after an update the new root partition keeps its default address |
| `eth_port` | port 65535, which the sample file offers, is rejected |
| `disk_erase` | partitions that were not mounted are erased |

Other behaviour that the model has and that limits a property is in the notes of
the hazards: a data-only package switches to a root partition it did not write,
two failed `fw_setenv` are reported as completed, the `Status.txt` of an earlier
update may be reported for a failed one, a downgrade leaves the old version in
`Device_Info.txt`, a power cut between the two switches of a downgrade leaves boot
and root images of different releases, and a stop in `update-alternatives` leaves
the name without its link, or a link at the old place.

## Proofs

The assumptions are the named ones on the constants (`ConstantsAssumption`,
`EthAssumption`, `AppAssumption`, `StartUpAssumption`, `DiskAssumption`,
`AlternativesAssumption`, `PostinstsAssumption`): values come from their sets,
special values differ from each other, bounds are natural numbers, the sample
configuration is valid, priorities are natural numbers below 10000.

* `TypeCorrect` (`OtaProofs`): `Spec => []TypeOK`. The type invariant is
  inductive; it is split into flash, files and control, each with a lemma that
  lists the actions that write it (`FlashWriters`, `FileWriters`) and a step
  lemma with one case per writer.
* `UpgradeSparesUsedPartitions` (`OtaSlotProofs`) and `UpgradeFollows`
  (`OtaRefinementProofs`), for `MaxDowngrades = 0`. `SparesUsedPartitions` is an
  action property: `ImageWrites` says that a step changes no image but that of
  the target of `ota_upgrade.sh`, and which steps leave stray files;
  `SpareTargets` that the target is not in use. The latter is not inductive, as
  the target is computed from the environment long before it is written. The strengthening `UpgradeFollowsRunning` says that whenever no
  upgrade is past its first `fw_setenv` and no reboot is pending, the
  environment selects what runs; it is preserved because every way out of an
  upgrade that changed the environment asks for a reboot, and only the boot
  loader starts the services again.
* `UpgradeSelectsWhole` (`OtaSlotProofs`), `SyncedBeforeSelected`,
  `BootRefinement` and `RootRefinement` (`OtaRefinementProofs`), for
  `MaxDowngrades = 0`, `ReliableTools` and `CompletePackages`. The invariant
  `ImagesReady` carries a whole image from the sync of a section to its
  `fw_setenv`. For the refinement each action is shown to be a write of a slot
  nobody uses, a selection of a whole one, a stop, a boot or a stutter of
  `ABSlots`. Without reliable tools it fails (run `tar_error`); without complete
  packages a data-only update selects a spare partition that may never have been
  written; and a downgrade can select the partition that an upgrade is
  extracting.
* `DowngradeSelectsWhole` (`OtaDowngradeProofs`), for `MaxInstalls <= 1`,
  `ReliableTools` and `CompletePackages`, any number of downgrades. `SourceInv`
  says that a downgrade has bits to act on only behind the last command but one
  of the installation; `WholeInv` that the installation goes to the second
  partition of each kind, leaves the first whole, and copies only bits of
  partitions it has completed. With two installations TLC finds the script
  working from the bits of the first while the second extracts.
* `DowngradeSelects` and `FirstDowngradeUndoes` (`OtaDowngradeProofs`), when
  `fw_setenv` works; everything else may fail. `SelectInv` carries each
  selection to the status file. It needs that nothing else writes the
  selection meanwhile: an installation does, so after the first one the theorem
  speaks of states with none under way. `UndoInv` says that the first downgrade
  finds the environment as it was booted, because an upgrade that changed it
  never becomes quiet again before the device goes down (`QuietStep`); it
  needs packages that bring a root image (`RootPackages`), as the script does
  not know the other bits.
* `CompletedIsInstalled` and `DeviceInfoOfFirst` (`OtaStatusProofs`), for
  `ReliableTools`, `CompletePackages` and `RootPackages`. The invariant `FirstInv` follows
  the release through the update: `Staged` (extracted, then selected),
  `LinesInv` (`Status.txt` names no partitions but those that hold it), `FinInv`
  (`otaFinishup.sh` finds a match only on such partitions and clears the pending
  bits before it records one) and `RecordInv` (with nothing pending the boot
  loader leaves the selection alone, so what is recorded stays true). Four
  lemmas say what `grep` finds after `touch`, an append and `sed`. Behind
  `First` both properties are false, as TLC shows: a power cut early in a second
  installation, or in a downgrade before it removes `Status.txt`, leaves the
  record of an update that no longer runs, and nothing takes `VERSION.txt` back.
* `StartUpProofs`: `StartUpTypes`, `ValidatedOnly`, `FinishedRuns`,
  `FailureIsRetried`, `NotedCopies`, `NotedCopiesKept`, for any configurations,
  any number of edits, cuts, updates and reverts, with failing commands. The
  invariant adds to the properties what the labels of the two scripts say
  (`EthInv`, `AppInv`): which file has been accepted, that `eth1.network` has its
  address, that the reference copy and the interface follow, and that a file is
  noted only behind a whole copy. That a finished run stays durable while the
  kernel writes back needs the last conjunct of `EthInv`.
* `DiskPrepProofs`: `DiskTypes`, `SoundLayout`, `BoundedErase`, `FormatsAsked`,
  for a card of any size, any `clean_bits` and any mounts. `LoopInv` says what
  the erase loop and the sections of `format.sh` have not reached yet.
* `PostinstsProofs`: `BestIsLinked`, `OneLineEach`, for any paths, places,
  matching and scriptlets. `EndsInHighest` shows that the lookup of the highest
  priority by the ending of the text finds no line with another one; `AltInv`
  carries the choice from `find_best_alt` to `ln`.
* `FirstBootTakesEffect` (`PostinstsProofs`), for scriptlets of which none
  matches the path of an earlier one that asks for another alternative
  (`Compatible`): such a scriptlet takes the other's line out. `EffectInv` says
  that the file has the alternatives of the scriptlets that are done, and of the
  current one or not, depending on how far its call is; a call that was stopped
  and is begun again removes its own line before it adds it.

Left to TLC: the liveness properties (`InstallTakesEffect`, `ComesBack`,
`ChangeTakesEffect`, `EveryScriptletRuns`), since the prover handles neither
fairness nor `ENABLED`. Facts by induction over data and about `RECURSIVE`
operators would be left to it too; there are none. Every invariant and action
property of a passing run has a theorem, under the hypotheses given above.

## Not modelled

* `prepare_fw_download.sh` (one `mkdir -p`), `get_dlid` (cuts a field out of a
  text file for messages): no control depends on them.
* `update-rc.d`, `systemd-sysv-install`: links that systemd does not read.
* `mount-copybind`, the udhcpc and wpa-supplicant hooks: for a read-only root or
  for network tools that this device does not use.
* `update-ca-certificates`, `makedbs.sh`, the console and curl helpers, the two
  sample C programs: text conversion or settings without a protocol.
* The third-party headers under `src/rootfs/usr/include`, which are most of the
  repository's lines of code and none of its behaviour.
* A torn U-Boot environment (no source for what U-Boot does with it), the
  concurrent use of partition 7 over USB while it is mounted, power cuts during
  the first boot (`run-postinsts` asks the user not to cause them), negative
  priorities, the branches of `run-postinsts` for a package manager that the
  image does not have, and the binaries.
