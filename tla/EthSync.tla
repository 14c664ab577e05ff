------------------------------ MODULE EthSync -------------------------------
(***************************************************************************)
(* syncEth1Config.sh: bring the address of the second Ethernet interface   *)
(* that the user writes into SecEthernetConfig.txt into eth1.network.  The *)
(* user's file is on /log_data, a reference copy of the last one applied   *)
(* on /app_data, both mounted sync; eth1.network is in the root partition, *)
(* where a write stays in the page cache until it is synced.               *)
(***************************************************************************)
EXTENDS Integers, Sequences

CONSTANTS
  Slots,      \* the root partitions
  Ips,        \* what can stand for an address
  Configs,    \* what the user may write
  Master,     \* the sample file that comes with the root image
  NoFile,     \* no such file
  Blank,      \* a file whose copy was cut off: it is created and empty
  EthFaults   \* which of "sed" and "restart" may fail

(* The three values of a file; a field that printf does not take for a
   number, and one that is missing, is 0.  The address is not looked at. *)
Config == [ip: Ips, mask: Int, port: Int]

(* A mask between those of one and of all bits, and a port of those that the
   sample file offers: "from 1025 - 65535". *)
InRange(c) == c.mask >= 2 /\ c.mask <= 31 /\ c.port >= 1025 /\ c.port <= 65535

ASSUME EthAssumption ==
  /\ Configs \subseteq Config
  /\ Master \in Config /\ InRange(Master)
  /\ NoFile \notin Config /\ Blank \notin Config /\ NoFile # Blank
  /\ EthFaults \subseteq {"sed", "restart"}

VARIABLES
  active,  \* the root partition the system was started from
  usr,     \* /log_data/configuration/ethernet/SecEthernetConfig.txt
  ref,     \* /app_data/configuration/ethernet/SecEthernetConfig.txt
  net,     \* the address in eth1.network of each root partition, on flash
  cache,   \* the same for the running one, as the system reads it
  inUse,   \* the address systemd-networkd has set
  epc,     \* label of the script
  sums,    \* the two checksums it has taken
  failed   \* a command of this run has failed

ethFiles == <<usr, ref>>

(* An empty file gives an empty address and the number 0 twice. *)
Parsed(f) == IF f = Blank THEN [ip |-> "", mask |-> 0, port |-> 0] ELSE f
Address(c) == [ip |-> c.ip, mask |-> c.mask]

(* eth1.network of the root image has the address of the sample file. *)
DefaultAddress == Address(Master)

(* Variant of Accepted: the validation is commented out. *)
AcceptsAll(c) == TRUE

(* Variant of Accepted: -gt in place of -ge. *)
AcceptsMask32(c) == ~(c.port >= 65535 \/ c.port <= 1024) /\ ~(c.mask > 32 \/ c.mask <= 1)

(* The validation of the port and the mask; that of the address is commented
   out. *)
Accepted(c) == ~(c.port >= 65535 \/ c.port <= 1024) /\ ~(c.mask >= 32 \/ c.mask <= 1)

EthInit ==
  /\ usr = NoFile /\ ref = NoFile
  /\ net = [s \in Slots |-> DefaultAddress]
  /\ cache = DefaultAddress /\ inUse = DefaultAddress
  /\ epc = "sums" /\ sums = <<NoFile, NoFile>> /\ failed = FALSE

-----------------------------------------------------------------------------

(* Variant of TakeSums: both sums are those of the user's file. *)
TakeSumsOfUsr ==
  /\ epc = "sums"
  /\ sums' = <<usr, usr>>
  /\ epc' = "ref"
  /\ UNCHANGED <<ethFiles, net, cache, inUse, failed>>

(* md5sum of both files, before missing ones are created. *)
TakeSums ==
  /\ epc = "sums"
  /\ sums' = <<usr, ref>>
  /\ epc' = "ref"
  /\ UNCHANGED <<ethFiles, net, cache, inUse, failed>>

(* A missing file is copied from the sample: cp creates it, then fills it. *)
CreateRef ==
  /\ epc \in {"ref", "ref_fill"}
  /\ \/ epc = "ref" /\ ref = NoFile /\ ref' = Blank /\ epc' = "ref_fill"
     \/ epc = "ref" /\ ref # NoFile /\ ref' = ref /\ epc' = "usr"
     \/ epc = "ref_fill" /\ ref' = Master /\ epc' = "usr"
  /\ UNCHANGED <<usr, net, cache, inUse, sums, failed>>

CreateUsr ==
  /\ epc \in {"usr", "usr_fill"}
  /\ \/ epc = "usr" /\ usr = NoFile /\ usr' = Blank /\ epc' = "usr_fill"
     \/ epc = "usr" /\ usr # NoFile /\ usr' = usr /\ epc' = "compare"
     \/ epc = "usr_fill" /\ usr' = Master /\ epc' = "compare"
  /\ UNCHANGED <<ref, net, cache, inUse, sums, failed>>

(* Nothing has changed, or the user's file is not valid: exit. *)
Compare ==
  /\ epc = "compare"
  /\ epc' = IF sums[1] # sums[2] /\ Accepted(Parsed(usr)) THEN "sed" ELSE "export"
  /\ UNCHANGED <<ethFiles, net, cache, inUse, sums, failed>>

(* Variant of ChangeAddress: the status of sed is not looked at. *)
ChangeAddressUnchecked ==
  /\ epc = "sed"
  /\ \/ cache' = Address(Parsed(usr)) /\ failed' = failed
     \/ "sed" \in EthFaults /\ cache' = cache /\ failed' = TRUE
  /\ epc' = "copy"
  /\ UNCHANGED <<ethFiles, net, inUse, sums>>

(* sed -i renames the new eth1.network over the old one.  The backup copy
   that is made before it is never read and is left out. *)
ChangeAddress ==
  /\ epc = "sed"
  /\ \/ cache' = Address(Parsed(usr)) /\ epc' = "copy" /\ failed' = failed
     \/ "sed" \in EthFaults /\ cache' = cache /\ epc' = "export" /\ failed' = TRUE
  /\ UNCHANGED <<ethFiles, net, inUse, sums>>

(* The reference copy: truncated, then filled. *)
CopyToRef ==
  /\ epc \in {"copy", "copy_fill"}
  /\ ref' = IF epc = "copy" THEN Blank ELSE usr
  /\ epc' = IF epc = "copy" THEN "copy_fill" ELSE "restart"
  /\ UNCHANGED <<usr, net, cache, inUse, sums, failed>>

(* Variant of RestartNetworkd: the script ends without its sync. *)
RestartUnsynced ==
  /\ epc = "restart"
  /\ inUse' = cache /\ failed' = failed
  /\ epc' = "export"
  /\ UNCHANGED <<ethFiles, net, cache, sums>>

(* systemctl restart; when it fails the sync is left out. *)
RestartNetworkd ==
  /\ epc = "restart"
  /\ \/ inUse' = cache /\ epc' = "sync" /\ failed' = failed
     \/ "restart" \in EthFaults /\ inUse' = inUse /\ epc' = "export" /\ failed' = TRUE
  /\ UNCHANGED <<ethFiles, net, cache, sums>>

SyncNetwork ==
  /\ epc = "sync"
  /\ net' = [net EXCEPT ![active] = cache]
  /\ epc' = "export"
  /\ UNCHANGED <<ethFiles, cache, inUse, sums, failed>>

EthStep ==
  \/ TakeSums \/ CreateRef \/ CreateUsr \/ Compare \/ ChangeAddress \/ CopyToRef
  \/ RestartNetworkd \/ SyncNetwork
=============================================================================
