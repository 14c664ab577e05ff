---------------------------- MODULE OtaFinishup -----------------------------
(***************************************************************************)
(* otaFinishup.sh, which dataloggerStart.sh runs on every boot before the  *)
(* services: close a pending update by comparing the partitions Status.txt *)
(* expects with the ones the environment selects, or, when nothing is      *)
(* pending, write the version into Device_Info.txt.                        *)
(***************************************************************************)
EXTENDS OtaState

Goto(pc) == fin' = [fin EXCEPT !.pc = pc]

(* Variant of PartsMatch: || in place of &&. *)
EitherPartMatches ==
  \/ Field(status, "expected_bootpart") = {env.bootpart}
  \/ Field(status, "expected_rootpart") = {env.rootpart}

(* Status.txt names the partitions that the environment selects now. *)
PartsMatch ==
  /\ Field(status, "expected_bootpart") = {env.bootpart}
  /\ Field(status, "expected_rootpart") = {env.rootpart}

(* Nothing pending; pending but no Status.txt, which ends the script; or
   pending, with the outcome of the comparison. *)
FinRead ==
  /\ fin.pc = "start"
  /\ \/ env.upgrade_bits = {} /\ Goto("dev_id")
     \/ env.upgrade_bits # {} /\ ~status.exists /\ Goto("done")
     \/ env.upgrade_bits # {} /\ status.exists /\ fin' = [pc |-> "bits", match |-> PartsMatch]
  /\ UNCHANGED <<flash, files, power, upgrader, downgrader, used>>

(* Clear the environment, the first time and again after the read-back. *)
FinBits ==
  /\ fin.pc \in {"bits", "rebits"}
  /\ SetEnv("upgrade_bits", {})
  /\ Goto(IF fin.pc = "bits" THEN "retry" ELSE "reretry")
  /\ UNCHANGED <<bootfs, rootfs, files, power, upgrader, downgrader, used>>

FinRetry ==
  /\ fin.pc \in {"retry", "reretry"}
  /\ SetEnv("otaRetry", 0)
  /\ Goto(IF fin.pc = "reretry" THEN "done" ELSE IF fin.match THEN "sed" ELSE "resp")
  /\ UNCHANGED <<bootfs, rootfs, files, power, upgrader, downgrader, used>>

(* Variant of FinSed: off by one line. *)
FinSedFourthLine ==
  /\ fin.pc = "sed"
  /\ status' = [status EXCEPT !.lines = IF Len(@) >= 4 THEN [@ EXCEPT ![4] = <<"ota_completed", 1>>] ELSE @]
  /\ Goto("resp")
  /\ UNCHANGED <<flash, info, extract, version, devinfo, dgstatus, power, upgrader, downgrader, used>>

(* sed replaces the third line, if there is one. *)
FinSed ==
  /\ fin.pc = "sed"
  /\ status' = [status EXCEPT !.lines = IF Len(@) >= 3 THEN [@ EXCEPT ![3] = <<"ota_completed", 1>>] ELSE @]
  /\ Goto("resp")
  /\ UNCHANGED <<flash, info, extract, version, devinfo, dgstatus, power, upgrader, downgrader, used>>

FinResponse ==
  /\ fin.pc = "resp"
  /\ status' = Appended(status, <<"resopnse_pending", 1>>)
  /\ Goto("verify")
  /\ UNCHANGED <<flash, info, extract, version, devinfo, dgstatus, power, upgrader, downgrader, used>>

FinVerify ==
  /\ fin.pc = "verify"
  /\ Goto(IF env.upgrade_bits = {} THEN "done" ELSE "rebits")
  /\ UNCHANGED <<flash, files, power, upgrader, downgrader, used>>

(* Variant of FinDeviceInfo: the version of the package that was unpacked
   last, whether or not it was installed. *)
FinDeviceInfoUnpacked ==
  /\ fin.pc \in {"dev_id", "dev_version"}
  /\ devinfo' = IF fin.pc = "dev_id" THEN Empty ELSE extract.release
  /\ Goto(IF fin.pc = "dev_id" THEN "dev_version" ELSE "done")
  /\ UNCHANGED <<flash, status, info, extract, version, dgstatus, power, upgrader, downgrader, used>>

(* Device_Info.txt is created with the device id, then the version is
   appended: that of VERSION.txt or "Factory version". *)
FinDeviceInfo ==
  /\ fin.pc \in {"dev_id", "dev_version"}
  /\ devinfo' = IF fin.pc = "dev_id" THEN Empty ELSE version
  /\ Goto(IF fin.pc = "dev_id" THEN "dev_version" ELSE "done")
  /\ UNCHANGED <<flash, status, info, extract, version, dgstatus, power, upgrader, downgrader, used>>

FinishupStep ==
  \/ FinRead \/ FinBits \/ FinRetry \/ FinSed \/ FinResponse \/ FinVerify \/ FinDeviceInfo
=============================================================================
