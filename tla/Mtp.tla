-------------------------------- MODULE Mtp --------------------------------
(***************************************************************************)
(* All of MTP: the workers on a storage, and kmtpd's list of devices.  The *)
(* two share no state but the D-Bus path of a device.                      *)
(***************************************************************************)
EXTENDS MtpWorker, MtpDevices

(* MTP: nothing goes that was not named, what passes is done, and no view  *)
(* loses a device that is still plugged in.                                *)
DeviceChangesRight == RemovesOnlyNamed /\ PassIsDone /\ RemovalIsReal
=============================================================================
