------------------------------ MODULE Updates ------------------------------
(***************************************************************************)
(* Software replaced while the system is in use.  The update window        *)
(* (gui/ota_update_dialog.py) has the operator pick the transport for a    *)
(* batch, and one updater at a time works through it: NodeOTAUpdater over  *)
(* ESP-NOW (OtaTransfer) or WifiOTAUpdater over the gateway's access point *)
(* (WifiOta).  The program itself is replaced by its installer (AppUpdate).*)
(* All three owe the operator the same.                                    *)
(***************************************************************************)
EXTENDS OtaTransfer

CONSTANTS Jobs, Lines, StoreWindow, AckEvery, RxLines, Resends, Resets,  \* see WifiOta
          Clicks, Mishaps                                         \* see AppUpdate

VARIABLES transport,                                \* transport_combo, or "app"
          upd, cancel, usb, gw, air, board, resets, \* see WifiOta
          place, app, other, net, slots, ask, disk, script, spent \* see AppUpdate

wifi == <<upd, cancel, usb, gw, air, board, resets>>
host == <<place, app, other, net, slots, ask, disk, script, spent>>

Wifi == INSTANCE WifiOta
App == INSTANCE AppUpdate
ASSUME UpdatesAssumption == Wifi!Parameters /\ App!Parameters

By(t) == transport = t
UpdatesInit ==
  /\ Init /\ Wifi!Init /\ App!Init
  /\ transport \in {"espnow", "wifi", "app"}
  /\ ~By("app") => place = "beside"

UpdatesNext ==
  /\ UNCHANGED transport
  /\ \/ By("espnow") /\ Next /\ UNCHANGED <<wifi, host>>
     \/ By("wifi") /\ Wifi!Next /\ UNCHANGED <<vars, host>>
     \/ By("app") /\ App!Next /\ UNCHANGED <<vars, wifi>>

\* The fairness of each.
UpdatesSpec ==
  /\ UpdatesInit /\ [][UpdatesNext]_<<transport, vars, wifi, host>>
  /\ WF_vars(By("espnow") /\ Worker) /\ SF_vars(By("espnow") /\ Expire)
  /\ WF_wifi(By("wifi") /\ Wifi!Worker) /\ WF_wifi(By("wifi") /\ Wifi!Steady)
  /\ WF_host(By("app") /\ App!Quit) /\ WF_host(By("app") /\ App!Script)

-----------------------------------------------------------------------------
\* Neither sender runs ahead of its receiver: over ESP-NOW the window claims no
\* chunk the node has not written (WINDOW), over USB the lines in flight fit the
\* gateway's buffer, none is lost, and the acknowledgements never dry up while
\* the PC waits for one (STORE_WINDOW, OTA_ACK_EVERY).  And what is installed on
\* the PC is a whole program after any one failure and any power cut, or is
\* parked beside its place (updater.py).
UpdateSound == TransferSound /\ Wifi!StagingSound /\ App!SwapSound

\* An update reported complete runs ("proving the image actually boots",
\* se_ota.h), on sound flash, under steady power and without a crash.
BootedAsReported == BootConfirmed /\ Wifi!BootConfirmed /\ App!BootConfirmed

\* Every update ends, whatever is lost, unplugged or cancelled.
Updating == pc \in Running \/ Wifi!Running \/ App!Installing
EveryUpdateEnds == Updating ~> ~Updating
=============================================================================
