------------------------------ MODULE KbdHost ------------------------------
(***************************************************************************)
(* The keyboard host component, src/bt_kbd.c, running on HidhLink: the     *)
(* state machine of kbd_main_task (K), the HIDH event callback hidh_cb on  *)
(* the event task (E), the advertising reports collected on the NimBLE     *)
(* host task, and application tasks that queue commands.                   *)
(*                                                                         *)
(* K is the only caller of the HIDH layer: its calls take the caller's     *)
(* steps of HidhLink, and E's callback replaces HidhLink's Deliver.        *)
(***************************************************************************)
EXTENDS HidhLink, Integers

CONSTANTS
    CmdLen,         \* length of s_cmd_queue (4 in the code)
    MaxScan,        \* BLE_KBD_HOST_MAX_SCAN_DEVS (8 in the code)
    SelectWhen      \* when the application selects: see SelectPolicies

\* "callback": from on_scan_updated only, as examples/basic_usage does, which K
\*   calls in its scan loop and whose command it receives before the next call;
\* "scanning": whenever ble_kbd_host_get_state says SCANNING; "anytime": always.
SelectPolicies == {"callback", "scanning", "anytime"}

ASSUME CmdLenAssumption == CmdLen \in Nat \ {0}
ASSUME MaxScanAssumption == MaxScan \in Nat \ {0}
ASSUME SelectWhenAssumption == SelectWhen \in SelectPolicies

VARIABLES
    kpc,                \* where kbd_main_task is
    s_state,            \* the public state
    force_repair,       \* s_cfg.force_repair
    s_cmd_queue,
    s_connected_sem, s_disconnected_sem, s_open_done_sem,
    s_hidh_dev,
    s_scan_devs,        \* addresses of s_scan_devs[0 .. s_scan_dev_count - 1]
    selected,           \* the index chosen in the scan loop
    epc                 \* where E is inside hidh_cb

sigVars  == <<s_connected_sem, s_disconnected_sem, s_open_done_sem>>
scanVars == <<s_scan_devs, selected>>
kVars    == <<kpc, s_state, force_repair>>
kbdVars  == <<kVars, s_cmd_queue, sigVars, s_hidh_dev, scanVars, epc>>
vars     == <<linkVars, kbdVars>>

START == [type |-> "START"]
SELECT(i) == [type |-> "SELECT", param |-> i]

\* Indices an application may pass; the ends are out of range for any list.
Params == -1..MaxScan
Cmds == {START} \cup {SELECT(i) : i \in Params}

KbdTypeOK ==
    /\ kpc \in {"top", "sweep", "attempt", "reconnecting", "bonded",
                "bondedWait", "bondedCheck", "bondedGive", "retryWait",
                "doPair", "startScan", "scan", "scanCheck", "scanClear",
                "scanPause", "selected", "settle", "opening", "openWait", "openCheck",
                "openGive", "bail", "connected", "online", "closeWait"}
    /\ s_state \in {"IDLE", "RECONNECTING", "SCANNING", "CONNECTING", "CONNECTED"}
    /\ force_repair \in BOOLEAN
    /\ s_cmd_queue \in Seq(Cmds) /\ Len(s_cmd_queue) <= CmdLen
    /\ s_connected_sem \in BOOLEAN
    /\ s_disconnected_sem \in BOOLEAN
    /\ s_open_done_sem \in BOOLEAN
    /\ s_hidh_dev \in Addr \cup {NoAddr}
    /\ s_scan_devs \in Seq(Addr) /\ Len(s_scan_devs) <= MaxScan
    /\ selected \in 0..MaxScan
    /\ epc \in {"idle", "opened", "signalled", "closed"}

\* ble_kbd_host_init: force_repair clears the store before the task starts;
\* otherwise the store may hold the bond of an earlier run.
Init ==
    /\ LinkInit /\ \A a, b \in bonds : a = b
    /\ force_repair \in BOOLEAN /\ (force_repair => bonds = {})
    /\ kpc = "top" /\ s_state = "IDLE"
    /\ s_cmd_queue = <<>>
    /\ s_connected_sem = FALSE /\ s_disconnected_sem = FALSE
    /\ s_open_done_sem = FALSE
    /\ s_hidh_dev = NoAddr
    /\ s_scan_devs = <<>> /\ selected = 0
    /\ epc = "idle"

-----------------------------------------------------------------------------
(* Shorthands of K.                                                        *)

Goto(pc) == kpc' = pc

\* Without "late_event" the host and event tasks have finished all work by the
\* time a timed wait of K (100 ms and more) runs out.
EventsHandled == evq = <<>> /\ epc = "idle" /\ npc = "idle"
TimedOut == EventsHandled \/ "late_event" \in Faults

Queued == {s_cmd_queue[i] : i \in DOMAIN s_cmd_queue}
InScanLoop == kpc \in {"scan", "scanCheck"}
StartQueued == s_cmd_queue # <<>> /\ Head(s_cmd_queue) = START

-----------------------------------------------------------------------------
(* Reconnect phase.                                                        *)

\* label top: choose between the reconnect loop and the pairing phase.
Top ==
    /\ kpc = "top"
    /\ IF ~force_repair /\ bonds # {}
       THEN s_state' = "RECONNECTING" /\ Goto("sweep")
       ELSE Goto("doPair") /\ UNCHANGED s_state
    /\ UNCHANGED <<linkVars, force_repair, s_cmd_queue, sigVars, s_hidh_dev,
                   scanVars, epc>>

\* [mutant] The wait between two attempts drops every command.
WaitReceiveDrops ==
    /\ kpc \in {"sweep", "retryWait"} /\ s_cmd_queue # <<>>
    /\ s_cmd_queue' = Tail(s_cmd_queue)
    /\ UNCHANGED <<linkVars, kVars, sigVars, s_hidh_dev, scanVars, epc>>

\* wait_for_start_pairing receives a command: START leaves the loop, any other
\* command is dropped.
WaitReceive ==
    /\ kpc \in {"sweep", "retryWait"} /\ s_cmd_queue # <<>>
    /\ s_cmd_queue' = Tail(s_cmd_queue)
    /\ kpc' = IF StartQueued THEN "doPair" ELSE kpc
    /\ UNCHANGED <<linkVars, s_state, force_repair, sigVars, s_hidh_dev, scanVars,
                   epc>>

\* wait_for_start_pairing finds the queue empty at its deadline.
WaitEmpty ==
    /\ kpc \in {"sweep", "retryWait"} /\ s_cmd_queue = <<>>
    /\ kpc' = IF kpc = "sweep" THEN "attempt" ELSE "sweep"
    /\ UNCHANGED <<linkVars, s_state, force_repair, s_cmd_queue, sigVars,
                   s_hidh_dev, scanVars, epc>>

LightReconnect ==
    /\ kpc = "attempt" /\ s_hidh_dev # NoAddr
    /\ DevReconnect(s_hidh_dev)
    /\ Goto("reconnecting")
    /\ UNCHANGED <<s_state, force_repair, s_cmd_queue, sigVars, s_hidh_dev,
                   scanVars, epc>>

\* The light reconnect's result decides alone.
LightReturn ==
    /\ kpc = "reconnecting"
    /\ TakeResult
    /\ kpc' = IF hpc = "opened" THEN "connected" ELSE "retryWait"
    /\ UNCHANGED <<s_state, force_repair, s_cmd_queue, sigVars, s_hidh_dev,
                   scanVars, epc>>

\* try_bonded_reconnect with an empty store.
NoBond ==
    /\ kpc = "attempt" /\ s_hidh_dev = NoAddr /\ bonds = {}
    /\ Goto("retryWait")
    /\ UNCHANGED <<linkVars, s_state, force_repair, s_cmd_queue, sigVars,
                   s_hidh_dev, scanVars, epc>>

\* try_bonded_reconnect: drain s_open_done_sem and open the first bonded peer.
BondedOpen ==
    /\ kpc = "attempt" /\ s_hidh_dev = NoAddr
    /\ s_open_done_sem' = FALSE
    /\ \E a \in bonds : DevOpen(a)
    /\ Goto("bonded")
    /\ UNCHANGED <<s_state, force_repair, s_cmd_queue, s_connected_sem,
                   s_disconnected_sem, s_hidh_dev, scanVars, epc>>

\* esp_hidh_dev_open returns; its result is ignored, by try_bonded_reconnect
\* and after a selection alike.
OpenReturn ==
    /\ kpc \in {"bonded", "opening"}
    /\ TakeResult
    /\ kpc' = IF kpc = "bonded" THEN "bondedWait" ELSE "openWait"
    /\ UNCHANGED <<s_state, force_repair, s_cmd_queue, sigVars, s_hidh_dev,
                   scanVars, epc>>

\* The wait for s_open_done_sem, 15 s for a bonded peer and 60 s for a selected one.
OpenDone ==
    /\ kpc \in {"bondedWait", "openWait"} /\ s_open_done_sem
    /\ s_open_done_sem' = FALSE
    /\ kpc' = IF kpc = "bondedWait" THEN "bondedCheck" ELSE "openCheck"
    /\ UNCHANGED <<linkVars, s_state, force_repair, s_cmd_queue, s_connected_sem,
                   s_disconnected_sem, s_hidh_dev, scanVars, epc>>

OpenWaitTimeout ==
    /\ kpc \in {"bondedWait", "openWait"} /\ ~s_open_done_sem /\ ~StartQueued
    /\ TimedOut
    /\ kpc' = IF kpc = "bondedWait" THEN "bondedCheck" ELSE "openCheck"
    /\ UNCHANGED <<linkVars, s_state, force_repair, s_cmd_queue, sigVars,
                   s_hidh_dev, scanVars, epc>>

\* A queued START ends either wait.  ble_gap_conn_cancel has nothing to cancel:
\* no call is in progress, and so no connect either (NoStaleWake).  The bonded reconnect
\* leaves the command to the reconnect loop; after a selection K takes it.
BondedBail ==
    /\ kpc = "bondedWait" /\ ~s_open_done_sem /\ StartQueued /\ TimedOut
    /\ Goto("retryWait")
    /\ UNCHANGED <<linkVars, s_state, force_repair, s_cmd_queue, sigVars,
                   s_hidh_dev, scanVars, epc>>

OpenBail ==
    /\ kpc = "openWait" /\ ~s_open_done_sem /\ StartQueued /\ TimedOut
    /\ s_cmd_queue' = Tail(s_cmd_queue)
    /\ Goto("bail")
    /\ UNCHANGED <<linkVars, s_state, force_repair, sigVars, s_hidh_dev, scanVars,
                   epc>>

\* Up to 2 s more for s_open_done_sem, whichever way it ends.
Bail ==
    /\ kpc = "bail"
    /\ s_open_done_sem \/ TimedOut
    /\ s_open_done_sem' = FALSE
    /\ Goto("doPair")
    /\ UNCHANGED <<linkVars, s_state, force_repair, s_cmd_queue, s_connected_sem,
                   s_disconnected_sem, s_hidh_dev, scanVars, epc>>

\* s_connected_sem is taken to look at it and given back: E may run in between.
CheckTake ==
    /\ kpc \in {"bondedCheck", "openCheck"} /\ s_connected_sem
    /\ s_connected_sem' = FALSE
    /\ kpc' = IF kpc = "bondedCheck" THEN "bondedGive" ELSE "openGive"
    /\ UNCHANGED <<linkVars, s_state, force_repair, s_cmd_queue,
                   s_disconnected_sem, s_open_done_sem, s_hidh_dev, scanVars, epc>>

CheckGive ==
    /\ kpc \in {"bondedGive", "openGive"}
    /\ s_connected_sem' = TRUE
    /\ Goto("connected")
    /\ UNCHANGED <<linkVars, s_state, force_repair, s_cmd_queue,
                   s_disconnected_sem, s_open_done_sem, s_hidh_dev, scanVars, epc>>

\* Not connected: the bonded reconnect is retried, a selection goes back to scan.
CheckFails ==
    /\ kpc \in {"bondedCheck", "openCheck"} /\ ~s_connected_sem
    /\ kpc' = IF kpc = "bondedCheck" THEN "retryWait" ELSE "doPair"
    /\ UNCHANGED <<linkVars, s_state, force_repair, s_cmd_queue, sigVars,
                   s_hidh_dev, scanVars, epc>>

-----------------------------------------------------------------------------
(* Pairing and scan phase.                                                 *)

\* label do_pair, up to the SCANNING status.
DoPair ==
    /\ kpc = "doPair"
    /\ StoreClear
    /\ force_repair' = FALSE
    /\ s_hidh_dev' = NoAddr
    /\ s_scan_devs' = <<>>
    /\ s_state' = "SCANNING"
    /\ Goto("startScan")
    /\ UNCHANGED <<s_cmd_queue, sigVars, selected, epc>>

\* label restart_scan; a ble_gap_disc that fails is retried after 1 s.
StartScan ==
    /\ kpc = "startScan"
    /\ Disc
    /\ Goto("scan")
    /\ UNCHANGED <<s_state, force_repair, s_cmd_queue, sigVars, s_hidh_dev,
                   scanVars, epc>>

\* START while scanning: stop, empty the list, clear the store, scan again.
ScanStart ==
    /\ kpc = "scan" /\ StartQueued
    /\ s_cmd_queue' = Tail(s_cmd_queue)
    /\ DiscCancel
    /\ s_scan_devs' = <<>>
    /\ Goto("scanClear")
    /\ UNCHANGED <<s_state, force_repair, sigVars, s_hidh_dev, selected, epc>>

ScanClear ==
    /\ kpc = "scanClear"
    /\ StoreClear
    /\ Goto("startScan")
    /\ UNCHANGED <<s_state, force_repair, s_cmd_queue, sigVars, s_hidh_dev,
                   scanVars, epc>>

\* [mutant] The index check is off by one.
ScanSelectOffByOne ==
    /\ kpc = "scan" /\ s_cmd_queue # <<>> /\ ~StartQueued
    /\ s_cmd_queue' = Tail(s_cmd_queue)
    /\ LET i == Head(s_cmd_queue).param IN
       IF 0 <= i /\ i <= Len(s_scan_devs)
       THEN selected' = i /\ Goto("selected")
       ELSE Goto("scanCheck") /\ UNCHANGED selected
    /\ UNCHANGED <<linkVars, s_state, force_repair, sigVars, s_hidh_dev,
                   s_scan_devs, epc>>

\* SELECT while scanning, checked against the list under s_scan_mutex.
ScanSelect ==
    /\ kpc = "scan" /\ s_cmd_queue # <<>> /\ ~StartQueued
    /\ s_cmd_queue' = Tail(s_cmd_queue)
    /\ LET i == Head(s_cmd_queue).param IN
       IF 0 <= i /\ i < Len(s_scan_devs)
       THEN selected' = i /\ Goto("selected")
       ELSE Goto("scanCheck") /\ UNCHANGED selected
    /\ UNCHANGED <<linkVars, s_state, force_repair, sigVars, s_hidh_dev,
                   s_scan_devs, epc>>

ScanNoCmd ==
    /\ kpc = "scan" /\ s_cmd_queue = <<>>
    /\ Goto("scanCheck")
    /\ UNCHANGED <<linkVars, s_state, force_repair, s_cmd_queue, sigVars,
                   s_hidh_dev, scanVars, epc>>

\* The end of an iteration.  Nothing found when the scan window is over: stop
\* and show the prompt for 3 s ...
ScanTimeout ==
    /\ kpc = "scanCheck" /\ s_scan_devs = <<>>
    /\ DiscCancel
    /\ Goto("scanPause")
    /\ UNCHANGED <<s_state, force_repair, s_cmd_queue, sigVars, s_hidh_dev,
                   scanVars, epc>>

ScanAgain ==
    /\ kpc = "scanCheck"
    /\ Goto("scan")
    /\ UNCHANGED <<linkVars, s_state, force_repair, s_cmd_queue, sigVars,
                   s_hidh_dev, scanVars, epc>>

\* ... then empty the list and scan again.
ScanPause ==
    /\ kpc = "scanPause"
    /\ s_scan_devs' = <<>>
    /\ Goto("startScan")
    /\ UNCHANGED <<linkVars, s_state, force_repair, s_cmd_queue, sigVars,
                   s_hidh_dev, selected, epc>>

\* [mutant] ble_gap_disc_cancel is left out.
CancelScanNot ==
    /\ kpc = "selected"
    /\ Goto("settle")
    /\ UNCHANGED <<linkVars, s_state, force_repair, s_cmd_queue, sigVars,
                   s_hidh_dev, scanVars, epc>>

\* A device was selected: cancel the scan, wait 300 ms ...
CancelScan ==
    /\ kpc = "selected"
    /\ DiscCancel
    /\ Goto("settle")
    /\ UNCHANGED <<s_state, force_repair, s_cmd_queue, sigVars, s_hidh_dev,
                   scanVars, epc>>

\* [mutant] The list is looked up one entry too early.
OpenSelectedBefore ==
    /\ kpc = "settle"
    /\ s_state' = "CONNECTING"
    /\ s_open_done_sem' = FALSE
    /\ DevOpen(s_scan_devs[IF selected = 0 THEN 1 ELSE selected])
    /\ Goto("opening")
    /\ UNCHANGED <<force_repair, s_cmd_queue, s_connected_sem, s_disconnected_sem,
                   s_hidh_dev, scanVars, epc>>

\* ... read the entry and open it.
OpenSelected ==
    /\ kpc = "settle"
    /\ s_state' = "CONNECTING"
    /\ s_open_done_sem' = FALSE
    /\ DevOpen(s_scan_devs[selected + 1])
    /\ Goto("opening")
    /\ UNCHANGED <<force_repair, s_cmd_queue, s_connected_sem, s_disconnected_sem,
                   s_hidh_dev, scanVars, epc>>

-----------------------------------------------------------------------------
(* Connected phase.                                                        *)

EnterConnected ==
    /\ kpc = "connected"
    /\ s_state' = "CONNECTED"
    /\ Goto("online")
    /\ UNCHANGED <<linkVars, force_repair, s_cmd_queue, sigVars, s_hidh_dev,
                   scanVars, epc>>

\* s_disconnected_sem: report the loss and go round again.
Disconnected ==
    /\ kpc = "online" /\ s_disconnected_sem
    /\ s_disconnected_sem' = FALSE
    /\ s_state' = "RECONNECTING"
    /\ Goto("top")
    /\ UNCHANGED <<linkVars, force_repair, s_cmd_queue, s_connected_sem,
                   s_open_done_sem, s_hidh_dev, scanVars, epc>>

\* [mutant] The close is not waited for.
RepairCloseNoWait ==
    /\ kpc = "online" /\ ~s_disconnected_sem /\ StartQueued
    /\ s_cmd_queue' = Tail(s_cmd_queue)
    /\ Goto("doPair")
    /\ IF s_hidh_dev # NoAddr THEN DevClose(s_hidh_dev) ELSE UNCHANGED linkVars
    /\ UNCHANGED <<s_state, force_repair, sigVars, s_hidh_dev, scanVars, epc>>

\* START at the head of the queue: close the device, if there is one.
RepairClose ==
    /\ kpc = "online" /\ ~s_disconnected_sem /\ StartQueued
    /\ s_cmd_queue' = Tail(s_cmd_queue)
    /\ IF s_hidh_dev # NoAddr
       THEN DevClose(s_hidh_dev) /\ Goto("closeWait")
       ELSE Goto("doPair") /\ UNCHANGED linkVars
    /\ UNCHANGED <<s_state, force_repair, sigVars, s_hidh_dev, scanVars, epc>>

\* Up to 2 s for the disconnect.  A link whose keyboard is gone takes its 5 s
\* supervision timeout to end: the "slow_close" fault.
CloseWait ==
    /\ kpc = "closeWait"
    /\ \/ s_disconnected_sem
       \/ TimedOut /\ (~terminating \/ "slow_close" \in Faults)
    /\ s_disconnected_sem' = FALSE
    /\ Goto("doPair")
    /\ UNCHANGED <<linkVars, s_state, force_repair, s_cmd_queue, s_connected_sem,
                   s_open_done_sem, s_hidh_dev, scanVars, epc>>

KStep ==
    \/ Top \/ WaitReceive \/ WaitEmpty \/ LightReconnect \/ LightReturn
    \/ NoBond \/ BondedOpen \/ OpenReturn \/ OpenDone \/ OpenWaitTimeout
    \/ BondedBail \/ OpenBail \/ Bail \/ CheckTake \/ CheckGive \/ CheckFails
    \/ DoPair \/ StartScan \/ ScanStart \/ ScanClear \/ ScanSelect \/ ScanNoCmd
    \/ ScanTimeout \/ ScanAgain \/ ScanPause \/ CancelScan \/ OpenSelected
    \/ EnterConnected \/ Disconnected \/ RepairClose \/ CloseWait
    \/ CallStep /\ UNCHANGED kbdVars

-----------------------------------------------------------------------------
(* hidh_cb on the event task.                                              *)

\* OPEN (its status is always ESP_OK): s_hidh_dev, then the two semaphores.
CbOpen ==
    /\ epc = "idle" /\ evq # <<>> /\ Head(evq).type = "OPEN"
    /\ Deliver
    /\ s_hidh_dev' = Head(evq).dev
    /\ epc' = "opened"
    /\ UNCHANGED <<kVars, s_cmd_queue, sigVars, scanVars>>

CbConnected ==
    /\ epc = "opened"
    /\ s_connected_sem' = TRUE
    /\ epc' = "signalled"
    /\ UNCHANGED <<linkVars, kVars, s_cmd_queue, s_disconnected_sem,
                   s_open_done_sem, s_hidh_dev, scanVars>>

CbOpenDone ==
    /\ epc = "signalled"
    /\ s_open_done_sem' = TRUE
    /\ epc' = "idle"
    /\ UNCHANGED <<linkVars, kVars, s_cmd_queue, s_connected_sem,
                   s_disconnected_sem, s_hidh_dev, scanVars>>

\* [mutant] CLOSE frees the structure, as the Bluedroid build does.
CbCloseFrees ==
    /\ epc = "idle" /\ evq # <<>> /\ Head(evq).type = "CLOSE"
    /\ evq' = Tail(evq)
    /\ devices' = devices \ {Head(evq).dev}
    /\ s_connected_sem' = FALSE
    /\ epc' = "closed"
    /\ UNCHANGED <<conn_id, dev_connected, gapVars, procVars, semVars, bonds,
                   nVars, callVars, kVars, s_cmd_queue, s_disconnected_sem,
                   s_open_done_sem, s_hidh_dev, scanVars>>

\* [mutant] CLOSE leaves s_connected_sem up.
CbCloseKeepsConnected ==
    /\ epc = "idle" /\ evq # <<>> /\ Head(evq).type = "CLOSE"
    /\ Deliver
    /\ epc' = "closed"
    /\ UNCHANGED <<kVars, s_cmd_queue, sigVars, s_hidh_dev, scanVars>>

CbClose ==
    /\ epc = "idle" /\ evq # <<>> /\ Head(evq).type = "CLOSE"
    /\ Deliver
    /\ s_connected_sem' = FALSE
    /\ epc' = "closed"
    /\ UNCHANGED <<kVars, s_cmd_queue, s_disconnected_sem, s_open_done_sem,
                   s_hidh_dev, scanVars>>

\* [mutant] CLOSE does not give s_disconnected_sem.
CbDisconnectedSilent ==
    /\ epc = "closed"
    /\ epc' = "idle"
    /\ UNCHANGED <<linkVars, kVars, s_cmd_queue, sigVars, s_hidh_dev, scanVars>>

CbDisconnected ==
    /\ epc = "closed"
    /\ s_disconnected_sem' = TRUE
    /\ epc' = "idle"
    /\ UNCHANGED <<linkVars, kVars, s_cmd_queue, s_connected_sem, s_open_done_sem,
                   s_hidh_dev, scanVars>>

\* INPUT: translate_report touches none of this state.
CbInput ==
    /\ epc = "idle" /\ evq # <<>> /\ Head(evq).type = "INPUT"
    /\ Deliver
    /\ UNCHANGED kbdVars

EStep == CbOpen \/ CbConnected \/ CbOpenDone \/ CbClose \/ CbDisconnected \/ CbInput

-----------------------------------------------------------------------------
(* The host task and the application.                                      *)

\* collect_scan_cb: a named connectable device not yet in the list is appended
\* while there is room.
Advertise ==
    /\ scanning /\ npc = "idle"
    /\ Len(s_scan_devs) < MaxScan
    /\ \E a \in Addr :
          /\ \A i \in DOMAIN s_scan_devs : s_scan_devs[i] # a
          /\ s_scan_devs' = Append(s_scan_devs, a)
    /\ UNCHANGED <<linkVars, kVars, s_cmd_queue, sigVars, s_hidh_dev, selected,
                   epc>>

\* HidhLink's host steps.  Without "early_drop" the link only goes once K is in
\* the connected phase.
Host ==
    /\ HostStep
    /\ link # NoAddr /\ link' = NoAddr =>
          "early_drop" \in Faults \/ terminating \/ kpc = "online"
    /\ UNCHANGED kbdVars

\* [mutant] A full queue is not noticed.
SendCmdUnbounded(cmd) ==
    /\ s_cmd_queue' = Append(s_cmd_queue, cmd)
    /\ UNCHANGED <<linkVars, kVars, sigVars, s_hidh_dev, scanVars, epc>>

\* xQueueSend with a 10 ms timeout: a command is lost when the queue stays full.
SendCmd(cmd) ==
    /\ Len(s_cmd_queue) < CmdLen
    /\ s_cmd_queue' = Append(s_cmd_queue, cmd)
    /\ UNCHANGED <<linkVars, kVars, sigVars, s_hidh_dev, scanVars, epc>>

StartPairing == SendCmd(START)

SelectDevice ==
    /\ \/ SelectWhen = "anytime"
       \/ SelectWhen = "scanning" /\ s_state = "SCANNING"
       \/ SelectWhen = "callback" /\ kpc = "scan" /\ Queued \subseteq {START}
    /\ \E i \in Params : SendCmd(SELECT(i))

Restart ==
    /\ Reboot
    /\ kpc' = "top" /\ s_state' = "IDLE"
    /\ force_repair' = FALSE
    /\ s_cmd_queue' = <<>>
    /\ s_connected_sem' = FALSE /\ s_disconnected_sem' = FALSE
    /\ s_open_done_sem' = FALSE
    /\ s_hidh_dev' = NoAddr
    /\ s_scan_devs' = <<>> /\ selected' = 0
    /\ epc' = "idle"

Next ==
    \/ KStep \/ EStep
    \/ Advertise \/ Host \/ StartPairing \/ SelectDevice \/ Restart

Spec == Init /\ [][Next]_vars

\* K and E are tasks that always get to run; the host's own procedures end (see
\* HidhLink).  A keyboard that is in range and switched on answers a connect
\* sooner or later.  Nothing is assumed of the application, of advertising, or
\* of a link dropping on its own.
Fairness ==
    /\ SF_vars(KStep) /\ WF_vars(EStep) /\ WF_vars(Restart)
    /\ SF_vars(PostOpen /\ UNCHANGED kbdVars)
    /\ SF_vars(ConnectOk /\ Host)
    /\ SF_vars(EncChange /\ Host)
    /\ SF_vars((GattEnd(TRUE) \/ GattEnd(FALSE)) /\ Host)
    /\ SF_vars(LinkDrop /\ terminating /\ Host)
    /\ SF_vars((DisconnectLookup \/ ForgetConnId \/ PostClose \/ PostInput) /\ Host)

FairSpec == Spec /\ Fairness

-----------------------------------------------------------------------------
(* Properties that hold whatever the radio and the keyboard do.            *)

\* s_scan_devs[selected] is read 300 ms after the index was checked and with
\* the mutex released in between: the list must not have shrunk.
SelectedInRange ==
    kpc \in {"selected", "settle"} => selected < Len(s_scan_devs)

\* The scan loop never waits for devices with the radio not scanning, and
\* nothing leaves a scan running that would make a connect fail with EBUSY.
ScanLoopScans ==
    /\ InScanLoop => scanning
    /\ scanning => InScanLoop \/ kpc = "selected"

\* s_hidh_dev is set by hidh_cb on OPEN and kept until the next pairing; every
\* light reconnect and every close dereferences it.  It never outlives its
\* structure: a CLOSE keeps the structure, a failed open frees only its own.
HidhDevAlive ==
    s_hidh_dev # NoAddr => s_hidh_dev \in devices

-----------------------------------------------------------------------------
(* Properties that hold while links drop only in the connected phase and   *)
(* timed waits are long enough (Faults within {"peer_error"}).             *)

\* The two semaphores by which E tells K about the link: once events are
\* handled, they say in the connected phase what the link is, and no leftover
\* of one connection is there when the next is set up.
SignalsInSync ==
    /\ kpc = "online" /\ EventsHandled =>
          /\ s_disconnected_sem = (link = NoAddr)
          /\ s_connected_sem = (link # NoAddr)
          /\ link # NoAddr => s_hidh_dev = link
    /\ InScanLoop \/ kpc = "attempt" => ~s_disconnected_sem /\ ~s_connected_sem

\* The reconnect loop runs only without a link, so ble_gap_connect can work.
ReconnectHasNoLink == kpc = "attempt" => link = NoAddr

\* "ble_kbd_host_start_pairing() escapes from any state" (README.md): a START
\* that reached the queue leads to a new scan, whatever K was doing.
StartPairingHonoured == START \in Queued ~> kpc = "startScan"

\* "Automatic reconnection": a keyboard that was lost is connected again, or the
\* component is scanning because its bond is gone or a START came.
LostIsReconnected ==
    kpc = "online" /\ link = NoAddr ~>
        InScanLoop \/ (kpc = "online" /\ link # NoAddr /\ ~s_disconnected_sem)

\* The device that K deals with: the one selected, then the one that hidh_cb was
\* told of, and after a restart the one it finds in the store.
Partner ==
    CASE s_state = "SCANNING" -> NoAddr
      [] s_state = "CONNECTING" -> s_scan_devs[selected + 1]
      [] s_state \notin {"SCANNING", "CONNECTING"} ->
            IF s_hidh_dev # NoAddr THEN s_hidh_dev
            ELSE IF hdev # NoAddr THEN hdev
            ELSE IF link # NoAddr THEN link
            ELSE IF bonds # {} THEN CHOOSE a \in bonds : TRUE ELSE NoAddr

Promise == INSTANCE KbdPromise WITH
    state <- s_state, partner <- Partner, link <- link, store <- bonds

\* The component keeps its promise to deal with one keyboard, the one selected last:
\* K, E, the host task and every call of the HIDH layer together implement
\* KbdPromise, whatever command arrives when.
KeepsPromise == Promise!Spec

-----------------------------------------------------------------------------
(* What the documents say and the code does not do: see README.md.         *)

\* "BLE_KBD_STATE_CONNECTED, keyboard fully connected and usable"
\* (esp_ble_kbd_host.h:46): with all events handled, CONNECTED means that there
\* is a link or that K is about to learn that it is gone.
ConnectedIsUsable ==
    kpc = "online" /\ EventsHandled => link # NoAddr \/ s_disconnected_sem
=============================================================================
