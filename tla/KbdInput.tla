------------------------------ MODULE KbdInput ------------------------------
(***************************************************************************)
(* The data of src/bt_kbd.c whose control KbdHost models: the list of      *)
(* devices that a scan finds and the application selects from, and the     *)
(* keys of the reports and the key events made of them.                    *)
(*                                                                         *)
(* "kbd" is the task of kbd_main_task; "evt" is the event loop, which runs *)
(* hidh_cb and so translate_report; NimBLE's host runs collect_scan_cb.    *)
(* s_scan_mutex makes each access to the list one step.  s_prev_keys has   *)
(* no lock: kbd clears it while evt may be between two keys of a report.   *)
(***************************************************************************)
EXTENDS Naturals, Sequences, SequencesExt

CONSTANTS
    Devices,        \* devices that advertise, by address
    MaxDevs,        \* BLE_KBD_HOST_MAX_SCAN_DEVS
    MaxCmds,        \* entries of s_cmd_queue
    Keys,           \* keys of the keyboard
    ReportKeys,     \* keys that fit in a report of the keyboard
    MaxReports,     \* bound: reports that wait for the event loop
    MaxWork         \* bound: keys pressed, links lost, commands

ASSUME InputAssumption ==
    /\ Devices # {} /\ "none" \notin Devices /\ Keys # {} /\ "rollover" \notin Keys
    /\ MaxDevs \in Nat \ {0} /\ MaxCmds \in Nat \ {0} /\ ReportKeys \in Nat \ {0, 1}
    /\ MaxReports \in Nat \ {0} /\ MaxWork \in Nat

VARIABLES
    scan_devs,      \* s_scan_devs, up to s_scan_dev_count
    shown,          \* the application's copy, from on_scan_updated
    shown_now,      \* nothing has cleared the list since it was copied
    cmds,           \* s_cmd_queue
    kbd,            \* the task's place
    selected,       \* its index
    chosen,         \* the device it opens; history: the one it picked when it took the
                    \* SELECT, the one that the application meant
    prev_keys,      \* s_prev_keys
    evt,            \* the report that is translated, and the place in it
    reports,        \* reports that wait for the event loop
    link,           \* the keyboard is connected
    down,           \* keys that are held, in the order they were pressed
    last,           \* keys of the last report that named its keys, on this link
    again, missed,  \* history, for this link: a key event was made of a key that
                    \* was held already, or none of one that was not
    work,           \* bound
    odd             \* history, for this link: "early", "full", "rollover"

scanVars == <<scan_devs, shown, shown_now>>
keyVars  == <<prev_keys, evt, reports, down, last, again, missed>>
kbdVars  == <<cmds, kbd, selected, chosen>>
vars == <<scanVars, kbdVars, keyVars, link, work, odd>>

Start == [op |-> "start", index |-> 0, want |-> "none", now |-> TRUE]
NoChoice == [is |-> "none", picked |-> "none", want |-> "none", now |-> TRUE]
NoReport == [keys |-> <<>>, new |-> {}, at |-> 0]

Init ==
    /\ scan_devs = <<>> /\ shown = <<>> /\ shown_now = TRUE
    /\ cmds = <<>> /\ kbd = "top" /\ selected = 0 /\ chosen = NoChoice
    /\ prev_keys = {} /\ evt = NoReport /\ reports = <<>> /\ link = FALSE
    /\ down = <<>> /\ last = {} /\ again = FALSE /\ missed = FALSE /\ work = 0 /\ odd = {}

Work == work < MaxWork /\ work' = work + 1

-----------------------------------------------------------------------------
(* Scanning and selecting.                                                 *)

\* The list is emptied; what the application saw, or has selected, is of the past.
ClearDevs ==
    /\ scan_devs' = <<>> /\ shown_now' = FALSE
    /\ UNCHANGED shown
\* The SELECTs that wait are of the past, too.
Outdated(q) == [i \in DOMAIN q |-> [q[i] EXCEPT !.now = FALSE]]

\* [mutant] The list is kept with the newest device first.
CollectFirst(d) ==
    /\ kbd \in {"scan", "settle"}
    /\ d \notin ToSet(scan_devs) /\ Len(scan_devs) < MaxDevs
    /\ scan_devs' = <<d>> \o scan_devs
    /\ UNCHANGED <<shown, shown_now, kbdVars, keyVars, link, work, odd>>

\* collect_scan_cb: a new device is added while there is room.  The scan may have
\* been cancelled a moment ago.
Collect(d) ==
    /\ kbd \in {"scan", "settle"}
    /\ d \notin ToSet(scan_devs) /\ Len(scan_devs) < MaxDevs
    /\ scan_devs' = Append(scan_devs, d)
    /\ UNCHANGED <<shown, shown_now, kbdVars, keyVars, link, work, odd>>

StartScan ==
    /\ kbd = "pair" /\ kbd' = "scan"
    /\ ClearDevs /\ cmds' = Outdated(cmds)
    /\ UNCHANGED <<selected, chosen, keyVars, link, work, odd>>

\* on_scan_updated.
ShowDevs ==
    /\ kbd = "scan"
    /\ shown' = scan_devs /\ shown_now' = TRUE
    /\ UNCHANGED <<scan_devs, kbdVars, keyVars, link, work, odd>>

\* The application sends a command; one that finds the queue full is dropped.
SendCmd(c) ==
    /\ Len(cmds) < MaxCmds /\ Work
    /\ cmds' = Append(cmds, c)
    /\ UNCHANGED <<scanVars, kbd, selected, chosen, keyVars, link, odd>>
SendStart == SendCmd(Start)
SendSelect(i) ==
    /\ i \in DOMAIN shown
    /\ SendCmd([op |-> "select", index |-> i, want |-> shown[i], now |-> shown_now])

\* The command at the queue's head.
First(op) == cmds # <<>> /\ Head(cmds).op = op

\* The scan loop takes a command: START scans anew, a SELECT that is in the list
\* ends the scan, any other is dropped.
TakeStart ==
    /\ kbd = "scan" /\ First("start")
    /\ cmds' = Outdated(Tail(cmds)) /\ ClearDevs
    /\ UNCHANGED <<kbd, selected, chosen, keyVars, link, work, odd>>
TakeSelect ==
    /\ kbd = "scan" /\ First("select")
    /\ cmds' = Tail(cmds)
    /\ LET c == Head(cmds) IN
       IF c.index \in DOMAIN scan_devs
       THEN /\ kbd' = "settle" /\ selected' = c.index
            /\ chosen' = [is |-> "none", picked |-> scan_devs[c.index], want |-> c.want,
                          now |-> c.now]
       ELSE UNCHANGED <<kbd, selected, chosen>>
    /\ UNCHANGED <<scanVars, keyVars, link, work, odd>>

\* A scan that finds nothing is cancelled, and restarted three seconds later.
ScanTimeout ==
    /\ \/ /\ kbd = "scan" /\ scan_devs = <<>> /\ kbd' = "timeout"
          /\ UNCHANGED <<scanVars, cmds>>
       \/ kbd = "timeout" /\ kbd' = "scan" /\ ClearDevs /\ cmds' = Outdated(cmds)
    /\ UNCHANGED <<selected, chosen, keyVars, link, work, odd>>

OpenSelected ==
    /\ kbd = "settle" /\ kbd' = "open"
    /\ chosen' = [chosen EXCEPT !.is = scan_devs[selected]]
    /\ UNCHANGED <<scanVars, cmds, selected, keyVars, link, work, odd>>

-----------------------------------------------------------------------------
(* The link, as far as the keys see it.                                    *)

\* At the start, and when a link has ended: without a bond, pair.
Top ==
    /\ kbd = "top" /\ kbd' \in {"pair", "lost"}
    /\ chosen' = IF kbd' = "pair" THEN NoChoice ELSE chosen
    /\ UNCHANGED <<scanVars, cmds, selected, keyVars, link, work, odd>>

\* OPEN_EVENT, which is behind all events of the link before.
Opened ==
    /\ kbd \in {"open", "reopen"} /\ ~link /\ reports = <<>> /\ evt = NoReport
    /\ link' = TRUE /\ kbd' = "clear"
    /\ last' = {} /\ again' = FALSE /\ missed' = FALSE /\ odd' = {}
    /\ UNCHANGED <<scanVars, cmds, selected, chosen, prev_keys, evt, reports, down, work>>
\* The open of a selected device fails, or is given up for a START at the queue's
\* head, which is taken.
OpenFails ==
    /\ kbd = "open" /\ kbd' = "pair" /\ chosen' = NoChoice
    /\ cmds' = cmds \/ (First("start") /\ cmds' = Tail(cmds))
    /\ UNCHANGED <<scanVars, selected, keyVars, link, work, odd>>
\* A reconnection fails; or is given up for a START, which stays in the queue.
ReopenFails ==
    /\ kbd = "reopen" /\ kbd' = "lost"
    /\ UNCHANGED <<scanVars, cmds, selected, chosen, keyVars, link, work, odd>>

\* [mutant] The keys of the last link are kept.
ClearKeysNot ==
    /\ kbd = "clear" /\ kbd' = "connected"
    /\ UNCHANGED <<prev_keys, scanVars, cmds, selected, chosen, evt, reports, down, last, again,
                   missed, link, work, odd>>

ClearKeys ==
    /\ kbd = "clear" /\ kbd' = "connected"
    /\ prev_keys' = {}
    /\ odd' = odd \cup IF evt = NoReport THEN {} ELSE {"early"}
    /\ UNCHANGED <<scanVars, cmds, selected, chosen, evt, reports, down, last, again, missed,
                   link, work>>

\* The link is lost; or it is closed because of a START, to pair again.
LinkLost ==
    /\ link /\ Work
    /\ link' = FALSE
    /\ UNCHANGED <<scanVars, kbdVars, keyVars, odd>>
SeeLost ==
    /\ kbd = "connected" /\ ~link /\ reports = <<>> /\ evt = NoReport
    /\ kbd' = "top"
    /\ UNCHANGED <<scanVars, cmds, selected, chosen, keyVars, link, work, odd>>
Repair ==
    /\ kbd = "connected" /\ First("start")
    /\ cmds' = Tail(cmds) /\ kbd' = "pair" /\ chosen' = NoChoice
    /\ link' = FALSE
    /\ UNCHANGED <<scanVars, selected, keyVars, work, odd>>

\* wait_for_start_pairing: a SELECT is dropped, a START pairs again; once the queue is
\* empty the reconnection is tried.
LostDrop ==
    /\ kbd = "lost" /\ First("select") /\ cmds' = Tail(cmds)
    /\ UNCHANGED <<scanVars, kbd, selected, chosen, keyVars, link, work, odd>>
LostStart ==
    /\ kbd = "lost" /\ First("start") /\ cmds' = Tail(cmds)
    /\ kbd' = "pair" /\ chosen' = NoChoice
    /\ UNCHANGED <<scanVars, selected, keyVars, link, work, odd>>
Reconnect ==
    /\ kbd = "lost" /\ cmds = <<>> /\ kbd' = "reopen"
    /\ UNCHANGED <<scanVars, cmds, selected, chosen, keyVars, link, work, odd>>

-----------------------------------------------------------------------------
(* Keys.                                                                   *)

\* The keyboard puts the keys that are held in a report, if they fit.
ReportOf(held) ==
    IF Len(held) <= ReportKeys THEN held ELSE [i \in 1 .. ReportKeys |-> "rollover"]
\* The host looks at one byte too early: at the reserved byte, and all but the last
\* key.
Seen(r) == IF Len(r) = ReportKeys THEN Front(r) ELSE r

Send(held) ==
    \/ ~link /\ UNCHANGED <<reports, last, odd>>
    \/ /\ link /\ Len(reports) < MaxReports
       /\ LET fits == Len(held) <= ReportKeys IN
          /\ reports' = Append(reports, [keys |-> ReportOf(held), at |-> 0,
                                        new |-> IF fits THEN ToSet(held) \ last ELSE {}])
          /\ last' = IF fits THEN ToSet(held) ELSE last
          /\ odd' = odd \cup IF Len(held) < ReportKeys THEN {}
                             ELSE IF fits THEN {"full"} ELSE {"rollover"}
Press(k) ==
    /\ k \notin ToSet(down) /\ Work
    /\ down' = Append(down, k) /\ Send(down')
    /\ UNCHANGED <<scanVars, kbdVars, prev_keys, evt, again, missed, link>>
Release(i) ==
    /\ i \in DOMAIN down
    /\ down' = RemoveAt(down, i) /\ Send(down')
    /\ UNCHANGED <<scanVars, kbdVars, prev_keys, evt, again, missed, link, work>>
\* The same report again, at the keyboard's idle rate.
Repeat ==
    /\ link /\ Send(down)
    /\ UNCHANGED <<scanVars, kbdVars, prev_keys, evt, down, again, missed, link, work>>

TakeReport ==
    /\ evt = NoReport /\ reports # <<>>
    /\ evt' = [Head(reports) EXCEPT !.keys = Seen(@), !.at = 1] /\ reports' = Tail(reports)
    /\ odd' = odd \cup IF kbd = "clear" THEN {"early"} ELSE {}
    /\ UNCHANGED <<scanVars, kbdVars, prev_keys, down, last, again, missed, link, work>>

\* One key of the report, which makes a key event if it was not in the one before.
\* A rollover code is not a key.
TranslateKey ==
    /\ evt.at \in DOMAIN evt.keys
    /\ LET k == evt.keys[evt.at]
           event == k \notin prev_keys /\ k # "rollover"
       IN /\ again' = (again \/ (event /\ k \notin evt.new))
          /\ evt' = [evt EXCEPT !.at = @ + 1, !.new = IF event THEN @ \ {k} ELSE @]
    /\ UNCHANGED <<scanVars, kbdVars, prev_keys, reports, down, last, missed, link, work, odd>>

\* [mutant] The keys of a report of one key are not kept.
TranslateEndForgets ==
    /\ evt # NoReport /\ evt.at = Len(evt.keys) + 1
    /\ prev_keys' = IF Len(evt.keys) = 1 THEN {} ELSE ToSet(evt.keys)
    /\ missed' = (missed \/ evt.new # {}) /\ evt' = NoReport
    /\ UNCHANGED <<scanVars, kbdVars, reports, down, last, again, link, work, odd>>

TranslateEnd ==
    /\ evt # NoReport /\ evt.at = Len(evt.keys) + 1
    /\ prev_keys' = ToSet(evt.keys)
    /\ missed' = (missed \/ evt.new # {}) /\ evt' = NoReport
    /\ UNCHANGED <<scanVars, kbdVars, reports, down, last, again, link, work, odd>>

Kbd == \/ StartScan \/ ShowDevs \/ TakeStart \/ TakeSelect \/ ScanTimeout \/ OpenSelected
       \/ Top \/ Opened \/ OpenFails \/ ReopenFails \/ ClearKeys \/ SeeLost \/ Repair
       \/ LostDrop \/ LostStart \/ Reconnect
Evt == TakeReport \/ TranslateKey \/ TranslateEnd
World == \/ LinkLost \/ SendStart \/ Repeat
         \/ \E d \in Devices : Collect(d)
         \/ \E i \in 1 .. MaxDevs : SendSelect(i)
         \/ \E k \in Keys : Press(k)
         \/ \E i \in DOMAIN down : Release(i)
Next == Kbd \/ Evt \/ World
Spec == Init /\ [][Next]_vars

-----------------------------------------------------------------------------
(* Properties.                                                             *)

\* The device that is opened is the one at the index when the SELECT was taken,
\* however the list has changed in the 300 ms in between; and it is the one that the
\* application meant, if nothing cleared the list after the application had seen it.
SelectedIsShown ==
    chosen.is # "none" => /\ chosen.is = chosen.picked
                          /\ chosen.now => chosen.is = chosen.want

\* The device that is opened is the one that the application meant: that at the
\* index in the list that on_scan_updated gave it last, as the header says
\* (esp_ble_kbd_host.h:138).
SelectionIsMeant == chosen.is # "none" => chosen.is = chosen.want

\* A key that is held makes one key event, unless a report with it came before kbd
\* cleared s_prev_keys for this link, or too many keys were held.
NoKeyTwice == again => odd # {}

\* A key that is pressed makes a key event, unless a report with it came before kbd
\* cleared s_prev_keys for this link, or it is the last key of a full report.
NoKeyMissed == missed => odd \cap {"early", "full"} # {}
=============================================================================
