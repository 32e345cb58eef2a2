------------------------------ MODULE HidhLink ------------------------------
(***************************************************************************)
(* The BLE HID host layer: esp_hid/src/nimble_hidh.c with the device list  *)
(* of esp_hid/src/esp_hidh.c, on top of the NimBLE host and one radio link *)
(* (CONFIG_BT_NIMBLE_MAX_CONNECTIONS=1).                                   *)
(*                                                                         *)
(* Three parties share this state: the task that calls                     *)
(* esp_hidh_dev_open / esp_ble_hidh_dev_reconnect / esp_hidh_dev_close and *)
(* blocks inside them (the caller), the NimBLE host task that runs the GAP *)
(* and GATT callbacks (N), and the event task that empties the esp_event   *)
(* queue.  A device structure is identified by the address of its peer:    *)
(* esp_hidh_dev_open refuses a second structure for an address in the list.*)
(* A connection handle is identified by the peer of the link it names.     *)
(***************************************************************************)
EXTENDS Naturals, Sequences

CONSTANTS
    Addr,           \* addresses of the keyboards in radio range
    NoAddr,         \* stands for a NULL device, for no link, for no peer
    DiscoveryOps,   \* GATT procedures of one read_device_services, in order
    ListenerOps,    \* CCC writes of one attach_report_listeners
    EvqLen,         \* queue_size of the esp_hidh event loop (5 in the code)
    Faults          \* what the radio and the peer may do: see FaultKinds

\* "early_drop": the link may drop while a connection is being set up;
\* "peer_error": the keyboard may answer a GATT procedure with an error.
\* The other two are about timing and belong to KbdHost.
FaultKinds == {"early_drop", "peer_error", "slow_close", "late_event"}

ASSUME NoAddrAssumption == NoAddr \notin Addr
ASSUME ScriptAssumption == /\ DiscoveryOps \in Seq({"disc", "read"})
                           /\ ListenerOps \in Seq({"write"})
ASSUME EvqLenAssumption == EvqLen \in Nat \ {0}
ASSUME FaultsAssumption == Faults \subseteq FaultKinds

VARIABLES
    devices,        \* s_esp_hidh_devices: addresses that have a structure
    conn_id,        \* dev->ble.conn_id names a link (TRUE) or is -1 (FALSE)
    dev_connected,  \* dev->connected
    link,           \* peer of the link the host holds
    gap_conn,       \* peer of the GAP connect procedure in progress
    scanning,       \* a GAP discovery procedure is running
    pairing,        \* a security procedure is running on the link
    terminating,    \* the host was told to terminate the link
    gatt_op,        \* the caller's GATT procedure running on the link
    cb_sem,         \* s_ble_hidh_cb_semaphore (WAIT_CB / SEND_CB)
    sec_sem,        \* s_ble_hidh_sec_semaphore
    status_ok,      \* `status = 0' after the last discovery callback
    bonds,          \* peers with keys in the persistent store
    npc, ndev,      \* N inside its DISCONNECT or NOTIFY_RX case, and its dev
    evq,            \* the event loop's queue
    hpc,            \* where the caller is inside a call
    hcall, hdev,    \* which call, on which device
    todo            \* what is left of the call once security is done

devVars  == <<devices, conn_id, dev_connected>>
gapVars  == <<link, gap_conn, scanning, terminating>>
procVars == <<pairing, gatt_op, status_ok>>
semVars  == <<cb_sem, sec_sem>>
nVars    == <<npc, ndev>>
callVars == <<hpc, hcall, hdev, todo>>
linkVars == <<devVars, gapVars, procVars, semVars, bonds, nVars, evq, callVars>>

Event == [type : {"OPEN", "CLOSE", "INPUT"}, dev : Addr]
Ev(t, a) == [type |-> t, dev |-> a]

\* What a call does after security, in program order.  A full open discovers
\* the services, marks the device connected, posts OPEN and subscribes; a
\* light reconnect skips discovery and posts OPEN after it has subscribed.
Script(call) ==
    IF call = "open"
    THEN DiscoveryOps \o <<"connected", "post">> \o ListenerOps
    ELSE <<"connected">> \o ListenerOps \o <<"post">>

OpsKinds == {"disc", "read", "write", "connected", "post"}

TypeOK ==
    /\ devices \subseteq Addr
    /\ conn_id \in [Addr -> BOOLEAN]
    /\ dev_connected \in [Addr -> BOOLEAN]
    /\ link \in Addr \cup {NoAddr}
    /\ gap_conn \in Addr \cup {NoAddr}
    /\ scanning \in BOOLEAN
    /\ pairing \in BOOLEAN
    /\ terminating \in BOOLEAN
    /\ gatt_op \in {"none", "disc", "read", "write"}
    /\ cb_sem \in BOOLEAN
    /\ sec_sem \in BOOLEAN
    /\ status_ok \in BOOLEAN
    /\ bonds \subseteq Addr
    /\ npc \in {"idle", "lookup", "forget", "closing", "post", "input"}
    /\ ndev \in Addr \cup {NoAddr}
    /\ evq \in Seq(Event) /\ Len(evq) <= EvqLen
    /\ hpc \in {"none", "connect", "secure", "encrypt", "run", "wait",
                "failed", "opened", "aborted"}
    /\ hcall \in {"open", "reconnect"}
    /\ hdev \in Addr \cup {NoAddr}
    /\ todo \in Seq(OpsKinds)

\* Nothing but the store survives a reboot; any bonds may be in it.
LinkInit ==
    /\ devices = {}
    /\ conn_id = [a \in Addr |-> FALSE]
    /\ dev_connected = [a \in Addr |-> FALSE]
    /\ link = NoAddr /\ gap_conn = NoAddr
    /\ scanning = FALSE /\ pairing = FALSE /\ terminating = FALSE
    /\ gatt_op = "none" /\ status_ok = TRUE
    /\ cb_sem = FALSE /\ sec_sem = FALSE
    /\ npc = "idle" /\ ndev = NoAddr
    /\ evq = <<>>
    /\ hpc = "none" /\ hcall = "open" /\ hdev = NoAddr /\ todo = <<>>
    /\ bonds \in SUBSET Addr

-----------------------------------------------------------------------------
(* The calls.  A call starts only when the previous one has returned.      *)

\* ble_gap_connect: one procedure and one link at a time, and none while a
\* discovery procedure runs.
ConnectRefused == link # NoAddr \/ gap_conn # NoAddr \/ scanning

\* [mutant] The drain loop of the security semaphore is left out.
DrainCbSemOnly == cb_sem' = FALSE /\ UNCHANGED sec_sem

\* The loops at the start of both calls that empty the two semaphores.
DrainSems == cb_sem' = FALSE /\ sec_sem' = FALSE

\* esp_hidh_dev_open up to WAIT_CB.  A refused connect frees the structure
\* it has just allocated.
DevOpen(a) ==
    /\ hpc = "none"
    /\ hcall' = "open" /\ hdev' = a
    /\ IF a \in devices
       THEN hpc' = "failed" /\ UNCHANGED <<devVars, gap_conn, semVars>>
       ELSE /\ DrainSems
            /\ IF ConnectRefused
               THEN hpc' = "failed" /\ UNCHANGED <<devVars, gap_conn>>
               ELSE /\ hpc' = "connect"
                    /\ gap_conn' = a
                    /\ devices' = devices \cup {a}
                    /\ conn_id' = [conn_id EXCEPT ![a] = FALSE]
                    /\ dev_connected' = [dev_connected EXCEPT ![a] = FALSE]
    /\ UNCHANGED <<link, scanning, terminating, procVars, bonds, nVars, evq, todo>>

\* esp_ble_hidh_dev_reconnect up to WAIT_CB.
DevReconnect(a) ==
    /\ hpc = "none"
    /\ a \in devices
    /\ hcall' = "reconnect" /\ hdev' = a
    /\ DrainSems
    /\ IF ConnectRefused
       THEN hpc' = "failed" /\ UNCHANGED gap_conn
       ELSE hpc' = "connect" /\ gap_conn' = a
    /\ UNCHANGED <<devVars, link, scanning, terminating, procVars, bonds, nVars,
                   evq, todo>>

\* [mutant] A failed call frees the structure, a light reconnect's too.
ConnectReturnFreesAlways ==
    /\ hpc = "connect" /\ cb_sem
    /\ cb_sem' = FALSE
    /\ IF conn_id[hdev]
       THEN hpc' = "secure" /\ UNCHANGED devices
       ELSE hpc' = "failed" /\ devices' = devices \ {hdev}
    /\ UNCHANGED <<conn_id, dev_connected, gapVars, procVars, sec_sem, bonds,
                   nVars, evq, hcall, hdev, todo>>

\* WAIT_CB returns and the caller looks at dev->ble.conn_id: the connection
\* may have failed, or may be gone again already.
ConnectReturn ==
    /\ hpc = "connect" /\ cb_sem
    /\ cb_sem' = FALSE
    /\ IF conn_id[hdev]
       THEN hpc' = "secure" /\ UNCHANGED devices
       ELSE /\ hpc' = "failed"
            /\ devices' = IF hcall = "open" THEN devices \ {hdev} ELSE devices
    /\ UNCHANGED <<conn_id, dev_connected, gapVars, procVars, sec_sem, bonds,
                   nVars, evq, hcall, hdev, todo>>

\* The link the caller's conn_id names is there for the host to work on.
LinkAlive == link = hdev /\ conn_id[hdev]

InitiateSecurity ==
    /\ hpc = "secure"
    /\ todo' = Script(hcall)
    /\ IF LinkAlive
       THEN pairing' = TRUE /\ hpc' = "encrypt"
       ELSE hpc' = "run" /\ UNCHANGED pairing
    /\ UNCHANGED <<devVars, gapVars, gatt_op, status_ok, semVars, bonds, nVars,
                   evq, hcall, hdev>>

SecurityReturn ==
    /\ hpc = "encrypt" /\ sec_sem
    /\ sec_sem' = FALSE /\ hpc' = "run"
    /\ UNCHANGED <<devVars, gapVars, procVars, cb_sem, bonds, nVars, evq,
                   hcall, hdev, todo>>

\* The 30 s of the security wait run out; the caller goes on as if it were done.
SecurityTimeout ==
    /\ hpc = "encrypt" /\ ~sec_sem
    /\ hpc' = "run"
    /\ UNCHANGED <<devVars, gapVars, procVars, semVars, bonds, nVars, evq,
                   hcall, hdev, todo>>

\* The next GATT procedure.  When the host cannot start it, read_char and
\* read_descr return; discovery and the CCC writes wait for a callback anyway.
StartGattOp ==
    /\ hpc = "run" /\ todo # <<>>
    /\ Head(todo) \in {"disc", "read", "write"}
    /\ IF LinkAlive
       THEN gatt_op' = Head(todo) /\ hpc' = "wait" /\ UNCHANGED todo
       ELSE /\ UNCHANGED gatt_op
            /\ IF Head(todo) = "read"
               THEN todo' = Tail(todo) /\ UNCHANGED hpc
               ELSE hpc' = "wait" /\ UNCHANGED todo
    /\ UNCHANGED <<devVars, gapVars, pairing, status_ok, semVars, bonds, nVars,
                   evq, hcall, hdev>>

\* WAIT_CB after a GATT procedure; a discovery that failed fails an assert.
GattReturn ==
    /\ hpc = "wait" /\ cb_sem
    /\ cb_sem' = FALSE
    /\ IF Head(todo) = "disc" /\ ~status_ok
       THEN hpc' = "aborted" /\ UNCHANGED todo
       ELSE hpc' = "run" /\ todo' = Tail(todo)
    /\ UNCHANGED <<devVars, gapVars, procVars, sec_sem, bonds, nVars, evq,
                   hcall, hdev>>

MarkConnected ==
    /\ hpc = "run" /\ todo # <<>> /\ Head(todo) = "connected"
    /\ dev_connected' = [dev_connected EXCEPT ![hdev] = TRUE]
    /\ todo' = Tail(todo)
    /\ UNCHANGED <<devices, conn_id, gapVars, procVars, semVars, bonds, nVars,
                   evq, hpc, hcall, hdev>>

\* esp_event_post_to(..., OPEN, ..., portMAX_DELAY): waits while the queue is full.
PostOpen ==
    /\ hpc = "run" /\ todo # <<>> /\ Head(todo) = "post"
    /\ Len(evq) < EvqLen
    /\ evq' = Append(evq, Ev("OPEN", hdev))
    /\ todo' = Tail(todo)
    /\ UNCHANGED <<devVars, gapVars, procVars, semVars, bonds, nVars, hpc,
                   hcall, hdev>>

CallDone ==
    /\ hpc = "run" /\ todo = <<>>
    /\ hpc' = "opened"
    /\ UNCHANGED <<devVars, gapVars, procVars, semVars, bonds, nVars, evq,
                   hcall, hdev, todo>>

CallStep ==
    \/ ConnectReturn \/ InitiateSecurity \/ SecurityReturn \/ SecurityTimeout
    \/ StartGattOp \/ GattReturn \/ MarkConnected \/ PostOpen \/ CallDone

\* The caller reads the result (NULL for "failed", the device for "opened").
TakeResult ==
    /\ hpc \in {"failed", "opened"}
    /\ hpc' = "none" /\ hcall' = "open" /\ hdev' = NoAddr /\ todo' = <<>>
    /\ UNCHANGED <<devVars, gapVars, procVars, semVars, bonds, nVars, evq>>

\* esp_hidh_dev_close on a device of the list: ble_gap_terminate(conn_id), which
\* fails without effect when conn_id names no link.  It does not wait.
DevClose(a) ==
    /\ hpc = "none"
    /\ a \in devices
    /\ terminating' = (terminating \/ (link = a /\ conn_id[a]))
    /\ UNCHANGED <<devVars, link, gap_conn, scanning, procVars, semVars, bonds,
                   nVars, evq, callVars>>

\* ble_gap_disc, ble_gap_disc_cancel and ble_store_clear.
Disc ==
    /\ hpc = "none" /\ ~scanning /\ gap_conn = NoAddr
    /\ scanning' = TRUE
    /\ UNCHANGED <<devVars, link, gap_conn, terminating, procVars, semVars, bonds,
                   nVars, evq, callVars>>

DiscCancel ==
    /\ hpc = "none"
    /\ scanning' = FALSE
    /\ UNCHANGED <<devVars, link, gap_conn, terminating, procVars, semVars, bonds,
                   nVars, evq, callVars>>

StoreClear ==
    /\ hpc = "none"
    /\ bonds' = {}
    /\ UNCHANGED <<devVars, gapVars, procVars, semVars, nVars, evq, callVars>>

-----------------------------------------------------------------------------
(* The NimBLE host task: its own procedures (modelled from how the code    *)
(* uses them) and esp_hidh_gattc_event_handler.                            *)

\* BLE_GAP_EVENT_CONNECT, status 0.
ConnectOk ==
    /\ npc = "idle" /\ gap_conn # NoAddr
    /\ link' = gap_conn /\ gap_conn' = NoAddr
    /\ conn_id' = [a \in Addr |-> IF a = gap_conn /\ a \in devices
                                  THEN TRUE ELSE conn_id[a]]
    /\ cb_sem' = TRUE
    /\ UNCHANGED <<devices, dev_connected, scanning, terminating, procVars,
                   sec_sem, bonds, nVars, evq, callVars>>

\* BLE_GAP_EVENT_CONNECT with an error, the connect timeout included.
ConnectFail ==
    /\ npc = "idle" /\ gap_conn # NoAddr
    /\ gap_conn' = NoAddr
    /\ cb_sem' = TRUE
    /\ UNCHANGED <<devVars, link, scanning, terminating, procVars, sec_sem, bonds,
                   nVars, evq, callVars>>

\* [mutant] ENC_CHANGE gives the semaphore of WAIT_CB.
EncChangeWakesCaller ==
    /\ npc = "idle" /\ pairing
    /\ pairing' = FALSE
    /\ cb_sem' = TRUE
    /\ bonds' \in {bonds, bonds \cup {link}}
    /\ UNCHANGED <<devVars, gapVars, gatt_op, status_ok, sec_sem, nVars, evq,
                   callVars>>

\* BLE_GAP_EVENT_ENC_CHANGE: the security procedure ends, with a bond or not.
EncChange ==
    /\ npc = "idle" /\ pairing
    /\ pairing' = FALSE
    /\ sec_sem' = TRUE
    /\ bonds' \in {bonds, bonds \cup {link}}
    /\ UNCHANGED <<devVars, gapVars, gatt_op, status_ok, cb_sem, nVars, evq,
                   callVars>>

\* BLE_GAP_EVENT_REPEAT_PAIRING: the old bond goes, the procedure continues.
RepeatPairing ==
    /\ npc = "idle" /\ pairing /\ link \in bonds
    /\ bonds' = bonds \ {link}
    /\ UNCHANGED <<devVars, gapVars, procVars, semVars, nVars, evq, callVars>>

\* [mutant] on_write does not call SEND_CB either.
GattEndSilentWrite(ok) ==
    /\ npc = "idle" /\ gatt_op # "none"
    /\ ok \/ "peer_error" \in Faults
    /\ gatt_op' = "none"
    /\ cb_sem' = (cb_sem \/ (ok /\ gatt_op # "write"))
    /\ status_ok' = IF gatt_op = "disc" THEN ok ELSE status_ok
    /\ UNCHANGED <<devVars, gapVars, pairing, sec_sem, bonds, nVars, evq,
                   callVars>>

\* The callback that ends a GATT procedure.  nimble_on_read does not call
\* SEND_CB for an error; on_subscribe and on_write call it whatever the status.
GattEnd(ok) ==
    /\ npc = "idle" /\ gatt_op # "none"
    /\ ok \/ "peer_error" \in Faults
    /\ gatt_op' = "none"
    /\ cb_sem' = (ok \/ gatt_op # "read" \/ cb_sem)
    /\ status_ok' = IF gatt_op = "disc" THEN ok ELSE status_ok
    /\ UNCHANGED <<devVars, gapVars, pairing, sec_sem, bonds, nVars, evq,
                   callVars>>

\* The link ends.  The host first fails the procedures running on it, each
\* through its callback, then delivers BLE_GAP_EVENT_DISCONNECT.
LinkDrop ==
    /\ npc = "idle" /\ link # NoAddr
    /\ "early_drop" \in Faults \/ hpc = "none" \/ terminating
    /\ link' = NoAddr /\ terminating' = FALSE
    /\ pairing' = FALSE /\ gatt_op' = "none"
    /\ sec_sem' = (sec_sem \/ pairing)
    /\ cb_sem' = (cb_sem \/ gatt_op \in {"disc", "write"})
    /\ status_ok' = (status_ok /\ gatt_op # "disc")
    /\ npc' = "lookup" /\ ndev' = link
    /\ UNCHANGED <<devVars, gap_conn, scanning, bonds, evq, callVars>>

\* [mutant] dev->ble.conn_id is reset before the rest of the handler.
DisconnectLookupResets ==
    /\ npc = "lookup"
    /\ IF ndev \in devices /\ conn_id[ndev]
       THEN /\ npc' = IF dev_connected[ndev] THEN "closing" ELSE "forget"
            /\ dev_connected' = [dev_connected EXCEPT ![ndev] = FALSE]
            /\ conn_id' = [conn_id EXCEPT ![ndev] = FALSE]
            /\ UNCHANGED ndev
       ELSE npc' = "idle" /\ ndev' = NoAddr /\ UNCHANGED <<conn_id, dev_connected>>
    /\ UNCHANGED <<devices, gapVars, procVars, semVars, bonds, evq, callVars>>

\* esp_hidh_dev_get_by_conn_id, then the test of dev->connected.
DisconnectLookup ==
    /\ npc = "lookup"
    /\ IF ndev \in devices /\ conn_id[ndev]
       THEN /\ npc' = IF dev_connected[ndev] THEN "closing" ELSE "forget"
            /\ dev_connected' = [dev_connected EXCEPT ![ndev] = FALSE]
            /\ UNCHANGED ndev
       ELSE npc' = "idle" /\ ndev' = NoAddr /\ UNCHANGED dev_connected
    /\ UNCHANGED <<devices, conn_id, gapVars, procVars, semVars, bonds, evq,
                   callVars>>

\* [mutant] dev->ble.conn_id keeps the handle of the link that is gone.
ForgetConnIdNot ==
    /\ npc \in {"forget", "closing"}
    /\ IF npc = "closing" THEN npc' = "post" /\ UNCHANGED ndev
                          ELSE npc' = "idle" /\ ndev' = NoAddr
    /\ UNCHANGED <<devVars, gapVars, procVars, semVars, bonds, evq, callVars>>

\* dev->status and then dev->ble.conn_id are written; a device that was
\* connected also gets a CLOSE event.
ForgetConnId ==
    /\ npc \in {"forget", "closing"}
    /\ conn_id' = [conn_id EXCEPT ![ndev] = FALSE]
    /\ IF npc = "closing" THEN npc' = "post" /\ UNCHANGED ndev
                          ELSE npc' = "idle" /\ ndev' = NoAddr
    /\ UNCHANGED <<devices, dev_connected, gapVars, procVars, semVars, bonds, evq,
                   callVars>>

\* [mutant] A full queue is not waited for.
PostCloseUnbounded ==
    /\ npc = "post"
    /\ evq' = Append(evq, Ev("CLOSE", ndev))
    /\ npc' = "idle" /\ ndev' = NoAddr
    /\ UNCHANGED <<devVars, gapVars, procVars, semVars, bonds, callVars>>

\* [mutant] The handler takes a lock that a call holds until it returns.
PostCloseLocked ==
    /\ npc = "post" /\ Len(evq) < EvqLen /\ hpc = "none"
    /\ evq' = Append(evq, Ev("CLOSE", ndev))
    /\ npc' = "idle" /\ ndev' = NoAddr
    /\ UNCHANGED <<devVars, gapVars, procVars, semVars, bonds, callVars>>

PostClose ==
    /\ npc = "post" /\ Len(evq) < EvqLen
    /\ evq' = Append(evq, Ev("CLOSE", ndev))
    /\ npc' = "idle" /\ ndev' = NoAddr
    /\ UNCHANGED <<devVars, gapVars, procVars, semVars, bonds, callVars>>

\* BLE_GAP_EVENT_NOTIFY_RX for a device whose reports are known: not before
\* the first procedure of a full open has completed.
NotifyRx ==
    /\ npc = "idle" /\ link # NoAddr
    /\ link \in devices /\ conn_id[link]
    /\ ~(hcall = "open" /\ hdev = link /\
         (hpc \in {"connect", "secure", "encrypt"} \/ todo = Script("open")))
    /\ npc' = "input" /\ ndev' = link
    /\ UNCHANGED <<devVars, gapVars, procVars, semVars, bonds, evq, callVars>>

PostInput ==
    /\ npc = "input" /\ Len(evq) < EvqLen
    /\ evq' = Append(evq, Ev("INPUT", ndev))
    /\ npc' = "idle" /\ ndev' = NoAddr
    /\ UNCHANGED <<devVars, gapVars, procVars, semVars, bonds, callVars>>

HostStep ==
    \/ ConnectOk \/ ConnectFail \/ EncChange \/ RepeatPairing
    \/ GattEnd(TRUE) \/ GattEnd(FALSE) \/ LinkDrop
    \/ DisconnectLookup \/ ForgetConnId \/ PostClose \/ NotifyRx \/ PostInput

-----------------------------------------------------------------------------
\* The event task takes an event off the queue and runs the callback on it.
Deliver ==
    /\ evq # <<>>
    /\ evq' = Tail(evq)
    /\ UNCHANGED <<devVars, gapVars, procVars, semVars, bonds, nVars, callVars>>

\* A failed assert reboots the chip: only the store survives.
Reboot ==
    /\ hpc = "aborted"
    /\ devices' = {}
    /\ conn_id' = [a \in Addr |-> FALSE]
    /\ dev_connected' = [a \in Addr |-> FALSE]
    /\ link' = NoAddr /\ gap_conn' = NoAddr
    /\ scanning' = FALSE /\ pairing' = FALSE /\ terminating' = FALSE
    /\ gatt_op' = "none" /\ status_ok' = TRUE
    /\ cb_sem' = FALSE /\ sec_sem' = FALSE
    /\ npc' = "idle" /\ ndev' = NoAddr
    /\ evq' = <<>>
    /\ hpc' = "none" /\ hcall' = "open" /\ hdev' = NoAddr /\ todo' = <<>>
    /\ UNCHANGED bonds

LinkNext ==
    \/ \E a \in Addr : DevOpen(a) \/ DevReconnect(a) \/ DevClose(a)
    \/ TakeResult \/ Disc \/ DiscCancel \/ StoreClear
    \/ CallStep \/ HostStep \/ Deliver \/ Reboot

LinkSpec == LinkInit /\ [][LinkNext]_linkVars

\* Procedures of the host end: ble_gap_connect has a timeout, SM and ATT have
\* 30 s timers, a link being terminated goes down by its supervision timeout.
\* The host task serves its events in order and FreeRTOS wakes a blocked sender
\* when there is room, so notifications, which arrive far slower than they are
\* handled, do not starve either: strong fairness.
LinkFairness ==
    /\ WF_linkVars(CallStep \/ TakeResult) /\ SF_linkVars(PostOpen)
    /\ WF_linkVars(ConnectOk \/ ConnectFail)
    /\ SF_linkVars(EncChange)
    /\ SF_linkVars(GattEnd(TRUE) \/ GattEnd(FALSE))
    /\ SF_linkVars(LinkDrop /\ terminating)
    /\ SF_linkVars(DisconnectLookup \/ ForgetConnId \/ PostClose \/ PostInput)
    /\ WF_linkVars(Deliver)

FairLinkSpec == LinkSpec /\ LinkFairness

-----------------------------------------------------------------------------
(* Properties.                                                             *)

\* WAIT_CB/SEND_CB: one binary semaphore serves the connect procedure and all
\* GATT procedures, so an extra SEND_CB (a late callback, a disconnect) would
\* wake the caller before its own procedure has answered.  It never does: the
\* semaphore is up only while the caller waits and nothing of it is pending, and
\* nothing is pending that the caller does not wait for.
NoStaleWake ==
    /\ cb_sem => hpc \in {"connect", "wait"} /\ gatt_op = "none"
    /\ hpc = "connect" => cb_sem = (gap_conn = NoAddr)
    /\ gap_conn # NoAddr => hpc = "connect" /\ hdev = gap_conn
    /\ gatt_op # "none" => /\ hpc = "wait" /\ Head(todo) = gatt_op
                           /\ link = hdev

\* The 30 s security wait is drained before the connect, not before
\* ble_gap_security_initiate, and may be given up with the procedure still
\* running; still no ENC_CHANGE of an earlier link ends the wait of a later one.
NoStaleSecurity == hpc = "encrypt" => sec_sem = ~pairing

\* Device structures somebody holds a pointer to: N inside its handler, the
\* events in the queue, the caller inside a call and its result.
HeldDevices ==
    {evq[i].dev : i \in DOMAIN evq}
    \cup (IF npc \in {"forget", "closing", "post", "input"} THEN {ndev} ELSE {})
    \cup (IF hpc \in {"none", "failed", "aborted"} THEN {} ELSE {hdev})

\* A failed open frees the structure (esp_hidh_dev_free_inner) with no lock
\* between the caller and the GAP handler; no one may still hold a pointer.
NoUseAfterFree == HeldDevices \subseteq devices

\* Every link the host holds is known to the device list under its handle, so
\* its DISCONNECT and its notifications find their device; and a stored handle
\* names a live link or one whose DISCONNECT is being handled.
LinkKnown ==
    /\ link # NoAddr => link \in devices /\ conn_id[link]
    /\ \A a \in devices : conn_id[a] =>
          link = a \/ (ndev = a /\ npc \in {"lookup", "forget", "closing"})

\* N and the caller both block in esp_event_post_to on the same bounded queue;
\* the host task always gets out of its handler.
HostGetsOut == npc # "idle" ~> npc = "idle"

\* The only two ways in which a call hangs: it waits for the callback of a read that
\* failed, which nimble_on_read does not signal, or of a procedure that could not be
\* started, because the link was gone already.
Stuck ==
    /\ hpc = "wait" /\ gatt_op = "none" /\ ~cb_sem
    /\ Head(todo) = "read" \/ link # hdev

\* A call returns, fails an assert, or hangs in one of these two ways.
CallReturns == hpc # "none" ~> hpc \in {"none", "aborted"} \/ Stuck
=============================================================================
