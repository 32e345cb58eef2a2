----------------------------- MODULE Discovery -----------------------------
(***************************************************************************)
(* What a full open learns of a keyboard and what it does with it:         *)
(* read_device_services, attach_report_listeners and the GATT callbacks of *)
(* esp_hid/src/nimble_hidh.c.                                              *)
(*                                                                         *)
(* The caller (K) starts one GATT procedure at a time and sleeps in        *)
(* WAIT_CB; the host task (N) reports what it finds by callbacks, which    *)
(* fill tables of fixed size by counters that are static variables, and    *)
(* collect read values in a heap block.  The link stays up here: HidhLink  *)
(* models what happens to a call when it drops.                            *)
(*                                                                         *)
(* The HID keyboard's own data are constants: a peer is a sequence of      *)
(* services, each a sequence of characteristics with their descriptors.    *)
(* The value handle of a characteristic is the pair of its positions.      *)
(***************************************************************************)
EXTENDS Naturals, Sequences, FiniteSets

CONSTANTS
    Peers,          \* the keyboards' attribute tables
    MaxServices,    \* service_result[10]
    MaxChars,       \* char_result[20]
    MaxDescrs,      \* descr_result[20]
    MaxOpens,       \* bound: full opens since the last boot
    Faults          \* "peer_error": a procedure is answered with an error;
                    \* "no_start": a procedure cannot be started (no memory)

ReportKinds == {"BOOT_KBD_INP", "BOOT_KBD_OUT", "BOOT_MOUSE_INP", "RPT"}
Char == [uuid : {"NAME", "BATTERY_LEVEL", "PNP_ID", "MANUFACTURER", "SERIAL",
                 "PROTOCOL_MODE", "REPORT_MAP", "other"} \cup ReportKinds,
         read : BOOLEAN, notify : BOOLEAN,
         type : {"INPUT", "OUTPUT", "FEATURE"},
         descrs : Seq({"CCC", "RPT_REF", "other"})]
Service == [uuid : {"GAP", "BAS", "DIS", "HID", "other"}, chars : Seq(Char)]

ASSUME RoomAssumption == {MaxServices, MaxChars, MaxDescrs} \subseteq Nat
ASSUME PeersAssumption == Peers \subseteq Seq(Service)
\* Every keyboard fits the tables, the declaration of the next characteristic
\* included, which the discovery of descriptors finds as well.
ASSUME PeersFit ==
    \A p \in Peers : /\ Len(p) <= MaxServices
                     /\ \A i \in DOMAIN p : Len(p[i].chars) <= MaxChars
                     /\ \A i \in DOMAIN p : \A j \in DOMAIN p[i].chars :
                           Len(p[i].chars[j].descrs) < MaxDescrs
ASSUME DiscFaultsAssumption == Faults \subseteq {"peer_error", "no_start"}

VARIABLES
    peer,           \* the keyboard this device was opened for (<<>>: none yet)
    discovered,     \* services_discovered, chrs_discovered, dscs_discovered
    result,         \* the three tables: positions in the peer, 0 if not written
    at, cur,        \* loop counters s, c, d and the entries they select
    status_ok,      \* status = 0
    cb_sem,         \* s_ble_hidh_cb_semaphore
    proc,           \* the GATT procedure on the air and how far it is
    pc,             \* where K is
    hidindex, report, rdata,    \* local variables of read_device_services
    heap,           \* blocks of read values: "live", "freed" or freed "twice"
    dev,            \* the device structure
    todo,           \* what attach_report_listeners still has to go through
    subscribed,     \* characteristics whose CCC was written on this link
    refused,        \* those whose keyboard answered that write with an error
    unread,         \* history: reads of this open that could not be started, as
                    \* <<service, characteristic, descriptor or 0 for the value>>
    opens           \* full opens since the last boot

procVars == <<status_ok, cb_sem, proc>>
tabVars  == <<discovered, result>>
loopVars == <<at, cur, hidindex, report, rdata>>
devVars  == <<heap, dev>>
subVars  == <<todo, subscribed, refused, unread>>
vars     == <<peer, tabVars, loopVars, procVars, pc, devVars, subVars, opens>>

Kinds == {"svcs", "chrs", "dscs"}
Room == [svcs |-> MaxServices, chrs |-> MaxChars, dscs |-> MaxDescrs]
Fresh(k) == [i \in 0 .. Room[k] - 1 |-> 0]

NoHandle == <<0, 0>>
NoProc == [kind |-> "none", found |-> 0]
NoReport == [handle |-> NoHandle, proto |-> "REPORT", type |-> "none",
             notify |-> FALSE, map |-> 0, ccc |-> 0]
Strings == {"NAME", "MANUFACTURER", "SERIAL"}
NewDev == [maps_len |-> 0, maps |-> <<>>, modes |-> <<>>,
           strings |-> [n \in Strings |-> 0],
           battery |-> NoHandle, battery_ccc |-> 0, reports |-> <<>>]

Init ==
    /\ peer = <<>> /\ dev = NewDev /\ heap = <<>>
    /\ discovered = [k \in Kinds |-> 0]
    /\ result = [k \in Kinds |-> Fresh(k)]
    /\ at = [k \in Kinds |-> 0] /\ cur = [k \in Kinds |-> 0]
    /\ hidindex = 0 /\ report = NoReport /\ rdata = 0
    /\ status_ok = TRUE /\ cb_sem = FALSE /\ proc = NoProc
    /\ todo = <<>> /\ subscribed = {} /\ refused = {} /\ unread = {}
    /\ pc = "idle" /\ opens = 0

-----------------------------------------------------------------------------
(* The service and the characteristic K works on, and what can be found.   *)
Svc == peer[cur["svcs"]]
Chr == Svc.chars[cur["chrs"]]

\* From the value handle to the declaration of the next characteristic,
\* inclusive; to the end of the service for the last one.
DescrsFound ==
    Chr.descrs \o IF cur["chrs"] < Len(Svc.chars) THEN <<"other">> ELSE <<>>

Total(k) == CASE k = "svcs" -> Len(peer)
              [] k = "chrs" -> Len(Svc.chars)
              [] k = "dscs" -> Len(DescrsFound)
              [] k = "read" -> 1
              [] OTHER      -> 0

\* Entry at[k] of a table.  One that no callback has written is whatever the
\* stack holds: an entry of an earlier use of the table, or nothing known.
Entries(k) == IF at[k] \in DOMAIN result[k] /\ result[k][at[k]] # 0
              THEN {result[k][at[k]]}
              ELSE 0 .. Total(k)

Advance(k) == at' = [at EXCEPT ![k] = @ + 1]

-----------------------------------------------------------------------------
(* The callbacks, in the host task.                                        *)

\* svc_disced, chr_disced and desc_disced with status 0.
Discovered(k) ==
    /\ proc.kind = k /\ proc.found < Total(k)
    /\ proc' = [proc EXCEPT !.found = @ + 1]
    /\ result' = [result EXCEPT ![k] =
                     [i \in DOMAIN @ |-> IF i = discovered[k]
                                         THEN proc.found + 1 ELSE @[i]]]
    /\ discovered' = [discovered EXCEPT ![k] = @ + 1]
    /\ dev' = IF k = "svcs" /\ peer[proc.found + 1].uuid = "HID"
              THEN [dev EXCEPT !.maps_len = @ + 1] ELSE dev
    /\ status_ok' = TRUE
    /\ UNCHANGED <<peer, loopVars, cb_sem, pc, heap, subVars, opens>>

\* nimble_on_read with status 0: the value goes to a new block.
ReadData ==
    /\ proc.kind = "read" /\ proc.found = 0
    /\ proc' = [proc EXCEPT !.found = 1]
    /\ heap' = Append(heap, "live")
    /\ UNCHANGED <<peer, tabVars, loopVars, status_ok, cb_sem, pc, dev, subVars,
                   opens>>

\* The CCC that a write of kind "ccc" is about, none otherwise.
Written == IF proc.kind = "ccc" THEN {Head(todo).handle} ELSE {}

\* BLE_HS_EDONE, and the only callback of a write.
ProcDone ==
    /\ proc.kind # "none" /\ proc.found = Total(proc.kind)
    /\ proc' = NoProc /\ cb_sem' = TRUE
    /\ status_ok' = (status_ok \/ proc.kind \in Kinds)
    /\ subscribed' = subscribed \cup Written
    /\ UNCHANGED <<peer, tabVars, loopVars, pc, devVars, todo, refused, unread, opens>>

\* Any other status.  nimble_on_read does not call SEND_CB for it; on_write and
\* on_subscribe do, and K goes on although nothing was written at the keyboard.
ProcError ==
    /\ "peer_error" \in Faults
    /\ proc.kind # "none"
    /\ proc' = NoProc /\ cb_sem' = (proc.kind # "read")
    /\ status_ok' = (status_ok /\ proc.kind \notin Kinds)
    /\ refused' = refused \cup Written
    /\ UNCHANGED <<peer, tabVars, loopVars, pc, devVars, todo, subscribed, unread,
                   opens>>

-----------------------------------------------------------------------------
(* read_device_services, in K.                                             *)

\* ble_gattc_disc_all_* and ble_gattc_write_flat: if the procedure cannot be
\* started K waits for it all the same.
Start(kind) ==
    \/ proc' = [kind |-> kind, found |-> 0]
    \/ "no_start" \in Faults /\ UNCHANGED proc

\* ble_gattc_read_long: read_char and read_descr return at once if it fails.
ReadStarts == proc' = [kind |-> "read", found |-> 0]
ReadFails == "no_start" \in Faults /\ UNCHANGED proc

Open(p) ==
    /\ pc = "idle" /\ opens < MaxOpens
    /\ opens' = opens + 1
    /\ peer' = p /\ dev' = NewDev /\ heap' = <<>>
    /\ result' = [result EXCEPT !["svcs"] = Fresh("svcs")]
    /\ hidindex' = 0 /\ report' = NoReport /\ rdata' = 0
    /\ Start("svcs") /\ pc' = "svcs"
    /\ todo' = <<>> /\ subscribed' = {} /\ refused' = {} /\ unread' = {}
    /\ UNCHANGED <<discovered, at, cur, status_ok, cb_sem>>

\* WAIT_CB after a discovery; a failed one fails an assert.  The first one
\* allocates the report maps, cleared, and the protocol modes, not cleared.
Found(k, next) ==
    /\ pc = k /\ cb_sem
    /\ cb_sem' = FALSE
    /\ pc' = IF status_ok THEN next ELSE "aborted"
    /\ at' = [at EXCEPT ![k] = 0]
    /\ dev' = IF k = "svcs"
              THEN [dev EXCEPT
                      !.maps = [i \in 1 .. dev.maps_len |-> 0],
                      !.modes = [i \in 1 .. dev.maps_len |-> "undefined"]]
              ELSE dev
    /\ UNCHANGED <<peer, tabVars, cur, hidindex, report, rdata, status_ok, proc,
                   heap, subVars, opens>>

NextService ==
    /\ pc = "service" /\ at["svcs"] < discovered["svcs"]
    /\ \E e \in Entries("svcs") :
          /\ cur' = [cur EXCEPT !["svcs"] = e]
          /\ IF e = 0 \/ peer[e].uuid = "other"
             THEN Advance("svcs") /\ UNCHANGED <<result, proc, pc>>
             ELSE /\ Start("chrs") /\ pc' = "chrs"
                  /\ result' = [result EXCEPT !["chrs"] = Fresh("chrs")]
                  /\ UNCHANGED at
    /\ UNCHANGED <<peer, discovered, hidindex, report, rdata, status_ok, cb_sem,
                   devVars, subVars, opens>>

\* What K does with a characteristic ch of a service of kind suuid.
Reads(suuid, ch) ==
    /\ ch.read
    /\ \/ suuid = "GAP" /\ ch.uuid = "NAME" /\ dev.strings["NAME"] = 0
       \/ suuid = "DIS" /\ ch.uuid \in {"PNP_ID", "MANUFACTURER", "SERIAL"}
       \/ suuid = "HID" /\ ch.uuid \in {"PROTOCOL_MODE", "REPORT_MAP"}
IsBattery(suuid, ch) == suuid = "BAS" /\ ch.uuid = "BATTERY_LEVEL" /\ ch.read
IsReport(suuid, ch) == suuid = "HID" /\ ch.uuid \in ReportKinds

BootType(uuid) == CASE uuid = "BOOT_KBD_OUT" -> "OUTPUT"
                    [] uuid = "RPT" -> "none"
                    [] OTHER -> "INPUT"
NewReport(i, j) ==
    LET ch == peer[i].chars[j] IN
    [handle |-> <<i, j>>, proto |-> IF ch.uuid = "RPT" THEN "REPORT" ELSE "BOOT",
     type |-> BootType(ch.uuid), notify |-> ch.notify, map |-> hidindex, ccc |-> 0]

\* Pointers: 0 is NULL, any other number names a block of the heap.
FreeBlock(b) == heap' = [i \in DOMAIN heap |->
                   IF i # b THEN heap[i]
                   ELSE IF heap[i] = "live" THEN "freed" ELSE "twice"]

\* After a read the name goes on to its descriptors, the others do not.
AfterRead ==
    IF Svc.uuid = "GAP" THEN pc' = "describe" /\ UNCHANGED at
    ELSE pc' = "char" /\ Advance("chrs")

SkipChar(e) ==
    /\ e # 0 => LET ch == Svc.chars[e] IN
          ~(Reads(Svc.uuid, ch) \/ IsBattery(Svc.uuid, ch) \/ IsReport(Svc.uuid, ch))
    /\ Advance("chrs")
    /\ UNCHANGED <<proc, pc, report, devVars, unread>>

ReadChar(e) ==
    /\ e # 0 /\ Reads(Svc.uuid, Svc.chars[e])
    /\ ReadStarts /\ pc' = "read"
    /\ UNCHANGED <<at, report, devVars, unread>>

\* The PnP branch frees rdata whether or not the read gave it a value.
ReadCharFails(e) ==
    /\ e # 0 /\ Reads(Svc.uuid, Svc.chars[e])
    /\ ReadFails
    /\ IF Svc.chars[e].uuid = "PNP_ID" THEN FreeBlock(rdata) ELSE UNCHANGED heap
    /\ AfterRead
    /\ unread' = unread \cup {<<cur["svcs"], e, 0>>}
    /\ UNCHANGED <<report, dev>>

BatteryChar(e) ==
    /\ e # 0 /\ IsBattery(Svc.uuid, Svc.chars[e])
    /\ dev' = [dev EXCEPT !.battery = <<cur["svcs"], e>>]
    /\ pc' = "describe"
    /\ UNCHANGED <<at, proc, report, heap, unread>>

ReportChar(e) ==
    /\ e # 0 /\ IsReport(Svc.uuid, Svc.chars[e])
    /\ report' = NewReport(cur["svcs"], e)
    /\ pc' = "describe"
    /\ UNCHANGED <<at, proc, devVars, unread>>

NextChar ==
    /\ pc = "char" /\ at["chrs"] < discovered["chrs"]
    /\ \E e \in Entries("chrs") :
          /\ cur' = [cur EXCEPT !["chrs"] = e]
          /\ \/ SkipChar(e) \/ ReadChar(e) \/ ReadCharFails(e)
             \/ BatteryChar(e) \/ ReportChar(e)
    /\ UNCHANGED <<peer, tabVars, hidindex, rdata, status_ok, cb_sem, todo,
                   subscribed, refused, opens>>

\* The end of a service, with the new chrs_discovered and hidindex.
LeaveService(chrs, hid) ==
    /\ pc = "char" /\ at["chrs"] = discovered["chrs"]
    /\ discovered' = [discovered EXCEPT !["chrs"] = chrs]
    /\ hidindex' = hid
    /\ Advance("svcs") /\ pc' = "service"
    /\ UNCHANGED <<peer, result, cur, report, rdata, procVars, devVars, subVars,
                   opens>>

NextHid == IF Svc.uuid = "HID" THEN hidindex + 1 ELSE hidindex

\* [mutant] The counter of characteristics is not reset.
LastCharNoReset == LeaveService(discovered["chrs"], NextHid)

\* [mutant] hidindex counts all services.
LastCharCountsAll == LeaveService(0, hidindex + 1)

LastChar == LeaveService(0, NextHid)

\* WAIT_CB in read_char, which returns 0 with a value, and what the branches do
\* with it.  A keyboard that was just connected is in report mode.
StoreRead(frees) ==
    /\ pc = "read" /\ cb_sem
    /\ cb_sem' = FALSE
    /\ rdata' = Len(heap)
    /\ IF frees THEN FreeBlock(rdata') ELSE UNCHANGED heap
    /\ dev' = CASE Chr.uuid \in Strings -> [dev EXCEPT !.strings[Chr.uuid] = rdata']
                [] Chr.uuid = "PROTOCOL_MODE" ->
                      [dev EXCEPT !.modes[hidindex + 1] = "REPORT"]
                [] Chr.uuid = "REPORT_MAP" ->
                      [dev EXCEPT !.maps[hidindex + 1] = rdata']
                [] OTHER -> dev
    /\ AfterRead
    /\ UNCHANGED <<peer, tabVars, cur, hidindex, report, status_ok, proc, subVars,
                   opens>>

\* [mutant] Every value of the device information service is freed.
ReadReturnFreesAll == StoreRead(Svc.uuid = "DIS")

ReadReturn == StoreRead(Chr.uuid = "PNP_ID")

Describe ==
    /\ pc = "describe"
    /\ Start("dscs") /\ pc' = "dscs"
    /\ result' = [result EXCEPT !["dscs"] = Fresh("dscs")]
    /\ UNCHANGED <<peer, discovered, loopVars, status_ok, cb_sem, devVars,
                   subVars, opens>>

\* Descriptor e, if the table entry is one.
IsDescr(e, kind) == e # 0 /\ DescrsFound[e] = kind

NextDescr ==
    /\ pc = "descr" /\ at["dscs"] < discovered["dscs"]
    /\ \E e \in Entries("dscs") :
          /\ cur' = [cur EXCEPT !["dscs"] = e]
          /\ dev' = IF Svc.uuid = "BAS" /\ Chr.notify /\ IsDescr(e, "CCC")
                    THEN [dev EXCEPT !.battery_ccc = e] ELSE dev
          /\ report' = IF Svc.uuid = "HID" /\ report.notify /\ IsDescr(e, "CCC")
                       THEN [report EXCEPT !.ccc = e] ELSE report
          /\ IF Svc.uuid = "HID" /\ IsDescr(e, "RPT_REF")
             THEN \/ ReadStarts /\ pc' = "ref" /\ UNCHANGED <<at, unread>>
                  \/ /\ ReadFails /\ Advance("dscs") /\ UNCHANGED pc
                     /\ unread' = unread \cup {<<cur["svcs"], cur["chrs"], e>>}
             ELSE Advance("dscs") /\ UNCHANGED <<proc, pc, unread>>
    /\ UNCHANGED <<peer, tabVars, hidindex, rdata, status_ok, cb_sem, heap, todo,
                   subscribed, refused, opens>>

\* read_descr returns 0 with the type and the id of the report.
RefReturn ==
    /\ pc = "ref" /\ cb_sem
    /\ cb_sem' = FALSE
    /\ rdata' = Len(heap) /\ FreeBlock(rdata')
    /\ report' = [report EXCEPT !.type = Chr.type]
    /\ Advance("dscs") /\ pc' = "descr"
    /\ UNCHANGED <<peer, tabVars, cur, hidindex, status_ok, proc, dev, subVars,
                   opens>>

\* The end of a characteristic, with the new dscs_discovered: a report goes to
\* the front of the list.
LeaveChar(dscs) ==
    /\ pc = "descr" /\ at["dscs"] = discovered["dscs"]
    /\ dev' = IF Svc.uuid = "HID"
              THEN [dev EXCEPT !.reports = <<report>> \o @] ELSE dev
    /\ discovered' = [discovered EXCEPT !["dscs"] = dscs]
    /\ Advance("chrs") /\ pc' = "char"
    /\ UNCHANGED <<peer, result, cur, hidindex, report, rdata, procVars, heap,
                   subVars, opens>>

LastDescr == LeaveChar(0)

-----------------------------------------------------------------------------
(* attach_report_listeners, after a full open and after a light reconnect. *)

Listens(r) == r.notify /\ r.proto = "REPORT"

Listener(h, c, listens) == [handle |-> h, ccc |-> c, listens |-> listens]
ReportListeners ==
    [i \in DOMAIN dev.reports |->
        LET r == dev.reports[i] IN Listener(r.handle, r.ccc, Listens(r))]
BatteryListeners == IF dev.battery = NoHandle THEN <<>>
                    ELSE <<Listener(dev.battery, dev.battery_ccc, TRUE)>>

\* [mutant] The loop stops at the last report of the list.
ListenersButLast ==
    BatteryListeners \o SubSeq(ReportListeners, 1, Len(ReportListeners) - 1)

\* The battery level first, then the reports in the order of the list.
Listeners == BatteryListeners \o ReportListeners

LastService ==
    /\ pc = "service" /\ at["svcs"] = discovered["svcs"]
    /\ todo' = Listeners /\ pc' = "attach"
    /\ UNCHANGED <<peer, tabVars, loopVars, procVars, devVars, subscribed, refused,
                   unread, opens>>

\* A new link to a keyboard whose device structure is kept.
Reconnect ==
    /\ pc = "idle" /\ peer # <<>>
    /\ todo' = Listeners /\ subscribed' = {} /\ refused' = {} /\ pc' = "attach"
    /\ UNCHANGED <<peer, tabVars, loopVars, procVars, devVars, unread, opens>>

\* register_for_notify writes to the value, write_char_descr to the CCC; the
\* reports that are not listened to are passed over.
AttachNext ==
    /\ pc = "attach"
    /\ IF todo = <<>> THEN pc' = "idle" /\ UNCHANGED <<proc, todo>>
       ELSE IF ~Head(todo).listens THEN todo' = Tail(todo) /\ UNCHANGED <<proc, pc>>
       ELSE Start("value") /\ pc' = "value" /\ UNCHANGED todo
    /\ UNCHANGED <<peer, tabVars, loopVars, status_ok, cb_sem, devVars, subscribed,
                   refused, unread, opens>>

ValueReturn ==
    /\ pc = "value" /\ cb_sem
    /\ cb_sem' = FALSE
    /\ IF Head(todo).ccc # 0
       THEN Start("ccc") /\ pc' = "ccc" /\ UNCHANGED todo
       ELSE todo' = Tail(todo) /\ pc' = "attach" /\ UNCHANGED proc
    /\ UNCHANGED <<peer, tabVars, loopVars, status_ok, devVars, subscribed, refused,
                   unread, opens>>

CccReturn ==
    /\ pc = "ccc" /\ cb_sem
    /\ cb_sem' = FALSE
    /\ todo' = Tail(todo) /\ pc' = "attach"
    /\ UNCHANGED <<peer, tabVars, loopVars, status_ok, proc, devVars, subscribed,
                   refused, unread, opens>>

\* A failed assert reboots the chip.
Reboot ==
    /\ pc = "aborted"
    /\ peer' = <<>> /\ dev' = NewDev /\ heap' = <<>>
    /\ discovered' = [k \in Kinds |-> 0]
    /\ result' = [k \in Kinds |-> Fresh(k)]
    /\ at' = [k \in Kinds |-> 0] /\ cur' = [k \in Kinds |-> 0]
    /\ hidindex' = 0 /\ report' = NoReport /\ rdata' = 0
    /\ status_ok' = TRUE /\ cb_sem' = FALSE /\ proc' = NoProc
    /\ todo' = <<>> /\ subscribed' = {} /\ refused' = {} /\ unread' = {}
    /\ pc' = "idle" /\ opens' = 0

HostNext == (\E k \in Kinds : Discovered(k)) \/ ReadData \/ ProcDone \/ ProcError

Next ==
    \/ \E p \in Peers : Open(p)
    \/ Found("svcs", "service") \/ Found("chrs", "char") \/ Found("dscs", "descr")
    \/ NextService \/ LastService \/ NextChar \/ LastChar \/ ReadReturn
    \/ Describe \/ NextDescr \/ RefReturn \/ LastDescr
    \/ Reconnect \/ AttachNext \/ ValueReturn \/ CccReturn
    \/ HostNext \/ Reboot

Spec == Init /\ [][Next]_vars

-----------------------------------------------------------------------------
(* BLE_GAP_EVENT_NOTIFY_RX: what may be posted for a notification of h.  A *)
(* protocol mode that was never read is whatever the heap held.            *)
NotifyRx(h) ==
    IF h = dev.battery THEN {"BATTERY"}
    ELSE IF \A i \in DOMAIN dev.reports : dev.reports[i].handle # h THEN {"none"}
    ELSE LET r == dev.reports[CHOOSE i \in DOMAIN dev.reports :
                                 /\ dev.reports[i].handle = h
                                 /\ \A j \in 1 .. i - 1 : dev.reports[j].handle # h]
             mode == dev.modes[r.map + 1]
             event == IF r.type = "FEATURE" THEN "FEATURE" ELSE "INPUT"
         IN CASE mode = "undefined" -> {"none", event}
              [] mode = r.proto -> {event}
              [] OTHER -> {"none"}

-----------------------------------------------------------------------------
(* Properties.                                                             *)

\* Services, characteristics and descriptors fit their tables: "fatal if
\* services are more than 10" (nimble_hidh.c:323) is about the keyboard, and
\* every keyboard of Peers fits.
TablesFit == \A k \in Kinds : discovered[k] <= Room[k]

InService == {"char", "describe", "dscs", "descr", "read", "ref"}

\* The state of read_device_services: counters within the tables, hidindex
\* within the arrays that were allocated for the HID services found.
DiscoveryTypeOK ==
    /\ peer \in Peers \cup {<<>>}
    /\ discovered \in [Kinds -> Nat] /\ TablesFit
    /\ pc \in InService \cup {"idle", "svcs", "service", "chrs", "attach",
                              "value", "ccc", "aborted"}
    /\ proc.kind # "none" => pc \in {proc.kind, "read", "ref"} /\ ~cb_sem
    /\ pc \in InService /\ Svc.uuid = "HID" => hidindex < dev.maps_len
    /\ rdata \in 0 .. Len(heap)

\* Table k holds exactly what the keyboard has, in its order.
Exact(k) == /\ discovered[k] = Total(k)
            /\ \A i \in 1 .. Total(k) : result[k][i - 1] = i

\* Read values: the device keeps no pointer to a block that was freed, no two
\* pointers to one block (esp_hidh_dev_resources_free frees each), and rdata,
\* which the branches reuse, is never freed twice.
ValuesOwned ==
    \A b \in DOMAIN heap :
        LET owners == Cardinality({n \in Strings : dev.strings[n] = b})
                      + Cardinality({i \in DOMAIN dev.maps : dev.maps[i] = b})
        IN /\ heap[b] # "twice"
           /\ owners <= 1
           /\ owners = 1 => heap[b] = "live"

\* The read of a PnP id could not be started.
PnpUnread == \E u \in unread : /\ u[1] \in DOMAIN peer
                               /\ u[2] \in DOMAIN peer[u[1]].chars
                               /\ u[3] = 0 /\ peer[u[1]].chars[u[2]].uuid = "PNP_ID"

\* The one read whose failure to start lets go of a value is that of the PnP
\* id, the only branch that frees rdata without a value of its own
\* (nimble_hidh.c:394): whatever other read fails, the values stay owned.
BuffersOwned == PnpUnread \/ ValuesOwned

\* The reports of the keyboard, defined over its attributes.
LastOf(seq, x) == IF \E i \in DOMAIN seq : seq[i] = x
                  THEN CHOOSE i \in DOMAIN seq :
                          seq[i] = x /\ \A j \in DOMAIN seq : seq[j] = x => j <= i
                  ELSE 0
HidBefore(i) == Cardinality({k \in 1 .. i - 1 : peer[k].uuid = "HID"})
\* Descriptor d of characteristic j of service i is a report reference that
\* was read.
IsRefRead(i, j, d) == /\ d \in DOMAIN peer[i].chars[j].descrs
                      /\ peer[i].chars[j].descrs[d] = "RPT_REF"
                      /\ <<i, j, d>> \notin unread
PeerReport(i, j) ==
    LET ch == peer[i].chars[j] IN
    [handle |-> <<i, j>>, proto |-> IF ch.uuid = "RPT" THEN "REPORT" ELSE "BOOT",
     type |-> IF \E d \in DOMAIN ch.descrs : IsRefRead(i, j, d) THEN ch.type
              ELSE BootType(ch.uuid),
     notify |-> ch.notify, map |-> HidBefore(i),
     ccc |-> IF ch.notify THEN LastOf(ch.descrs, "CCC") ELSE 0]
PeerReports ==
    UNION {{PeerReport(i, j) : j \in {j \in DOMAIN peer[i].chars :
                                  peer[i].chars[j].uuid \in ReportKinds}} :
           i \in {i \in DOMAIN peer : peer[i].uuid = "HID"}}

\* The list of reports is that of the keyboard, each once, with its own report
\* reference, CCC and number of its HID service, whatever reads could not be
\* started: a report whose reference was not read keeps its first type.
ReportsExact ==
    pc \in {"attach", "value", "ccc", "idle"} =>
        /\ {dev.reports[i] : i \in DOMAIN dev.reports} = PeerReports
        /\ Len(dev.reports) = Cardinality(PeerReports)

\* Report j of service i is an input report that can notify, in a service whose
\* protocol mode was read.
IsKeyReport(i, j) ==
    LET ch == peer[i].chars[j] IN
    /\ peer[i].uuid = "HID" /\ ch.uuid = "RPT" /\ ch.notify
    /\ ch.type = "INPUT" /\ LastOf(ch.descrs, "CCC") # 0
    /\ \E m \in DOMAIN peer[i].chars :
          /\ peer[i].chars[m].uuid = "PROTOCOL_MODE" /\ peer[i].chars[m].read
          /\ <<i, m, 0>> \notin unread

\* On every link, that of the full open and those of light reconnects: once
\* the call returns, the CCC of every such report was written, or the keyboard
\* itself refused that write, and what it sends becomes an INPUT event.
EveryKeyArrives ==
    pc = "idle" => \A i \in DOMAIN peer : \A j \in DOMAIN peer[i].chars :
        IsKeyReport(i, j) => /\ <<i, j>> \in subscribed \cup refused
                             /\ NotifyRx(<<i, j>>) = {"INPUT"}
=============================================================================
