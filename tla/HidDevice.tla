----------------------------- MODULE HidDevice -----------------------------
(***************************************************************************)
(* The HID device role over NimBLE: esp_hid/src/nimble_hidd.c under the    *)
(* entry points of esp_hid/src/esp_hidd.c.                                 *)
(*                                                                         *)
(* Three tasks: "app" initializes the device, sends reports and ends it;   *)
(* "host" is NimBLE's, which registers the services, syncs, and tells of   *)
(* links; "evt" is the event loop that calls the application back.  They   *)
(* share s_dev, and nothing locks it.  The host's services, links and      *)
(* protocol mode characteristics are external.                             *)
(***************************************************************************)
EXTENDS Naturals, Sequences

CONSTANTS
    Configs,        \* report maps the application may pass
    Conns,          \* connections
    QueueSize,      \* queue_size of the event loop
    MaxWork,        \* bound: links made, reports sent, mode writes, inits
    Faults          \* "no_memory", "no_room", "connect_failed"

\* A configuration is a sequence of report maps, a map one of reports.
Modes == {"report", "boot"}
Types == {"input", "output", "feature"}
Usages == {"keyboard", "mouse", "generic"}
Item == [id : Nat, mode : Modes, type : Types, usage : Usages]
\* The parser gives a keyboard's input and output, and a mouse's input, in both modes.
Parsed(reports) ==
    \A i \in DOMAIN reports : reports[i].mode = "boot" =>
        /\ \/ reports[i].type = "input" /\ reports[i].usage \in {"keyboard", "mouse"}
           \/ reports[i].type = "output" /\ reports[i].usage = "keyboard"
        /\ \E j \in DOMAIN reports : reports[j] = [reports[i] EXCEPT !.mode = "report"]
ASSUME HiddAssumption ==
    /\ Configs \subseteq Seq(Seq(Item))
    /\ \A c \in Configs : \A d \in DOMAIN c : Parsed(c[d])
    /\ Conns # {} /\ "none" \notin Conns
    /\ QueueSize \in Nat \ {0} /\ MaxWork \in Nat
    /\ Faults \subseteq {"no_memory", "no_room", "connect_failed"}

VARIABLES
    s_dev,          \* the device, if there is one
    cfg,            \* its configuration
    handles,        \* the characteristic of each report, once it is registered
    protocols,      \* hid_protocol_handle of each map: the map whose protocol
                    \* mode characteristic it is, 0 if there is none
    service_index,  \* static: services that were registered, ever
    listener,       \* nimble_gap_event_listener is registered
    synced_cb,      \* ble_hs_cfg has the callbacks
    queue,          \* the event loop's queue
    app, host,      \* the tasks
    told,           \* what the application was told last: "up" or "down"
    radio, links, services, mode,   \* the host's state
    call,           \* the report that is being sent, and the mode its map had
    sent,           \* the report that was sent last, and where to
    work,           \* bound
    crashed,        \* the task that aborted or used freed memory, else "none"
    odd             \* history of what the properties except: "ended_on" and
                    \* "ended_off" (a deinit while the host runs, or not),
                    \* "restarted" (the host starts again after one, without a
                    \* device or to services counted on), "init_failed",
                    \* "shared" and "carried" links, "connect_failed",
                    \* "freed_mbuf", "no_mbuf"

devVars  == <<s_dev, cfg, handles, protocols>>
hostVars == <<radio, links, services, mode>>
callVars == <<call, sent>>
vars == <<devVars, service_index, listener, synced_cb, queue, app, host, told, hostVars,
          callVars, work, crashed, odd>>

NoDev == [live |-> FALSE, loop |-> FALSE, owned |-> FALSE, connected |-> FALSE,
          conn |-> "none", protocol |-> "report"]
NoChar == [map |-> 0, mode |-> "none", type |-> "none", id |-> 0, usage |-> "none"]
NoCall == [map |-> 0, id |-> 0, type |-> "none", mode |-> "none"]
Nothing == [map |-> 0, id |-> 0, type |-> "none", mode |-> "none", handle |-> NoChar,
            conn |-> "none"]
AtRest == [pc |-> "idle", conn |-> "none", todo |-> <<>>, chars |-> {}]

Places(c) == UNION {{<<d, i>> : i \in DOMAIN c[d]} : d \in DOMAIN c}

Init ==
    /\ s_dev = NoDev /\ cfg = <<>> /\ handles = <<>> /\ protocols = <<>>
    /\ service_index = 0 /\ listener = FALSE /\ synced_cb = FALSE
    /\ queue = <<>> /\ app = "idle" /\ host = AtRest /\ told = "down"
    /\ radio = "off" /\ links = {} /\ services = <<>> /\ mode = <<>>
    /\ call = NoCall /\ sent = Nothing /\ work = 0 /\ crashed = "none" /\ odd = {}

Work == work < MaxWork /\ work' = work + 1

-----------------------------------------------------------------------------
(* Reports and characteristics.                                            *)

Report(p) == cfg[p[1]][p[2]]
\* The first report, map after map, that passes.
Before(p, q) == p[1] < q[1] \/ (p[1] = q[1] /\ p[2] <= q[2])
FirstReport(found) ==
    IF found = {} THEN <<>> ELSE CHOOSE p \in found : \A q \in found : Before(p, q)

find_report(id, type, m) ==
    FirstReport({p \in Places(cfg) : /\ Report(p).id = id /\ Report(p).type = type
                                     /\ Report(p).mode = m})

find_report_by_usage_and_type(usage, type, m) ==
    FirstReport({p \in Places(cfg) : /\ Report(p).usage = usage /\ Report(p).type = type
                                     /\ Report(p).mode = m})

\* The characteristics that create_hid_db asks for: reports of report mode have
\* one each; in boot mode there are three, for whatever reports there are.  In
\* which order the host registers those of a service is its own affair.
ReportChar(d, r) == [map |-> d, mode |-> "report", type |-> r.type, id |-> r.id,
                     usage |-> "none"]
BootChar(d, r) ==
    [map |-> d, mode |-> "boot", type |-> IF r.type = "input" THEN "input" ELSE "output", id |-> 0,
     usage |-> IF r.type = "input" /\ r.usage # "keyboard" THEN "mouse" ELSE "keyboard"]
CharOf(d, r) == IF r.mode = "boot" THEN BootChar(d, r) ELSE ReportChar(d, r)
Protocol(d) == [NoChar EXCEPT !.map = d, !.mode = "protocol"]
create_hid_db(d) == {Protocol(d)} \cup {CharOf(d, cfg[d][i]) : i \in DOMAIN cfg[d]}

-----------------------------------------------------------------------------
(* The application: esp_hidd_dev_init in four steps, between which the     *)
(* host runs.                                                              *)

restOfApp == <<service_index, host, links, radio>>

InitAlloc ==
    /\ app = "idle" /\ ~s_dev.live /\ Work
    /\ s_dev' = [NoDev EXCEPT !.live = TRUE, !.owned = TRUE]
    /\ cfg' = <<>> /\ handles' = <<>> /\ protocols' = <<>>
    /\ odd' = odd \cup IF links = {} THEN {} ELSE {"carried"}
    /\ queue' = <<>> /\ told' = "down" /\ app' = "config"
    /\ services' = <<>> /\ mode' = <<>>
    /\ UNCHANGED <<listener, synced_cb, callVars, crashed, restOfApp>>

\* [mutant] The host's callbacks are set before the configuration is read.
InitConfigEarly(c) ==
    /\ app = "config"
    /\ synced_cb' = TRUE
    /\ \/ /\ s_dev' = [s_dev EXCEPT !.loop = TRUE]
          /\ cfg' = c /\ handles' = [p \in Places(c) |-> NoChar]
          /\ protocols' = [d \in DOMAIN c |-> 0]
          /\ app' = "gatts"
       \/ /\ "no_memory" \in Faults
          /\ s_dev' = NoDev /\ app' = "idle" /\ UNCHANGED <<cfg, handles, protocols>>
    /\ UNCHANGED <<listener, queue, told, services, mode, callVars, work, crashed, odd,
                   restOfApp>>

\* The event loop, the configuration, the handlers; ble_hidd_dev_free undoes them.
InitConfig(c) ==
    /\ app = "config"
    /\ \/ /\ s_dev' = [s_dev EXCEPT !.loop = TRUE]
          /\ cfg' = c /\ handles' = [p \in Places(c) |-> NoChar]
          /\ protocols' = [d \in DOMAIN c |-> 0]
          /\ app' = "gatts"
       \/ /\ "no_memory" \in Faults
          /\ s_dev' = NoDev /\ app' = "idle" /\ UNCHANGED <<cfg, handles, protocols>>
    /\ UNCHANGED <<listener, synced_cb, queue, told, services, mode, callVars, work,
                   crashed, odd, restOfApp>>

\* nimble_hid_start_gatts.  If a service does not fit, esp_hidd_dev_init frees the
\* esp_hidd_dev_t, but s_dev stays.
InitGatts ==
    /\ app = "gatts"
    /\ synced_cb' = TRUE
    /\ \/ /\ services' = [d \in DOMAIN cfg |-> create_hid_db(d)]
          /\ mode' = [d \in DOMAIN cfg |-> s_dev.protocol]
          /\ app' = "listen" /\ UNCHANGED <<s_dev, odd>>
       \/ /\ "no_room" \in Faults
          /\ s_dev' = [s_dev EXCEPT !.owned = FALSE]
          /\ odd' = odd \cup {"init_failed"}
          /\ app' = "idle" /\ UNCHANGED <<services, mode>>
    /\ UNCHANGED <<cfg, handles, protocols, listener, queue, told, callVars, work, crashed,
                   restOfApp>>
InitListen ==
    /\ app = "listen"
    /\ listener' = TRUE /\ app' = "idle"
    /\ UNCHANGED <<devVars, synced_cb, queue, told, services, mode, callVars, work, crashed,
                   odd, restOfApp>>

\* deinit: nothing tells the host that s_dev is gone, and the listener stays.  The
\* event loop is deleted with what it has in its queue.
DeinitStart ==
    /\ app = "idle" /\ s_dev.live /\ s_dev.owned
    /\ s_dev' = NoDev /\ services' = <<>>
    /\ odd' = odd \cup {IF radio = "on" THEN "ended_on" ELSE "ended_off"}
    /\ app' = "stop"
    /\ UNCHANGED <<cfg, handles, protocols, listener, synced_cb, queue, told, mode, callVars, work,
                   crashed, restOfApp>>
DeinitEnd ==
    /\ app = "stop" /\ Len(queue) < QueueSize
    /\ queue' = <<>> /\ app' = "idle"
    /\ UNCHANGED <<devVars, listener, synced_cb, told, services, mode, callVars, work,
                   crashed, odd, restOfApp>>

\* input_set and feature_set, in two steps, between which the host runs.  The
\* mode is read by the handle of the map that is named; a read that fails ends
\* the call and changes nothing.
SetReport(d, id, type) ==
    /\ app = "idle" /\ s_dev.live /\ s_dev.owned /\ s_dev.connected /\ Work
    /\ protocols[d] \in DOMAIN mode
    /\ s_dev' = [s_dev EXCEPT !.protocol = mode[protocols[d]]]
    /\ call' = [map |-> d, id |-> id, type |-> type, mode |-> mode[d]] /\ app' = "send"
    /\ UNCHANGED <<cfg, handles, protocols, listener, synced_cb, queue, told, services, mode,
                   sent, crashed, odd, restOfApp>>

\* The report is the first of that id and mode in any map, and must be there, and
\* so must a buffer.  An input report goes to conn_id as it is now.
SendReport ==
    /\ app = "send"
    /\ LET p == find_report(call.id, call.type, s_dev.protocol) IN
       \/ /\ p # <<>>
          /\ sent' = [map |-> call.map, id |-> call.id, type |-> call.type,
                      mode |-> call.mode, handle |-> handles[p],
                      conn |-> IF call.type = "input" THEN s_dev.conn ELSE "none"]
          /\ UNCHANGED crashed
       \/ /\ p = <<>> \/ "no_memory" \in Faults
          /\ crashed' = "app" /\ UNCHANGED sent
    /\ call' = NoCall /\ app' = "idle"
    /\ UNCHANGED <<devVars, listener, synced_cb, queue, told, services, mode, work, odd,
                   restOfApp>>

\* The application asks for reports that it declared.
App == \/ InitAlloc \/ \E c \in Configs : InitConfig(c)
       \/ InitGatts \/ InitListen \/ DeinitStart \/ DeinitEnd \/ SendReport
       \/ \E p \in Places(cfg) :
             /\ Report(p).mode = "report" /\ Report(p).type # "output"
             /\ SetReport(p[1], Report(p).id, Report(p).type)

-----------------------------------------------------------------------------
(* NimBLE's host task, and the callbacks that it makes.                    *)

restOfHost == <<cfg, listener, synced_cb, app, told, callVars>>
HostGoes(step) == host' = [host EXCEPT !.pc = step]
Rest == host' = AtRest
\* The host uses s_dev: without one, or without its event loop, it aborts.
Abort == crashed' = "host" /\ UNCHANGED <<s_dev, queue, host>>
\* [mutant] An event is posted whether there is room or not.
PostToNoWait(e) ==
    /\ queue' = Append(queue, e)
    /\ Rest /\ UNCHANGED <<s_dev, crashed>>

\* esp_event_post_to with portMAX_DELAY.
PostTo(e) ==
    \/ /\ s_dev.loop /\ Len(queue) < QueueSize
       /\ queue' = Append(queue, e)
       /\ Rest /\ UNCHANGED <<s_dev, crashed>>
    \/ ~s_dev.loop /\ Abort

\* The host starts: it registers the services, then it is synced.
RadioOn ==
    /\ radio = "off" /\ host.pc = "idle" /\ synced_cb /\ Work
    /\ radio' = "on" /\ host' = [AtRest EXCEPT !.pc = "register", !.todo = services]
    /\ odd' = IF /\ odd \cap {"ended_on", "ended_off"} # {}
                 /\ ~s_dev.loop \/ service_index # 0
              THEN odd \cup {"restarted"} ELSE odd
    /\ UNCHANGED <<s_dev, handles, protocols, service_index, queue, links, services, mode,
                   crashed, restOfHost>>

\* nimble_gatt_svr_register_cb for a service.  That of a later initialization is
\* counted on from those before, and written past the end of devices.
RegisterService ==
    /\ host.pc = "register" /\ host.chars = {} /\ host.todo # <<>>
    /\ \/ /\ s_dev.live
          /\ service_index' = service_index + 1
          /\ host' = [host EXCEPT !.todo = Tail(@), !.chars = Head(host.todo)]
          /\ UNCHANGED <<s_dev, queue, crashed>>
       \/ /\ ~s_dev.live \/ service_index + 1 \notin DOMAIN cfg
          /\ Abort /\ UNCHANGED service_index
    /\ UNCHANGED <<handles, protocols, hostVars, work, odd, restOfHost>>

\* For the protocol mode, which is taken for that of the last service.
RegisterProtocol(c) ==
    /\ host.pc = "register" /\ c \in host.chars /\ c.mode = "protocol"
    /\ \/ /\ s_dev.live
          /\ protocols' = [d \in DOMAIN protocols |->
                             IF d = service_index THEN c.map ELSE protocols[d]]
          /\ host' = [host EXCEPT !.chars = @ \ {c}]
          /\ UNCHANGED <<s_dev, queue, crashed>>
       \/ /\ ~s_dev.live \/ service_index \notin DOMAIN cfg
          /\ Abort /\ UNCHANGED protocols
    /\ UNCHANGED <<handles, service_index, hostVars, work, odd, restOfHost>>

\* [mutant] Only the id is looked at.
ReportForId(c) == FirstReport({q \in Places(cfg) : Report(q).id = c.id})

\* The first report that the characteristic can be meant for.
ReportFor(c) == IF c.mode = "boot"
                THEN find_report_by_usage_and_type(c.usage, c.type, "boot")
                ELSE find_report(c.id, c.type, "report")

\* For a report: one of report mode must be there, in boot mode the characteristic
\* may be more than what was asked for.  The id and the type of one of report mode
\* are read from its descriptor into a buffer, which must be there.
RegisterReport(c) ==
    /\ host.pc = "register" /\ c \in host.chars /\ c.mode \in Modes
    /\ LET p == ReportFor(c) IN
       \/ /\ s_dev.live /\ (p = <<>> => c.mode = "boot")
          /\ handles' = IF p = <<>> THEN handles ELSE [handles EXCEPT ![p] = c]
          /\ host' = [host EXCEPT !.chars = @ \ {c}]
          /\ UNCHANGED <<s_dev, queue, crashed, odd>>
       \/ /\ ~s_dev.live \/ (p = <<>> /\ c.mode = "report")
          /\ Abort /\ UNCHANGED <<handles, odd>>
       \/ /\ "no_memory" \in Faults /\ c.mode = "report"
          /\ odd' = odd \cup {"no_mbuf"} /\ Abort /\ UNCHANGED handles
    /\ UNCHANGED <<protocols, service_index, hostVars, work, restOfHost>>

\* nimble_host_synced.
Synced ==
    /\ host.pc = "register" /\ host.chars = {} /\ host.todo = <<>>
    /\ PostTo("start")
    /\ UNCHANGED <<handles, protocols, service_index, hostVars, work, odd, restOfHost>>

\* A link comes up, or an attempt fails.  nimble_hid_gap_event hears of it once it
\* is registered, and of links that are not its own.
LinkUp(c) ==
    /\ radio = "on" /\ host.pc = "idle" /\ c \notin links /\ Work
    /\ links' = links \cup {c}
    /\ odd' = odd \cup (IF links = {} THEN {} ELSE {"shared"})
                   \cup (IF listener THEN {} ELSE {"carried"})
    /\ host' = IF listener THEN [AtRest EXCEPT !.pc = "connect", !.conn = c] ELSE AtRest
    /\ UNCHANGED <<s_dev, handles, protocols, service_index, queue, radio, services, mode,
                   crashed, restOfHost>>
LinkFails ==
    /\ radio = "on" /\ host.pc = "idle" /\ "connect_failed" \in Faults /\ listener
    /\ odd' = odd \cup {"connect_failed"}
    /\ crashed' = "host"     \* the assertion that the link is found
    /\ UNCHANGED <<s_dev, handles, protocols, service_index, queue, host, hostVars, work,
                   restOfHost>>
LinkDown(c) ==
    /\ radio = "on" /\ host.pc = "idle" /\ c \in links
    /\ links' = links \ {c}
    /\ host' = IF listener THEN [AtRest EXCEPT !.pc = "disconnect"] ELSE AtRest
    /\ UNCHANGED <<s_dev, handles, protocols, service_index, queue, radio, services, mode,
                   work, crashed, odd, restOfHost>>
\* The host writes the protocol mode of a map.
WriteMode(d, m) ==
    /\ links # {} /\ host.pc = "idle" /\ mode[d] # m /\ Work
    /\ mode' = [mode EXCEPT ![d] = m]
    /\ UNCHANGED <<s_dev, handles, protocols, service_index, queue, host, radio, links,
                   services, crashed, odd, restOfHost>>

\* BLE_GAP_EVENT_CONNECT: the flag, then the connection, then the modes.
Connect ==
    /\ host.pc = "connect"
    /\ \/ /\ s_dev.live
          /\ s_dev' = [s_dev EXCEPT !.connected = TRUE]
          /\ HostGoes("connect_id") /\ UNCHANGED <<queue, crashed>>
       \/ ~s_dev.live /\ Abort
    /\ UNCHANGED <<handles, protocols, service_index, hostVars, work, odd, restOfHost>>
ConnectId ==
    /\ host.pc = "connect_id"
    /\ \/ /\ s_dev.live
          /\ s_dev' = [s_dev EXCEPT !.conn = host.conn]
          /\ HostGoes("connect_mode") /\ UNCHANGED <<queue, crashed>>
       \/ ~s_dev.live /\ Abort
    /\ UNCHANGED <<handles, protocols, service_index, hostVars, work, odd, restOfHost>>

\* The first write of the protocol mode frees its buffer, which the writes to the
\* other maps use again: they write the mode, or nothing, or bring the host down.
\* Without a buffer each write does nothing or brings it down.
ModeTargets == {protocols[d] : d \in DOMAIN protocols} \cap DOMAIN mode
ConnectMode ==
    /\ host.pc = "connect_mode"
    /\ \/ /\ s_dev.live
          /\ \/ \E written \in SUBSET ModeTargets :
                   /\ \A d \in ModeTargets : d = protocols[1] => d \in written
                   /\ mode' = [d \in DOMAIN mode |->
                                 IF d \in written THEN "report" ELSE mode[d]]
             \/ "no_memory" \in Faults /\ UNCHANGED mode
          /\ HostGoes("connect_post")
          /\ UNCHANGED <<s_dev, queue, crashed, odd>>
       \/ s_dev.live /\ Len(cfg) > 1 /\ odd' = odd \cup {"freed_mbuf"} /\ Abort /\ UNCHANGED mode
       \/ /\ s_dev.live /\ "no_memory" \in Faults /\ ModeTargets # {}
          /\ odd' = odd \cup {"no_mbuf"} /\ Abort /\ UNCHANGED mode
       \/ ~s_dev.live /\ Abort /\ UNCHANGED <<mode, odd>>
    /\ UNCHANGED <<handles, protocols, service_index, radio, links, services, work, restOfHost>>

\* [mutant] The state is cleared before it is looked at.
DisconnectSilent ==
    /\ host.pc = "disconnect" /\ s_dev.live
    /\ s_dev' = [s_dev EXCEPT !.connected = FALSE]
    /\ Rest
    /\ UNCHANGED <<queue, crashed, handles, protocols, service_index, hostVars, work, odd,
                   restOfHost>>

\* [mutant] A disconnection is only told of.
DisconnectKeeps ==
    /\ host.pc = "disconnect" /\ s_dev.live
    /\ HostGoes("disconnect_post")
    /\ UNCHANGED <<s_dev, queue, crashed, handles, protocols, service_index, hostVars, work, odd,
                   restOfHost>>

\* BLE_GAP_EVENT_DISCONNECT, whichever link it was.
Disconnect ==
    /\ host.pc = "disconnect"
    /\ \/ /\ s_dev.live
          /\ s_dev' = [s_dev EXCEPT !.connected = FALSE]
          /\ IF s_dev.connected THEN HostGoes("disconnect_post") ELSE Rest
          /\ UNCHANGED <<queue, crashed>>
       \/ ~s_dev.live /\ Abort
    /\ UNCHANGED <<handles, protocols, service_index, hostVars, work, odd, restOfHost>>

PostLink ==
    /\ \/ host.pc = "connect_post" /\ PostTo("connect")
       \/ host.pc = "disconnect_post" /\ PostTo("disconnect")
    /\ UNCHANGED <<handles, protocols, service_index, hostVars, work, odd, restOfHost>>

\* The application stops the host, once the device has ended.
RadioOff ==
    /\ radio = "on" /\ host.pc = "idle" /\ links = {} /\ app = "idle" /\ ~s_dev.live
    /\ radio' = "off"
    /\ UNCHANGED <<s_dev, handles, protocols, service_index, queue, host, links, services, mode,
                   work, crashed, odd, restOfHost>>

Register == RegisterService \/ \E c \in host.chars : RegisterProtocol(c) \/ RegisterReport(c)
Host == \/ Register \/ Synced \/ Connect \/ ConnectId \/ ConnectMode \/ Disconnect \/ PostLink
Air == \/ RadioOn \/ RadioOff \/ LinkFails
       \/ \E c \in Conns : LinkUp(c) \/ LinkDown(c)
       \/ \E d \in DOMAIN mode, m \in Modes : WriteMode(d, m)

\* The event loop calls the application back.
Deliver ==
    /\ queue # <<>>
    /\ queue' = Tail(queue)
    /\ told' = CASE Head(queue) = "connect" -> "up"
                 [] Head(queue) = "disconnect" -> "down"
                 [] OTHER -> told
    /\ UNCHANGED <<devVars, service_index, listener, synced_cb, app, host, hostVars, callVars,
                   work, crashed, odd>>

\* The chip is reset, by a watchdog or by its user.
Reboot ==
    /\ s_dev' = NoDev /\ cfg' = <<>> /\ handles' = <<>> /\ protocols' = <<>>
    /\ service_index' = 0 /\ listener' = FALSE /\ synced_cb' = FALSE
    /\ queue' = <<>> /\ app' = "idle" /\ host' = AtRest /\ told' = "down"
    /\ radio' = "off" /\ links' = {} /\ services' = <<>> /\ mode' = <<>>
    /\ call' = NoCall /\ sent' = Nothing /\ work' = 0 /\ crashed' = "none" /\ odd' = {}

Next == \/ crashed = "none" /\ (App \/ Host \/ Air \/ Deliver)
        \/ Reboot

Running(A) == crashed = "none" /\ A
Spec == Init /\ [][Next]_vars /\ WF_vars(Running(Host)) /\ WF_vars(Running(Deliver))

-----------------------------------------------------------------------------
(* Properties.                                                             *)

HiddTypeOK ==
    /\ s_dev.conn \in Conns \cup {"none"} /\ s_dev.protocol \in Modes
    /\ s_dev.connected => s_dev.live
    /\ Len(queue) <= QueueSize
    /\ \A p \in DOMAIN handles : handles[p] = NoChar \/ handles[p].mode \in Modes

\* Two reports of the configuration that find_report cannot tell apart, or the
\* search by usage.
Ambiguous ==
    \E p, q \in Places(cfg) :
        /\ p # q /\ Report(p).mode = Report(q).mode /\ Report(p).type = Report(q).type
        /\ \/ Report(p).id = Report(q).id
           \/ Report(p).mode = "boot" /\ Report(p).usage = Report(q).usage

\* The services that registered are those of this device: it was not ended while
\* the host registers or runs, and the host was not started for another one.
Settled == odd \cap {"ended_on", "restarted"} = {}

\* A report is sent on the characteristic of its map, its type, its id and the mode
\* its map had when the call read it, whatever the host task does in between, if
\* the configuration lets the code tell its reports apart.
InputReachesItsReport ==
    sent # Nothing =>
        \/ /\ sent.handle.map = sent.map /\ sent.handle.type = sent.type
           /\ sent.handle.mode = sent.mode
           /\ sent.handle.id = IF sent.mode = "report" THEN sent.id ELSE 0
        \/ Ambiguous \/ ~Settled

\* The host task is brought down only if the device is ended under it, or it is
\* started again after that; by a link that failed; with several maps, by the
\* buffer of the protocol mode; or by a buffer that it could not get.
HostSafe ==
    crashed = "host" => ~Settled \/ odd \cap {"connect_failed", "freed_mbuf", "no_mbuf"} # {}

\* The device knows its link: the one it would send on is up, or its end is being
\* handled, or the next one is about to be stored; and with a link, and the time to
\* hear of it, the device is connected, unless there was a second link, or a link
\* older than the device.
LinkIsKnown ==
    /\ s_dev.connected => s_dev.conn \in links \/ host.pc \in {"disconnect", "connect_id"}
    /\ s_dev.live /\ links # {} /\ host.pc \notin {"connect", "disconnect"} =>
          s_dev.connected \/ odd \cap {"shared", "carried"} # {}

\* The application comes to know whether the device is connected, unless a link is
\* older than the device.
ApplicationLearns ==
    s_dev.live /\ s_dev.connected # (told = "up") ~>
        ~s_dev.live \/ s_dev.connected = (told = "up") \/ "carried" \in odd \/ crashed # "none"
=============================================================================
