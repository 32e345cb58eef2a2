------------------------------- MODULE BtHidh -------------------------------
(***************************************************************************)
(* The classic Bluetooth HID host: esp_hid/src/bt_hidh.c, and the part of  *)
(* esp_hid/src/esp_hidh.c that its devices use: the device list, the lock  *)
(* of a device, the requests, and the event handler that frees devices.    *)
(*                                                                         *)
(* Four tasks share the devices: "btc" runs esp_hh_cb, one event of the    *)
(* stack after the other; "evt" is the event loop; "app" calls the API;    *)
(* "tmr" is esp_timer with the timeout of a transaction.  A device is      *)
(* found under the lock of the list and then locked itself: in between,    *)
(* and while a task waits for room in the event queue, the others run.     *)
(* What is done under the lock of a device is one step.                    *)
(*                                                                         *)
(* A device structure lies in one of Slots, and a slot may be used again.  *)
(* The stack is external: it knows a link by the address of its device,    *)
(* which also stands for its handle.                                       *)
(***************************************************************************)
EXTENDS Naturals, Sequences, SequencesExt, FiniteSetsExt

CONSTANTS
    Bdas,           \* remote devices
    Slots,          \* memory for device structures
    Ops,            \* requests of the application
    MaxEvents,      \* queue_size of the event loop
    MaxWork,        \* bound: requests and packets of data, and links that are
                    \* made or tried, which count double
    MaxBacklog,     \* bound: events that the stack has waiting for esp_hh_cb
    Faults          \* "no_memory", "bad_map", "stack_error", "lost_answer"

TimedOps == {"set_report", "get_idle", "set_idle", "get_protocol", "set_protocol"}
Transactions == TimedOps \cup {"get_report"}

ASSUME BtAssumption ==
    /\ Bdas # {} /\ Slots # {} /\ "none" \notin Bdas \cup Slots
    /\ Ops \subseteq Transactions \cup {"close", "output"}
    /\ MaxEvents \in Nat \ {0} /\ MaxWork \in Nat /\ MaxBacklog \in Nat \ {0}
    /\ Faults \subseteq {"no_memory", "bad_map", "stack_error", "lost_answer"}

VARIABLES
    dev,            \* the structure in each slot
    list,           \* s_esp_hidh_devices
    list_lock,      \* held by "evt" while it destroys a device, else "none"
    held,           \* devices whose lock "btc" keeps from one step to the next
    queue,          \* the event loop's queue
    cq,             \* connection_queue
    btc, evt, app, tmr,     \* the tasks
    known,          \* devices the application may call the API with
    btq,            \* events of the stack on their way to esp_hh_cb
    link, asked, undescribed, unadded,      \* the stack, for each address
    work,           \* bound
    dangling,       \* tasks whose pointer is to a structure that was freed
    crashed,        \* the task that used freed memory, else "none"
    odd             \* history: what went wrong since the last reset

memVars   == <<dev, list, list_lock>>
taskVars  == <<evt, app, tmr, known>>
stackVars == <<link, asked, undescribed, unadded>>
vars == <<memVars, held, queue, cq, btc, taskVars, btq, stackVars, work,
          dangling, crashed, odd>>

Free == [live |-> FALSE, bda |-> "none", handle |-> "none", connected |-> FALSE,
         added |-> FALSE, in_use |-> FALSE, reports |-> "none",
         trans |-> "max", report_id |-> 0, timer |-> FALSE]
NoEvent == [k |-> "none", bda |-> "none", ok |-> FALSE, flag |-> FALSE,
            op |-> "none", id |-> 0]
Told(e, d, good) == [e |-> e, dev |-> d, ok |-> good, op |-> "none", id |-> 0, want |-> 0]
NoPost == Told("none", "none", FALSE)
Idle == [pc |-> "idle", ev |-> NoEvent, dev |-> "none", ok |-> FALSE, out |-> NoPost]
Resting == [pc |-> "idle", dev |-> "none", op |-> "none", id |-> 0]

Init ==
    /\ dev = [s \in Slots |-> Free] /\ list = <<>> /\ list_lock = "none"
    /\ held = {} /\ queue = <<>> /\ cq = <<>>
    /\ btc = Idle /\ evt = Resting /\ app = Resting /\ tmr = Resting
    /\ known = {} /\ btq = <<>>
    /\ link = [b \in Bdas |-> "down"] /\ asked = [b \in Bdas |-> <<>>]
    /\ undescribed = <<>> /\ unadded = {}
    /\ work = 0
    /\ dangling = {} /\ crashed = "none" /\ odd = {}

-----------------------------------------------------------------------------
(* The device list and the locks.                                          *)

Listed(s) == s \in ToSet(list)
First(places) == IF places = {} THEN "none" ELSE list[Min(places)]
ByBda(b) == First({i \in DOMAIN list : dev[list[i]].bda = b})
ByHandle(b) == First({i \in DOMAIN list : dev[list[i]].handle = b})

Work(n) == work + n <= MaxWork /\ work' = work + n

Unlocked(s) == s \notin held
\* Task t takes up another pointer, or none.
Forget(t) == dangling' = dangling \ {t}

\* hidh_dev_ctor in slot s.
Ctor(s, b) ==
    /\ ~dev[s].live
    /\ dev' = [dev EXCEPT ![s] = [Free EXCEPT !.live = TRUE, !.in_use = TRUE, !.bda = b]]
    /\ list' = Append(list, s)
\* TAILQ_REMOVE.
Unlist(s) == \E i \in DOMAIN list : list[i] = s /\ list' = RemoveAt(list, i)
NoRoom == "no_memory" \in Faults \/ \A s \in Slots : dev[s].live

-----------------------------------------------------------------------------
(* esp_hh_cb.  An event is taken and its device looked up; pc says what is  *)
(* to be done next, with the device locked.                                *)

Take(k) == /\ btc.pc = "idle" /\ btq # <<>> /\ Head(btq).k = k
           /\ list_lock = "none"
           /\ btq' = Tail(btq) /\ Forget("btc")
Goto(step, ev, d, good) ==
    btc' = [pc |-> step, ev |-> ev, dev |-> d, ok |-> good, out |-> NoPost]
Post(out) == btc' = [btc EXCEPT !.pc = "post", !.out = out,
                                !.ev = IF out.e = "feature" THEN @ ELSE NoEvent]
\* The action runs at step, on a device that is locked by nobody else.
At(step) == btc.pc = step /\ btc.dev \in Slots /\ Unlocked(btc.dev) /\ "btc" \notin dangling
Failed(d) == Told("open", d, FALSE)
restOfBtc == <<list, list_lock, taskVars, stackVars, work, crashed>>

\* A device that has closed and that the event loop is about to free.
Closing(d) == IF dev[d].in_use THEN {} ELSE {"closing"}

\* OPEN_EVT: an incoming connection makes its device.
OpenEvt ==
    /\ Take("open")
    /\ LET ev == Head(btq)
           d == ByBda(ev.bda)
           Skip == /\ Goto("fail", ev, "none", FALSE)
                   /\ odd' = odd \cup IF ev.ok THEN {"skipped"} ELSE {}
                   /\ UNCHANGED <<dev, list>>
       IN \/ /\ d # "none"
             /\ Goto(IF ev.ok THEN "open" ELSE "fail", ev, d, ev.ok)
             /\ odd' = odd \cup Closing(d)
             /\ UNCHANGED <<dev, list>>
          \/ d = "none" /\ (ev.flag \/ NoRoom) /\ Skip
          \/ /\ d = "none" /\ ~ev.flag
             /\ \E s \in Slots :
                   /\ Ctor(s, ev.bda)
                   /\ Goto(IF ev.ok THEN "open" ELSE "fail", ev, s, ev.ok)
             /\ UNCHANGED odd
    /\ UNCHANGED <<list_lock, held, queue, cq, taskVars, stackVars, work, crashed>>

OpenLink ==
    /\ At("open")
    /\ dev' = [dev EXCEPT ![btc.dev].connected = TRUE, ![btc.dev].handle = btc.ev.bda]
    /\ \/ /\ cq' = Append(cq, btc.dev)
          /\ btc' = [btc EXCEPT !.pc = "status"] /\ UNCHANGED odd
       \/ /\ "no_memory" \in Faults
          /\ btc' = [btc EXCEPT !.pc = "fail", !.ok = FALSE]
          /\ odd' = odd \cup {"skipped"} /\ UNCHANGED cq
    /\ UNCHANGED <<held, queue, btq, dangling, restOfBtc>>

\* open_failed_cb.  A device with a link is disconnected, which ends in CLOSE_EVT.
OpenFailed ==
    /\ btc.pc = "fail"
    /\ \/ /\ btc.dev = "none" /\ UNCHANGED <<dev, odd>>
       \/ /\ At("fail")
          /\ dev' = IF dev[btc.dev].connected THEN dev ELSE [dev EXCEPT ![btc.dev].in_use = FALSE]
          /\ odd' = odd \cup {"failed"}
    /\ Post(Failed(btc.dev))
    /\ UNCHANGED <<held, queue, cq, btq, dangling, restOfBtc>>

\* [mutant] The status is told of without looking at the device.
StatusUnchecked ==
    /\ At("status")
    /\ Post(Told("open", btc.dev, btc.ok))
    /\ UNCHANGED <<dev, held, queue, cq, btq, dangling, odd, restOfBtc>>

\* The end of OPEN_EVT, GET_DSCP_EVT and ADD_DEV_EVT: a device that is connected
\* and added is open.
Status ==
    /\ At("status")
    /\ IF /\ btc.ok /\ btc.ev.k \in {"dscp", "add"}
          /\ dev[btc.dev].connected /\ dev[btc.dev].added
       THEN Post(Told("open", btc.dev, TRUE))
       ELSE btc' = Idle
    /\ UNCHANGED <<dev, held, queue, cq, btq, dangling, odd, restOfBtc>>

\* [mutant] The event is posted whether there is room or not.
PostEventNoWait ==
    /\ btc.pc = "post"
    /\ queue' = Append(queue, btc.out) /\ btc' = Idle
    /\ UNCHANGED <<dev, held, cq, btq, dangling, odd, restOfBtc>>

\* esp_event_post_to with portMAX_DELAY, and what follows it.
PostEvent ==
    /\ btc.pc = "post" /\ Len(queue) < MaxEvents
    /\ queue' = Append(queue, btc.out)
    /\ btc' = CASE btc.out.e = "open" /\ ~btc.out.ok /\ btc.dev # "none" ->
                      [btc EXCEPT !.pc = "status", !.out = NoPost]
                [] btc.out.e = "feature" -> [btc EXCEPT !.pc = "reset", !.out = NoPost]
                [] OTHER -> Idle
    /\ UNCHANGED <<dev, held, cq, btq, dangling, odd, restOfBtc>>

\* [mutant] The descriptor is taken for the device that was connected last.
DscpEvtLast ==
    /\ Take("dscp")
    /\ IF cq = <<>> THEN Goto("dequeue", Head(btq), "none", FALSE) /\ UNCHANGED cq
       ELSE Goto("exists", Head(btq), Last(cq), FALSE) /\ cq' = Front(cq)
    /\ UNCHANGED <<dev, held, queue, odd, restOfBtc>>

\* GET_DSCP_EVT takes the oldest connection.  If there is none it waits for ever:
\* connections are queued by this very task.
DscpEvt ==
    /\ Take("dscp")
    /\ IF cq = <<>> THEN Goto("dequeue", Head(btq), "none", FALSE) /\ UNCHANGED cq
       ELSE Goto("exists", Head(btq), Head(cq), FALSE) /\ cq' = Tail(cq)
    /\ UNCHANGED <<dev, held, queue, odd, restOfBtc>>

\* [mutant] The device is not looked for in the list.
DscpExistsNot ==
    /\ btc.pc = "exists" /\ list_lock = "none"
    /\ btc' = [btc EXCEPT !.pc = "describe"]
    /\ dangling' = IF Listed(btc.dev) THEN dangling \ {"btc"} ELSE dangling \cup {"btc"}
    /\ UNCHANGED <<dev, held, queue, cq, btq, odd, restOfBtc>>

\* The device may have been freed since.
DscpExists ==
    /\ btc.pc = "exists" /\ list_lock = "none"
    /\ btc' = IF Listed(btc.dev) THEN [btc EXCEPT !.pc = "describe"]
              ELSE [btc EXCEPT !.pc = "fail", !.dev = "none"]
    /\ Forget("btc")
    /\ odd' = odd \cup IF Listed(btc.dev) THEN Closing(btc.dev) ELSE {}
    /\ UNCHANGED <<dev, held, queue, cq, btq, restOfBtc>>

Describe ==
    /\ At("describe")
    /\ LET Fail == btc' = [btc EXCEPT !.pc = "fail"] IN
       \/ (~dev[btc.dev].connected \/ ~btc.ev.ok) /\ Fail /\ UNCHANGED dev
       \/ /\ dev[btc.dev].connected /\ btc.ev.ok
          /\ dev' = [dev EXCEPT ![btc.dev].added = btc.ev.flag,
                                ![btc.dev].reports = btc.ev.bda]
          /\ btc' = [btc EXCEPT !.pc = "status", !.ok = TRUE]
       \/ /\ dev[btc.dev].connected /\ btc.ev.ok /\ "bad_map" \in Faults
          /\ dev' = [dev EXCEPT ![btc.dev].added = btc.ev.flag]
          /\ Fail
    /\ UNCHANGED <<held, queue, cq, btq, dangling, odd, restOfBtc>>

AddDevEvt ==
    /\ Take("add")
    /\ LET d == ByHandle(Head(btq).bda) IN
       /\ Goto(IF d = "none" THEN "fail" ELSE "add", Head(btq), d, FALSE)
       /\ odd' = odd \cup IF d = "none" THEN {} ELSE Closing(d)
    /\ UNCHANGED <<dev, held, queue, cq, restOfBtc>>
AddDev ==
    /\ At("add")
    /\ dev' = [dev EXCEPT ![btc.dev].added = btc.ev.ok]
    /\ btc' = [btc EXCEPT !.pc = IF btc.ev.ok THEN "status" ELSE "fail", !.ok = btc.ev.ok]
    /\ UNCHANGED <<held, queue, cq, btq, dangling, odd, restOfBtc>>

\* CLOSE_EVT: the device is freed by the event loop.
CloseEvt ==
    /\ Take("close")
    /\ LET d == ByHandle(Head(btq).bda) IN
       IF d = "none"
       THEN btc' = [Idle EXCEPT !.pc = "post", !.out = Told("close", "none", FALSE)]
       ELSE Goto("close", Head(btq), d, FALSE)
    /\ UNCHANGED <<dev, held, queue, cq, odd, restOfBtc>>
Close ==
    /\ At("close")
    /\ dev' = [dev EXCEPT ![btc.dev].connected = FALSE, ![btc.dev].in_use = FALSE]
    /\ Post(Told("close", btc.dev, FALSE))
    /\ UNCHANGED <<held, queue, cq, btq, dangling, odd, restOfBtc>>

\* The six answers.
AnswerEvt ==
    /\ Take("answer")
    /\ LET d == ByHandle(Head(btq).bda) IN
       IF d = "none" THEN btc' = Idle ELSE Goto("answer", Head(btq), d, FALSE)
    /\ UNCHANGED <<dev, held, queue, cq, odd, restOfBtc>>

Feature(ev, d) ==
    [e |-> "feature", dev |-> d, ok |-> ev.ok, op |-> ev.op, want |-> ev.id,
     id |-> IF ev.op = "get_report" /\ ev.ok THEN dev[d].report_id ELSE 0]
Late(ev, d) == IF dev[d].trans \in {ev.op, "max"} THEN {} ELSE {"late"}

\* [mutant] Every answer that brings data keeps the lock until it is posted.
AnswerLocked ==
    /\ At("answer")
    /\ Post(Feature(btc.ev, btc.dev))
    /\ held' = IF btc.ev.op \in {"get_report", "get_idle", "get_protocol"}
               THEN held \cup {btc.dev} ELSE held
    /\ odd' = odd \cup Late(btc.ev, btc.dev)
    /\ UNCHANGED <<dev, queue, cq, btq, dangling, restOfBtc>>

\* GET_RPT_EVT unlocks the device only where it copies data, or has no memory: an
\* answer that is an error, or empty, keeps it locked.  The id that is taken off
\* the data is the one of the request that is remembered.
Answer ==
    /\ At("answer")
    /\ \/ /\ Post(Feature(btc.ev, btc.dev))
          /\ held' = IF btc.ev.op = "get_report" /\ ~btc.ev.ok
                     THEN held \cup {btc.dev} ELSE held
       \/ /\ "no_memory" \in Faults
          /\ btc.ev.op \in {"get_report", "get_idle", "get_protocol"}
          /\ btc' = [btc EXCEPT !.pc = "reset"] /\ UNCHANGED held
    /\ odd' = odd \cup Late(btc.ev, btc.dev)
    /\ UNCHANGED <<dev, queue, cq, btq, dangling, restOfBtc>>

\* [mutant] The timer of the transaction is not stopped.
ResetTransNoStop ==
    /\ At("reset")
    /\ dev' = [dev EXCEPT ![btc.dev].trans = "max", ![btc.dev].report_id = 0]
    /\ btc' = Idle
    /\ UNCHANGED <<held, queue, cq, btq, dangling, odd, restOfBtc>>

\* reset_trans ends whatever transaction there is.
ResetTrans ==
    /\ At("reset")
    /\ dev' = [dev EXCEPT ![btc.dev].trans = "max", ![btc.dev].report_id = 0,
                          ![btc.dev].timer = FALSE]
    /\ odd' = odd \cup Late(btc.ev, btc.dev)
    /\ btc' = Idle
    /\ UNCHANGED <<held, queue, cq, btq, dangling, restOfBtc>>

\* DATA_IND_EVT.  Boot reports are told by their length; which report other data is,
\* if any, is a question for ReportMap.
DataEvt ==
    /\ Take("data")
    /\ LET d == ByHandle(Head(btq).bda) IN
       IF d = "none" THEN btc' = Idle ELSE Goto("data", Head(btq), d, FALSE)
    /\ UNCHANGED <<dev, held, queue, cq, odd, restOfBtc>>
Data ==
    /\ At("data")
    /\ Post(Told("input", btc.dev, FALSE)) \/ btc' = Idle
    /\ UNCHANGED <<dev, held, queue, cq, btq, dangling, odd, restOfBtc>>

Btc == \/ OpenEvt \/ OpenLink \/ OpenFailed \/ Status \/ PostEvent
       \/ DscpEvt \/ DscpExists \/ Describe \/ AddDevEvt \/ AddDev
       \/ CloseEvt \/ Close \/ AnswerEvt \/ Answer \/ ResetTrans \/ DataEvt \/ Data

-----------------------------------------------------------------------------
(* The event loop: the application's callback, then the event's device is  *)
(* freed if it has come to its end.                                        *)

restOfEvt == <<cq, btq, btc, app, tmr, stackVars, work, held, crashed>>

\* The callback learns of devices; a device whose open failed, or that closed, is
\* to be freed.  The test for ERR_SDP (esp_hidh.c:857) compares an esp_err_t with
\* a status of the stack, and is never true.
TakeEvent ==
    /\ evt.pc = "idle" /\ queue # <<>>
    /\ queue' = Tail(queue)
    /\ LET e == Head(queue)
           ends == e.e = "close" \/ (e.e = "open" /\ ~e.ok)
       IN /\ evt' = IF ends /\ e.dev # "none" THEN [Resting EXCEPT !.pc = "free", !.dev = e.dev]
                    ELSE Resting
          /\ known' = CASE e.e = "open" /\ e.ok -> known \cup {e.dev}
                        [] ends -> known \ {e.dev}
                        [] OTHER -> known
    /\ UNCHANGED <<memVars, dangling, odd, restOfEvt>>

\* esp_hidh_dev_free_inner: the device leaves the list; its timer, its reports and
\* itself are freed.  If the device is locked, which is for good, this waits with
\* the list locked.
Pointer(t) == CASE t = "btc" -> btc.dev [] t = "app" -> app.dev [] t = "tmr" -> tmr.dev
FreeDevice ==
    /\ evt.pc = "free" /\ list_lock = "none"
    /\ \/ /\ Unlist(evt.dev) /\ Unlocked(evt.dev)
          /\ dev' = [dev EXCEPT ![evt.dev] = Free]
          /\ dangling' = dangling \cup {t \in {"btc", "app", "tmr"} : Pointer(t) = evt.dev}
          /\ odd' = odd \cup IF evt.dev \in ToSet(cq) THEN {"queued"} ELSE {}
          /\ evt' = Resting /\ UNCHANGED list_lock
       \/ /\ Unlist(evt.dev) /\ ~Unlocked(evt.dev)
          /\ list_lock' = "evt" /\ evt' = [evt EXCEPT !.pc = "destroy"]
          /\ UNCHANGED <<dev, dangling, odd>>
       \/ ~Listed(evt.dev) /\ evt' = Resting /\ UNCHANGED <<memVars, dangling, odd>>
    /\ UNCHANGED <<queue, known, restOfEvt>>

Evt == TakeEvent \/ FreeDevice

-----------------------------------------------------------------------------
(* The application.                                                        *)

restOfApp == <<held, queue, cq, btc, evt, tmr, undescribed, unadded, crashed>>

\* esp_hidh_dev_open: the address is looked up once here, and once more in
\* esp_bt_hidh_dev_open.
AppOpen(b) ==
    /\ app.pc = "idle" /\ list_lock = "none" /\ Work(2)
    /\ ByBda(b) = "none"
    /\ app' = [Resting EXCEPT !.pc = "open", !.op = b]
    /\ UNCHANGED <<memVars, known, btq, link, asked, dangling, odd, restOfApp>>
AppOpenDev ==
    /\ app.pc = "open" /\ list_lock = "none"
    /\ app' = IF ByBda(app.op) = "none" THEN [app EXCEPT !.pc = "ctor"]
              ELSE [app EXCEPT !.pc = "connect", !.dev = ByBda(app.op)]
    /\ UNCHANGED <<memVars, known, btq, link, asked, work, dangling, odd, restOfApp>>
\* The event of an incoming connection may have made the device meanwhile.
AppCtor ==
    /\ app.pc = "ctor" /\ list_lock = "none"
    /\ \/ \E s \in Slots : /\ Ctor(s, app.op)
                           /\ app' = [app EXCEPT !.pc = "connect", !.dev = s]
       \/ NoRoom /\ app' = Resting /\ UNCHANGED <<dev, list>>
    /\ UNCHANGED <<list_lock, known, btq, link, asked, work, dangling, odd, restOfApp>>
AppConnect ==
    /\ app.pc = "connect" /\ "app" \notin dangling
    /\ link' = [link EXCEPT ![app.op] = IF @ = "down" /\ ~dev[app.dev].connected
                                        THEN "paging" ELSE @]
    /\ known' = known \cup {app.dev} /\ app' = Resting
    /\ UNCHANGED <<memVars, btq, asked, work, dangling, odd, restOfApp>>

\* A request: esp_hidh_dev_exists, then the lock, then the operation.  id is that
\* of the report a GET_REPORT asks for; 0 is that of no report.
AppCall(s, op, id) ==
    /\ app.pc = "idle" /\ list_lock = "none" /\ Work(1)
    /\ s \in known
    /\ app' = IF Listed(s) THEN [pc |-> "call", dev |-> s, op |-> op, id |-> id] ELSE Resting
    /\ UNCHANGED <<memVars, known, btq, link, asked, dangling, odd, restOfApp>>

\* The stack is asked on behalf of s; it says nothing if there is no link.
Ask(s) == asked' = [asked EXCEPT ![dev[s].bda] =
                       IF link[dev[s].bda] = "up" THEN Append(@, [op |-> app.op, id |-> app.id])
                       ELSE @]

\* One transaction at a time; those with reports need the report, the others the
\* link.
Refused(s, op) ==
    \/ dev[s].trans # "max"
    \/ IF op \in {"set_report", "get_report"} THEN dev[s].reports = "none"
       ELSE ~dev[s].connected

\* [mutant] SET_IDLE starts no timer either.
TimerAfterSome(s, op) == op \notin {"get_report", "set_idle"} \/ dev[s].timer

\* The link is not the one that s had, or its OPEN_EVT has not been handled.
LinkIsNew(s) == link[dev[s].bda] = "up" /\ (~dev[s].connected
                \/ \E i \in DOMAIN btq : btq[i].k = "open" /\ btq[i].bda = dev[s].bda)

\* set_trans starts the timer, which may fail; a GET_REPORT has none.
TimerAfter(s, op) == op # "get_report" \/ dev[s].timer

Started(s, op, id) ==
    LET new == IF LinkIsNew(s) THEN {"new_link"} ELSE {} IN
    \/ /\ dev' = [dev EXCEPT ![s].trans = op, ![s].timer = TimerAfter(s, op),
                             ![s].report_id = IF op = "get_report" THEN id ELSE @]
       /\ odd' = odd \cup new
    \/ /\ "no_memory" \in Faults /\ op \in TimedOps
       /\ dev' = [dev EXCEPT ![s].trans = op]
       /\ odd' = odd \cup new \cup {"no_timer"}

AppRequest ==
    /\ app.pc = "call" /\ Unlocked(app.dev) /\ "app" \notin dangling
    /\ LET s == app.dev
           op == app.op
           Nothing == UNCHANGED <<dev, asked, odd>>
       IN \/ (op \notin Transactions \/ Refused(s, op)) /\ Nothing
          \/ op \in Transactions /\ "stack_error" \in Faults /\ Nothing
          \/ op \in Transactions /\ ~Refused(s, op) /\ Ask(s) /\ Started(s, op, app.id)
    /\ app' = Resting /\ Forget("app")
    /\ UNCHANGED <<list, list_lock, known, btq, link, work, restOfApp>>

App == \/ \E b \in Bdas : AppOpen(b)
       \/ AppOpenDev \/ AppCtor \/ AppConnect \/ AppRequest
       \/ \E s \in Slots, op \in Ops : AppCall(s, op, IF op = "get_report" THEN 1 ELSE 0)

-----------------------------------------------------------------------------
(* The timeout of a transaction.                                           *)

restOfTmr == <<list, list_lock, held, queue, cq, btc, evt, app, known, btq,
               stackVars, work, crashed>>

\* The handler runs and finds the device in the list.  One that has to wait while
\* the device is freed finds nothing and does nothing.
TimerFire(s) ==
    /\ tmr.pc = "idle" /\ dev[s].timer /\ list_lock = "none"
    /\ dev' = [dev EXCEPT ![s].timer = FALSE]
    /\ tmr' = [Resting EXCEPT !.pc = "reset", !.dev = s, !.op = dev[s].trans]
    /\ Forget("tmr")
    /\ UNCHANGED <<odd, restOfTmr>>
TimerReset ==
    /\ tmr.pc = "reset" /\ Unlocked(tmr.dev) /\ "tmr" \notin dangling
    /\ dev' = [dev EXCEPT ![tmr.dev].trans = "max", ![tmr.dev].report_id = 0]
    /\ LET answered == btc.dev = tmr.dev /\ btc.pc \in {"answer", "post", "reset"} IN
       odd' = IF /\ dev[tmr.dev].trans \in {"max", tmr.op}
                 /\ ~dev[tmr.dev].timer /\ ~answered THEN odd
              ELSE odd \cup {"late"}
    /\ tmr' = Resting /\ UNCHANGED <<dangling, restOfTmr>>
Tmr == TimerReset \/ \E s \in Slots : TimerFire(s)

-----------------------------------------------------------------------------
(* The stack, and the remote devices.                                      *)

restOfStack == <<memVars, held, queue, cq, btc, taskVars, dangling, crashed, odd>>
Ev(k, b, good, flag) == [k |-> k, bda |-> b, ok |-> good, flag |-> flag, op |-> "none", id |-> 0]
AnswerTo(q, b, good) ==
    [k |-> "answer", bda |-> b, ok |-> good, flag |-> FALSE, op |-> q.op, id |-> q.id]
Notify(ev) == Len(btq) < MaxBacklog /\ btq' = Append(btq, ev)
Good == {TRUE} \cup IF "stack_error" \in Faults THEN {FALSE} ELSE {}

\* A connection is made, by us or by the device; each one is described, in order.
StackOpen(b, good) ==
    /\ \/ link[b] = "paging" /\ UNCHANGED work
       \/ link[b] = "down" /\ Work(2)
    /\ link' = [link EXCEPT ![b] = IF good THEN "up" ELSE "down"]
    /\ Notify(Ev("open", b, good, link[b] = "paging"))
    /\ undescribed' = IF good THEN Append(undescribed, b) ELSE undescribed
    /\ UNCHANGED <<asked, unadded, restOfStack>>
\* A device that is not known already is added later.
StackDescribe(good, added) ==
    /\ undescribed # <<>> /\ (added => good)
    /\ Notify(Ev("dscp", Head(undescribed), good, added))
    /\ undescribed' = Tail(undescribed)
    /\ unadded' = IF good /\ ~added /\ link[Head(undescribed)] = "up"
                  THEN unadded \cup {Head(undescribed)}
                  ELSE unadded
    /\ UNCHANGED <<link, asked, work, restOfStack>>
StackAdd(b, good) ==
    /\ b \in unadded /\ b \notin ToSet(undescribed)
    /\ Notify(Ev("add", b, good, FALSE))
    /\ unadded' = unadded \ {b}
    /\ UNCHANGED <<link, asked, undescribed, work, restOfStack>>
StackClose(b) ==
    /\ link[b] = "up"
    /\ link' = [link EXCEPT ![b] = "down"] /\ asked' = [asked EXCEPT ![b] = <<>>]
    /\ unadded' = unadded \ {b}
    /\ Notify(Ev("close", b, TRUE, FALSE))
    /\ UNCHANGED <<undescribed, work, restOfStack>>
StackAnswer(b, good) ==
    /\ asked[b] # <<>>
    /\ Notify(AnswerTo(Head(asked[b]), b, good))
    /\ asked' = [asked EXCEPT ![b] = Tail(@)]
    /\ UNCHANGED <<link, undescribed, unadded, work, restOfStack>>
StackLoses(b) ==
    /\ "lost_answer" \in Faults /\ asked[b] # <<>>
    /\ asked' = [asked EXCEPT ![b] = Tail(@)]
    /\ UNCHANGED <<btq, link, undescribed, unadded, work, restOfStack>>
StackData(b) ==
    /\ link[b] = "up" /\ Work(2)
    /\ Notify(Ev("data", b, TRUE, FALSE))
    /\ UNCHANGED <<link, asked, undescribed, unadded, restOfStack>>

Stack == \/ \E b \in Bdas, good \in Good :
               StackOpen(b, good) \/ StackAdd(b, good) \/ StackAnswer(b, good)
         \/ \E good \in Good, added \in BOOLEAN : StackDescribe(good, added)
         \/ \E b \in Bdas : StackClose(b) \/ StackLoses(b) \/ StackData(b)

-----------------------------------------------------------------------------
\* A task locks or writes a structure that was freed.
TouchesFreed(t) ==
    /\ t \in dangling
    /\ CASE t = "btc" -> btc.pc \notin {"idle", "post", "exists"}
         [] t = "app" -> app.pc \in {"call", "connect"}
         [] t = "tmr" -> tmr.pc = "reset"
    /\ crashed' = t
    /\ UNCHANGED <<memVars, held, queue, cq, btc, taskVars, btq, stackVars, work, dangling, odd>>

\* esp_hh_cb stands still for good in two places: with a device locked by itself
\* after a GET_REPORT that failed, and without a connection for a descriptor.
StandsStill ==
    \/ btc.pc \in {"post", "reset"} /\ btc.ev.op = "get_report" /\ ~btc.ev.ok
    \/ btc.pc = "dequeue" /\ cq = <<>> /\ "skipped" \in odd

\* The chip is reset, by a watchdog or by its user.
Reboot ==
    /\ dev' = [s \in Slots |-> Free] /\ list' = <<>> /\ list_lock' = "none"
    /\ held' = {} /\ queue' = <<>> /\ cq' = <<>>
    /\ btc' = Idle /\ evt' = Resting /\ app' = Resting /\ tmr' = Resting
    /\ known' = {} /\ btq' = <<>>
    /\ link' = [b \in Bdas |-> "down"] /\ asked' = [b \in Bdas |-> <<>>]
    /\ undescribed' = <<>> /\ unadded' = {} /\ work' = 0
    /\ dangling' = {} /\ crashed' = "none" /\ odd' = {}

Next == \/ /\ crashed = "none"
           /\ \/ Btc \/ Evt \/ App \/ Tmr \/ Stack
              \/ \E t \in {"btc", "app", "tmr"} : TouchesFreed(t)
        \/ Reboot

\* The tasks are scheduled, and esp_timer runs out.  The application and the
\* stack owe nothing.
Running(A) == crashed = "none" /\ A
Fairness ==
    /\ WF_vars(Running(Btc \/ TouchesFreed("btc")))
    /\ WF_vars(Running(Evt))
    /\ WF_vars(Running(Tmr \/ TouchesFreed("tmr")))
Spec == Init /\ [][Next]_vars /\ Fairness

-----------------------------------------------------------------------------
(* Properties.                                                             *)

\* The list names each live device once, and the queue keeps its bound.
BtTypeOK ==
    /\ \A s \in Slots : dev[s].trans \in Transactions \cup {"max"}
    /\ \A i, j \in DOMAIN list :
          /\ dev[list[i]].live
          /\ i # j => list[i] # list[j]
    /\ \A s \in Slots : dev[s].live => Listed(s) \/ (evt.pc = "destroy" /\ evt.dev = s)
    /\ Len(queue) <= MaxEvents
    /\ held \subseteq Slots

\* esp_hh_cb never works on a device that the event loop has freed, unless the
\* device was given up by a failed open while events for it still come, or was
\* connected again after it had closed and before it was freed.
CallbackMemorySafe == crashed = "btc" => odd \cap {"failed", "closing"} # {}

\* A descriptor is stored in the device that it describes: the connection queue
\* pairs them by order alone, which fails for good once a connection was not
\* queued, and while a queued device was freed and its memory used again.
DescriptorOfItsOwn ==
    \A s \in Slots : dev[s].reports \notin {"none", dev[s].bda} =>
        odd \cap {"skipped", "queued"} # {}

\* The application is told of an open device only while there is one, and its
\* reports are known, with the two exceptions of CallbackMemorySafe.
OpenIsDescribed ==
    \A i \in DOMAIN queue : queue[i].e = "open" /\ queue[i].ok =>
        \/ dev[queue[i].dev].live /\ dev[queue[i].dev].reports # "none"
        \/ odd \cap {"failed", "closing"} # {}

\* The answer of a GET_REPORT is delivered with the id it was asked with, by which
\* its data is cut: unless the answer, or the timeout, of another transaction came
\* late, or the request was made through a device that had closed, on a link that a
\* device structure made later is to get.
AnswerIsWhole ==
    \A i \in DOMAIN queue :
        queue[i].op = "get_report" /\ queue[i].ok =>
            queue[i].id = queue[i].want \/ odd \cap {"late", "new_link"} # {}

\* Unless esp_hh_cb stands still for good, each event is handled to its end: the
\* event loop and the application give way.
EventsHandled == btc.pc # "idle" ~> btc.pc = "idle" \/ StandsStill \/ crashed # "none"

\* A transaction comes to its end, by its answer or by the timer, unless the timer
\* was not made.  A GET_REPORT never has one: it may block the device until that
\* is closed.
TransactionEnds ==
    \A s \in Slots :
        dev[s].trans \in TimedOps ~>
            dev[s].trans \notin TimedOps \/ "no_timer" \in odd \/ StandsStill \/ crashed # "none"
=============================================================================
