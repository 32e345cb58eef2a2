--------------------------- MODULE BtHidh_proofs ---------------------------
(***************************************************************************)
(* Proofs about BtHidh, for any devices, slots, requests and faults, and   *)
(* any lengths of the event queue and of the stack's backlog.              *)
(***************************************************************************)
EXTENDS BtHidh, SequenceTheorems, WellFoundedInduction, TLAPS

Unset == {"none"}
Device == [live : BOOLEAN, bda : Bdas \cup Unset, handle : Bdas \cup Unset,
           connected : BOOLEAN, added : BOOLEAN, in_use : BOOLEAN,
           reports : Bdas \cup Unset, trans : Transactions \cup {"max"},
           report_id : Nat, timer : BOOLEAN]
Event == [k : {"none", "open", "dscp", "add", "close", "answer", "data"},
          bda : Bdas \cup Unset, ok : BOOLEAN, flag : BOOLEAN,
          op : Transactions \cup Unset, id : Nat]
Message == [e : {"none", "open", "close", "feature", "input"}, dev : Slots \cup Unset,
            ok : BOOLEAN, op : Transactions \cup Unset, id : Nat, want : Nat]
\* What esp_hh_cb does with the device that it found.
Working == {"open", "status", "describe", "add", "close", "answer", "reset", "data"}
Steps == Working \cup {"idle", "fail", "post", "dequeue", "exists"}
Callback == [pc : Steps, ev : Event, dev : Slots \cup Unset, ok : BOOLEAN, out : Message]

DeviceType == dev \in [Slots -> Device] /\ list \in Seq(Slots) /\ held \subseteq Slots
QueueType ==
    /\ queue \in Seq(Message) /\ Len(queue) <= MaxEvents
    /\ cq \in Seq(Slots)
    /\ btq \in Seq(Event) /\ \A i \in DOMAIN btq : btq[i].bda \in Bdas /\ btq[i].k # "none"
BtcType ==
    /\ btc \in Callback
    /\ btc.pc \in Working \cup {"exists"} \/ (btc.pc = "post" /\ btc.out.e = "feature") =>
          btc.dev \in Slots
EvtType ==
    /\ DOMAIN evt = {"pc", "dev", "op", "id"} /\ evt.pc \in {"idle", "free", "destroy"}
    /\ evt.pc # "idle" => evt.dev \in Slots
AppType ==
    /\ DOMAIN app = {"pc", "dev", "op", "id"}
    /\ app.pc \in {"idle", "open", "ctor", "connect", "call"} /\ app.id \in Nat
    /\ app.pc \in {"open", "ctor", "connect"} => app.op \in Bdas
    /\ app.pc \in {"connect", "call"} => app.dev \in Slots
TmrType ==
    /\ DOMAIN tmr = {"pc", "dev", "op", "id"} /\ tmr.pc \in {"idle", "reset"}
    /\ tmr.pc = "reset" => tmr.dev \in Slots
TaskType == BtcType /\ EvtType /\ AppType /\ TmrType
StackType ==
    /\ link \in [Bdas -> {"down", "paging", "up"}]
    /\ asked \in [Bdas -> Seq([op : Transactions, id : Nat])]
    /\ undescribed \in Seq(Bdas) /\ unadded \subseteq Bdas
TypeInv == DeviceType /\ QueueType /\ TaskType /\ StackType

\* The list names each live device once; one that leaves it is freed, or waits for
\* its lock with the list locked.
ListInv ==
    /\ \A i \in DOMAIN list : dev[list[i]].live
    /\ \A i, j \in DOMAIN list : list[i] = list[j] => i = j
    /\ \A s \in Slots : dev[s].live => Listed(s) \/ (evt.pc = "destroy" /\ evt.dev = s)
    /\ list_lock = IF evt.pc = "destroy" THEN "evt" ELSE "none"

\* What has not gone wrong.
Clean == odd \cap {"failed", "closing"} = {}

\* The first of the list with its address.
IsFirst(s) ==
    \E i \in DOMAIN list : list[i] = s /\ \A j \in 1 .. i - 1 : dev[list[j]].bda # dev[s].bda

\* Of two structures of one address only the first gets the link.
HandleInv ==
    \A s \in Slots : dev[s].handle # "none" /\ Listed(s) => dev[s].handle = dev[s].bda /\ IsFirst(s)

\* Behind the n-th event of the backlog, no event of a link of b comes before the
\* OPEN_EVT of that link, which is on its way if b has a link.
IsOpen(i, b) == btq[i].k = "open" /\ btq[i].bda = b
QuietBehind(n, b) ==
    /\ \A i \in DOMAIN btq : i > n /\ btq[i].bda = b /\ btq[i].k \in {"close", "answer", "data"} =>
          \E j \in n + 1 .. i - 1 : IsOpen(j, b)
    /\ link[b] = "up" => \E j \in DOMAIN btq : j > n /\ IsOpen(j, b)
StackInv ==
    /\ \A b \in Bdas : asked[b] # <<>> => link[b] = "up"
    /\ \A i \in DOMAIN btq, b \in Bdas : btq[i].k = "close" /\ btq[i].bda = b => QuietBehind(i, b)

\* A device that has closed hears nothing any more.
ClosedInv ==
    \A s \in Slots : Listed(s) /\ ~dev[s].in_use =>
        \E b \in Bdas : dev[s].handle = b /\ QuietBehind(0, b)

\* A device that has closed is freed once: one event says so, or the event loop is
\* at it.
Frees(m, s) == m.dev = s /\ (m.e = "close" \/ (m.e = "open" /\ ~m.ok))
Posting(s) == btc.pc = "post" /\ Frees(btc.out, s)
Freeing(s) == evt.pc = "free" /\ evt.dev = s
FreeInv ==
    \A s \in Slots :
       /\ (\E i \in DOMAIN queue : Frees(queue[i], s)) \/ Posting(s) \/ Freeing(s) =>
             Listed(s) /\ ~dev[s].in_use
       /\ \A i, j \in DOMAIN queue : Frees(queue[i], s) /\ Frees(queue[j], s) => i = j
       /\ Freeing(s) \/ Posting(s) => \A i \in DOMAIN queue : ~Frees(queue[i], s)
       /\ ~(Freeing(s) /\ Posting(s))

\* A device that esp_hh_cb has found is not one that is freed.
Found == btc.pc \in Working \/ (btc.pc = "fail" /\ btc.dev # "none")
         \/ (btc.pc = "post" /\ btc.out.e = "feature")
WorksOn(d) ==
    /\ Listed(d) /\ dev[d].in_use
    /\ btc.pc = "open" => btc.ev.bda = dev[d].bda /\ IsFirst(d)
    /\ btc.pc = "close" => \E b \in Bdas : btc.ev.bda = b /\ dev[d].handle = b /\ QuietBehind(0, b)
CallbackInv ==
    /\ crashed # "btc"
    /\ Found => \E d \in Slots : btc.dev = d /\ WorksOn(d)
    /\ Found \/ btc.pc \in {"fail", "dequeue"} => "btc" \notin dangling
    /\ btc.pc = "dequeue" => btc.dev = "none"
    /\ btc.pc = "post" /\ btc.out.e = "open" /\ ~btc.out.ok => btc.dev = "none" /\ btc.out.dev = "none"

CleanInv == Clean => HandleInv /\ StackInv /\ ClosedInv /\ FreeInv /\ CallbackInv
BtInv == TypeInv /\ ListInv /\ CleanInv
-----------------------------------------------------------------------------
(* The list.                                                               *)

Less == {p \in Nat \X Nat : p[1] < p[2]}

\* Numbers have a least one.
LEMMA LeastIs ==
    ASSUME NEW T, T \subseteq Nat, T # {}
    PROVE  Min(T) \in T /\ \A y \in T : Min(T) <= y
<1>1. IsWellFoundedOn(Less, Nat)
  BY NatLessThanWellFounded DEF OpToRel, Less
<1>2. PICK x \in T : \A y \in T : <<y, x>> \notin Less
  BY <1>1, WFMin
<1>3. \A y \in T : <<y, x>> \in Less <=> y < x
  BY <1>2 DEF Less
<1>4. \A y \in T : x \in Nat /\ y \in Nat /\ ~(y < x)
  BY <1>2, <1>3
<1>5. \A y \in T : x <= y
  BY <1>4
<1> QED BY <1>2, <1>5 DEF Min

\* What First finds is the first.
LEMMA FirstIs ==
    ASSUME DeviceType, NEW P, P \subseteq DOMAIN list
    PROVE  IF P = {} THEN First(P) = "none"
           ELSE \E i \in P : First(P) = list[i] /\ \A j \in P : i <= j
<1>1. CASE P = {}
  BY <1>1 DEF First
<1>2. CASE P # {}
  <2>1. Min(P) \in P /\ \A j \in P : Min(P) <= j
    BY <1>2, LeastIs DEF DeviceType
  <2> QED BY <1>2, <2>1 DEF First
<1> QED BY <1>1, <1>2

\* What a look-up by address finds.
LEMMA ByBdaIs ==
    ASSUME DeviceType, NEW b \in Bdas
    PROVE  /\ ByBda(b) = "none" => \A s \in Slots : Listed(s) => dev[s].bda # b
           /\ ByBda(b) # "none" =>
                 /\ ByBda(b) \in Slots /\ Listed(ByBda(b)) /\ IsFirst(ByBda(b))
                 /\ dev[ByBda(b)].bda = b
<1> DEFINE P == {i \in DOMAIN list : dev[list[i]].bda = b}
<1>1. IF P = {} THEN ByBda(b) = "none"
      ELSE \E i \in P : ByBda(b) = list[i] /\ \A j \in P : i <= j
  BY FirstIs DEF ByBda
<1>2. \A i \in DOMAIN list : i \in Nat /\ list[i] \in Slots /\ list[i] # "none"
                             /\ \A j \in 1 .. i - 1 : j \in DOMAIN list /\ j \in Nat /\ j < i
  BY BtAssumption DEF DeviceType
<1>3. CASE P = {}
  BY <1>1, <1>3 DEF Listed, ToSet
<1>4. CASE P # {}
  <2>1. PICK i \in P : ByBda(b) = list[i] /\ \A j \in P : i <= j
    BY <1>1, <1>4
  <2>2. \A j \in 1 .. i - 1 : dev[list[j]].bda # b
    BY <1>2, <2>1
  <2> QED BY <1>2, <2>1, <2>2 DEF Listed, ToSet, IsFirst
<1> QED BY <1>3, <1>4

\* What a look-up by handle finds.
LEMMA ByHandleIs ==
    ASSUME DeviceType, NEW b \in Bdas
    PROVE  /\ ByHandle(b) = "none" => \A s \in Slots : Listed(s) => dev[s].handle # b
           /\ ByHandle(b) # "none" =>
                 ByHandle(b) \in Slots /\ Listed(ByHandle(b)) /\ dev[ByHandle(b)].handle = b
<1> DEFINE P == {i \in DOMAIN list : dev[list[i]].handle = b}
<1>1. IF P = {} THEN ByHandle(b) = "none"
      ELSE \E i \in P : ByHandle(b) = list[i] /\ \A j \in P : i <= j
  BY FirstIs DEF ByHandle
<1>2. \A i \in DOMAIN list : list[i] \in Slots /\ list[i] # "none"
  BY BtAssumption DEF DeviceType
<1> QED BY <1>1, <1>2 DEF Listed, ToSet

\* A device that leaves the list leaves the others in their order.
LEMMA UnlistIs ==
    ASSUME DeviceType, NEW s, Unlist(s)
    PROVE  \E i \in DOMAIN list :
              /\ list[i] = s /\ list' \in Seq(Slots) /\ Len(list') = Len(list) - 1
              /\ \A j \in DOMAIN list' : list'[j] = list[IF j < i THEN j ELSE j + 1]
<1>1. PICK i \in DOMAIN list : list[i] = s /\ list' = RemoveAt(list, i)
  BY DEF Unlist
<1>2. list \in Seq(Slots) /\ i \in 1 .. Len(list)
  BY DEF DeviceType
<1>3. list' = SubSeq(list, 1, i - 1) \o SubSeq(list, i + 1, Len(list))
  BY <1>1 DEF RemoveAt
<1>4. /\ SubSeq(list, 1, i - 1) \in Seq(Slots) /\ Len(SubSeq(list, 1, i - 1)) = i - 1
      /\ \A j \in 1 .. i - 1 : SubSeq(list, 1, i - 1)[j] = list[j]
  BY <1>2
<1>5. /\ SubSeq(list, i + 1, Len(list)) \in Seq(Slots)
      /\ Len(SubSeq(list, i + 1, Len(list))) = Len(list) - i
      /\ \A j \in 1 .. Len(list) - i : SubSeq(list, i + 1, Len(list))[j] = list[i + j]
  BY <1>2
<1> DEFINE a == SubSeq(list, 1, i - 1)
           c == SubSeq(list, i + 1, Len(list))
<1>6. a \in Seq(Slots) /\ Len(a) = i - 1 /\ c \in Seq(Slots) /\ Len(c) = Len(list) - i
  BY <1>4, <1>5
<1>7. /\ a \o c \in Seq(Slots) /\ Len(a \o c) = Len(list) - 1
      /\ \A j \in 1 .. Len(list) - 1 : (a \o c)[j] = IF j < i THEN a[j] ELSE c[j - i + 1]
  <2> HIDE DEF a, c
  <2> QED BY <1>2, <1>6
<1>8. \A j \in 1 .. Len(list) - 1 : (a \o c)[j] = list[IF j < i THEN j ELSE j + 1]
  <2> SUFFICES ASSUME NEW j \in 1 .. Len(list) - 1
               PROVE  (a \o c)[j] = list[IF j < i THEN j ELSE j + 1]
    OBVIOUS
  <2>1. CASE j < i
    BY <2>1, <1>7, <1>4, <1>2
  <2>2. CASE ~(j < i)
    <3>1. c[j - i + 1] = list[i + (j - i + 1)]
      BY <2>2, <1>5, <1>2
    <3>2. i + (j - i + 1) = j + 1
      BY <1>2
    <3> QED BY <2>2, <3>1, <3>2, <1>7
  <2> QED BY <2>1, <2>2
<1>9. list' = a \o c
  BY <1>3
<1> HIDE DEF a, c
<1>10. DOMAIN list' = 1 .. Len(list) - 1
  BY <1>2, <1>7, <1>9
<1> QED BY <1>1, <1>7, <1>8, <1>9, <1>10
-----------------------------------------------------------------------------
(* Types.                                                                  *)

\* A structure keeps its type when the fields below are set.
LEMMA DeviceIs ==
    ASSUME DeviceType
    PROVE  dev \in [Slots -> Device] /\ list \in Seq(Slots) /\ held \in SUBSET Slots
BY DEF DeviceType

\* A structure that is free, and one that hidh_dev_ctor fills.
LEMMA FreeIs == Free \in Device /\ \A b \in Bdas : [Free EXCEPT !.live = TRUE, !.in_use = TRUE, !.bda = b] \in Device
BY BtAssumption DEF Free, Device, Unset

\* The fields that the callback and the timer set are of their types.
LEMMA FieldsAre ==
    ASSUME DeviceType, NEW s \in Slots, NEW h \in Bdas \cup Unset
    PROVE  /\ [dev EXCEPT ![s].connected = TRUE, ![s].handle = h] \in [Slots -> Device]
           /\ [dev EXCEPT ![s].in_use = FALSE] \in [Slots -> Device]
           /\ [dev EXCEPT ![s].connected = FALSE, ![s].in_use = FALSE] \in [Slots -> Device]
           /\ [dev EXCEPT ![s].timer = FALSE] \in [Slots -> Device]
<1>0. dev \in [Slots -> Device]
  BY DEF DeviceType
<1>1. \A d \in Device : [d EXCEPT !.connected = TRUE, !.handle = h] \in Device
  BY DEF Device
<1>2. \A d \in Device : [d EXCEPT !.in_use = FALSE] \in Device
  BY DEF Device
<1>3. \A d \in Device : [d EXCEPT !.connected = FALSE, !.in_use = FALSE] \in Device
  BY DEF Device
<1>4. \A d \in Device : [d EXCEPT !.timer = FALSE] \in Device
  BY DEF Device
<1>5. PICK d \in Device : d = [dev[s] EXCEPT !.connected = TRUE, !.handle = h]
  BY <1>0, <1>1
<1>6. [dev EXCEPT ![s].connected = TRUE, ![s].handle = h] = [dev EXCEPT ![s] = d]
  BY <1>0, <1>5
<1>7. PICK e \in Device : e = [dev[s] EXCEPT !.in_use = FALSE]
  BY <1>0, <1>2
<1>8. PICK f \in Device : f = [dev[s] EXCEPT !.connected = FALSE, !.in_use = FALSE]
  BY <1>0, <1>3
<1>9. [dev EXCEPT ![s].connected = FALSE, ![s].in_use = FALSE] = [dev EXCEPT ![s] = f]
  BY <1>0, <1>8
<1>10. PICK g \in Device : g = [dev[s] EXCEPT !.timer = FALSE]
  BY <1>0, <1>4
<1>11. /\ [dev EXCEPT ![s] = d] \in [Slots -> Device] /\ [dev EXCEPT ![s] = e] \in [Slots -> Device]
       /\ [dev EXCEPT ![s] = f] \in [Slots -> Device] /\ [dev EXCEPT ![s] = g] \in [Slots -> Device]
  BY <1>0
<1> QED BY <1>6, <1>7, <1>9, <1>10, <1>11

\* hidh_dev_ctor keeps the types of the devices and of the list.
LEMMA CtorIs ==
    ASSUME DeviceType, NEW s \in Slots, NEW b \in Bdas, Ctor(s, b)
    PROVE  dev' \in [Slots -> Device] /\ list' \in Seq(Slots)
<1>1. dev' \in [Slots -> Device]
  <2>1. dev' = [dev EXCEPT ![s] = [Free EXCEPT !.live = TRUE, !.in_use = TRUE, !.bda = b]]
    BY DEF Ctor
  <2> QED BY <2>1, FreeIs, DeviceIs
<1>2. list' \in Seq(Slots)
  BY DeviceIs DEF Ctor
<1> QED BY <1>1, <1>2

\* The parts of what esp_hh_cb holds.
LEMMA BtcIs ==
    ASSUME TaskType
    PROVE  /\ btc.ev \in Event /\ btc.out \in Message /\ btc.dev \in Slots \cup Unset
           /\ btc.ok \in BOOLEAN /\ btc.ev.ok \in BOOLEAN /\ btc.ev.flag \in BOOLEAN
           /\ btc.ev.bda \in Bdas \cup Unset
           /\ btc.ev.op \in Transactions \cup Unset /\ btc.ev.id \in Nat
<1>2. btc \in Callback
  BY DEF TaskType, BtcType
<1>1. btc.ev \in Event /\ btc.out \in Message /\ btc.dev \in Slots \cup Unset /\ btc.ok \in BOOLEAN
  BY <1>2 DEF Callback
<1> QED BY <1>1 DEF Event

\* No event, and nothing to post.
LEMMA EventIs == NoEvent \in Event /\ NoPost \in Message
BY DEF NoEvent, NoPost, Told, Event, Message, Unset

\* After esp_bt_hidh_init the types hold.
LEMMA BtInitTypes == Init => TypeInv
<1> SUFFICES ASSUME Init PROVE TypeInv
  OBVIOUS
<1>1. <<>> \in Seq(Slots) /\ <<>> \in Seq(Message) /\ <<>> \in Seq(Event) /\ <<>> \in Seq(Bdas)
      /\ <<>> \in Seq([op : Transactions, id : Nat])
  OBVIOUS
<1>2. DeviceType
  BY <1>1, FreeIs DEF Init, DeviceType
<1>3. QueueType
  BY <1>1, BtAssumption DEF Init, QueueType
<1>4. Idle \in Callback
  BY EventIs DEF Idle, Callback, Steps, Working, Unset
<1>5. BtcType
  BY <1>4 DEF Init, BtcType, Idle, Working
<1>6. EvtType /\ AppType /\ TmrType
  BY DEF Init, EvtType, AppType, TmrType, Resting
<1>7. StackType
  BY <1>1 DEF Init, StackType
<1> QED BY <1>2, <1>3, <1>5, <1>6, <1>7 DEF TypeInv, TaskType

\* What the stack reports of a step is a Boolean.
LEMMA GoodIs == \A good \in Good : good \in BOOLEAN
BY DEF Good

\* What a step may change.
LEMMA Frames ==
    ASSUME Next \/ UNCHANGED vars, ~Reboot
    PROVE  /\ \/ UNCHANGED <<dev, list>> \/ OpenEvt \/ OpenLink \/ OpenFailed \/ Describe \/ AddDev
              \/ Close \/ ResetTrans \/ FreeDevice \/ AppCtor \/ AppRequest \/ Tmr
           /\ UNCHANGED held \/ Answer
           /\ UNCHANGED queue \/ PostEvent \/ TakeEvent
           /\ UNCHANGED cq \/ OpenLink \/ DscpEvt
           /\ \/ UNCHANGED btq \/ OpenEvt \/ DscpEvt \/ AddDevEvt \/ CloseEvt \/ AnswerEvt
              \/ DataEvt \/ Stack
           /\ UNCHANGED btc \/ Btc
           /\ UNCHANGED <<evt, list_lock>> \/ TakeEvent \/ FreeDevice
           /\ UNCHANGED app \/ App
           /\ UNCHANGED tmr \/ Tmr
           /\ UNCHANGED stackVars \/ Stack \/ AppConnect \/ AppRequest
           /\ UNCHANGED crashed \/ \E t \in {"btc", "app", "tmr"} : TouchesFreed(t)
<1> USE DEF memVars, taskVars, stackVars, restOfBtc, restOfEvt, restOfApp, restOfTmr, restOfStack
<1>1. CASE OpenEvt \/ DscpEvt \/ AddDevEvt \/ CloseEvt \/ AnswerEvt \/ DataEvt
  BY <1>1 DEF OpenEvt, DscpEvt, AddDevEvt, CloseEvt, AnswerEvt, DataEvt, Btc
<1>2. CASE OpenLink \/ OpenFailed \/ Describe \/ AddDev \/ Close \/ ResetTrans
  BY <1>2 DEF OpenLink, OpenFailed, Describe, AddDev, Close, ResetTrans, Btc
<1>3. CASE Status \/ PostEvent \/ DscpExists \/ Answer \/ Data
  BY <1>3 DEF Status, PostEvent, DscpExists, Answer, Data, Btc
<1>4. CASE Evt \/ Tmr
  BY <1>4 DEF Evt, TakeEvent, FreeDevice, Tmr, TimerReset, TimerFire
<1>5. CASE App
  BY <1>5 DEF App, AppOpen, AppOpenDev, AppCtor, AppConnect, AppCall, AppRequest
<1>6. CASE Stack
  BY <1>6 DEF Stack, StackOpen, StackDescribe, StackAdd, StackClose, StackAnswer, StackLoses, StackData
<1>7. CASE (\E t \in {"btc", "app", "tmr"} : TouchesFreed(t)) \/ UNCHANGED vars
  BY <1>7 DEF TouchesFreed, vars
<1> QED BY <1>1, <1>2, <1>3, <1>4, <1>5, <1>6, <1>7 DEF Next, Btc

\* Types are kept, one after the other.
LEMMA DeviceTypeStep ==
    ASSUME TypeInv, Next \/ UNCHANGED vars
    PROVE  DeviceType'
<1> USE DEF memVars, taskVars, stackVars, restOfBtc, restOfEvt, restOfApp, restOfTmr, restOfStack
<1>1. CASE OpenEvt
  <2>1. CASE UNCHANGED <<dev, list>>
    BY <2>1, <1>1, DeviceIs DEF OpenEvt, TypeInv, DeviceType
  <2>2. ASSUME NEW s \in Slots, Ctor(s, Head(btq).bda), Take("open") PROVE DeviceType'
    <3>1. Head(btq).bda \in Bdas
      BY <2>2 DEF Take, TypeInv, QueueType
    <3> QED BY <3>1, <2>2, CtorIs, DeviceIs, <1>1 DEF OpenEvt, TypeInv, DeviceType
  <2> QED BY <2>1, <2>2, <1>1 DEF OpenEvt
<1>2. CASE OpenLink
  <2>1. dev \in [Slots -> Device] /\ btc.dev \in Slots /\ btc.ev.bda \in Bdas \cup Unset
    BY <1>2, DeviceIs, BtcIs DEF TypeInv, OpenLink, At
  <2>2. dev' \in [Slots -> Device]
    <3>1. dev' = [dev EXCEPT ![btc.dev].connected = TRUE, ![btc.dev].handle = btc.ev.bda]
      BY <1>2 DEF OpenLink
    <3> QED BY <2>1, <3>1, FieldsAre DEF TypeInv
  <2> QED BY <2>2, <1>2, DeviceIs DEF OpenLink, TypeInv, DeviceType
<1>3. CASE OpenFailed
  <2>1. CASE UNCHANGED dev
    BY <2>1, <1>3, DeviceIs DEF OpenFailed, TypeInv, DeviceType
  <2>2. CASE At("fail")
    <3>1. dev \in [Slots -> Device] /\ btc.dev \in Slots /\ btc.dev # "none"
      BY <2>2, DeviceIs, BtAssumption DEF TypeInv, At
    <3>2. dev' = IF dev[btc.dev].connected THEN dev ELSE [dev EXCEPT ![btc.dev].in_use = FALSE]
      BY <3>1, <1>3 DEF OpenFailed
    <3>3. dev' \in [Slots -> Device]
      BY <3>1, <3>2, FieldsAre DEF TypeInv, Unset
    <3> QED BY <3>3, <1>3, DeviceIs DEF OpenFailed, TypeInv, DeviceType
  <2> QED BY <2>1, <2>2, <1>3 DEF OpenFailed
<1>4. CASE Describe
  <2>1. dev \in [Slots -> Device] /\ btc.dev \in Slots /\ btc.ev.bda \in Bdas \cup Unset
        /\ btc.ev.flag \in BOOLEAN
    BY <1>4, DeviceIs, BtcIs DEF TypeInv, Describe, At
  <2>2. dev' \in [Slots -> Device]
    BY <2>1, <1>4 DEF Describe, Device
  <2> QED BY <2>2, <1>4, DeviceIs DEF Describe, TypeInv, DeviceType
<1>5. CASE AddDev
  <2>1. dev \in [Slots -> Device] /\ btc.dev \in Slots /\ btc.ev.ok \in BOOLEAN
    BY <1>5, DeviceIs, BtcIs DEF TypeInv, AddDev, At
  <2>2. dev' \in [Slots -> Device]
    BY <2>1, <1>5 DEF AddDev, Device
  <2> QED BY <2>2, <1>5, DeviceIs DEF AddDev, TypeInv, DeviceType
<1>6. CASE Close
  <2>1. dev \in [Slots -> Device] /\ btc.dev \in Slots
    BY <1>6, DeviceIs DEF TypeInv, Close, At, Post, NoPost, NoEvent
  <2>2. dev' \in [Slots -> Device]
    <3>1. dev' = [dev EXCEPT ![btc.dev].connected = FALSE, ![btc.dev].in_use = FALSE]
      BY <1>6 DEF Close
    <3> QED BY <2>1, <3>1, FieldsAre DEF TypeInv, Unset
  <2> QED BY <2>2, <1>6, DeviceIs DEF Close, At, Post, NoPost, NoEvent, TypeInv, DeviceType
<1>7. CASE Answer
  <2>1. held' \in SUBSET Slots
    BY <1>7, DeviceIs DEF Answer, At, TypeInv
  <2> QED BY <2>1, <1>7, DeviceIs DEF Answer, TypeInv, DeviceType
<1>8. CASE ResetTrans
  <2>1. dev \in [Slots -> Device] /\ btc.dev \in Slots
    BY <1>8, DeviceIs DEF TypeInv, ResetTrans, At, Idle, NoPost, NoEvent
  <2>2. dev' \in [Slots -> Device]
    BY <2>1, <1>8 DEF Device, ResetTrans
  <2> QED BY <2>2, <1>8, DeviceIs DEF ResetTrans, At, Idle, NoPost, NoEvent, TypeInv, DeviceType
<1>9. CASE FreeDevice
  <2>0. dev' \in [Slots -> Device]
    BY <1>9, FreeIs, DeviceIs DEF FreeDevice, TypeInv
  <2>1. CASE Unlist(evt.dev)
    <3>1. list' \in Seq(Slots)
      BY <2>1, UnlistIs DEF TypeInv
    <3> QED BY <3>1, <2>0, <1>9, DeviceIs DEF FreeDevice, TypeInv, DeviceType
  <2>2. CASE UNCHANGED <<dev, list>>
    BY <2>2, <1>9, DeviceIs DEF FreeDevice, TypeInv, DeviceType
  <2> QED BY <2>1, <2>2, <1>9 DEF FreeDevice
<1>10. CASE AppCtor
  <2>1. CASE UNCHANGED <<dev, list>>
    BY <2>1, <1>10, DeviceIs DEF AppCtor, TypeInv, DeviceType
  <2>2. ASSUME NEW s \in Slots, Ctor(s, app.op) PROVE DeviceType'
    BY <2>2, CtorIs, DeviceIs, <1>10 DEF AppCtor, TypeInv, DeviceType, TaskType, AppType
  <2> QED BY <2>1, <2>2, <1>10 DEF AppCtor
<1>11. CASE AppRequest
  <2>1. CASE UNCHANGED dev
    BY <2>1, <1>11, DeviceIs DEF AppRequest, TypeInv, DeviceType
  <2>2. CASE app.op \in Transactions /\ Started(app.dev, app.op, app.id)
    <3>1. dev \in [Slots -> Device] /\ app.dev \in Slots /\ app.id \in Nat
      BY <1>11, DeviceIs DEF TypeInv, TaskType, BtcType, EvtType, AppType, TmrType, AppRequest
    <3>2. dev' \in [Slots -> Device]
      BY <3>1, <2>2 DEF Started, TimerAfter, Device
    <3> QED BY <3>2, <1>11, DeviceIs DEF AppRequest, TypeInv, DeviceType
  <2> QED BY <2>1, <2>2, <1>11 DEF AppRequest
<1>12. CASE TimerReset
  <2>1. dev \in [Slots -> Device] /\ tmr.dev \in Slots
    BY <1>12, DeviceIs DEF TypeInv, TaskType, BtcType, EvtType, AppType, TmrType, TimerReset
  <2>2. dev' \in [Slots -> Device]
    BY <2>1, <1>12 DEF TimerReset, Device
  <2> QED BY <2>2, <1>12, DeviceIs DEF TimerReset, TypeInv, DeviceType
<1>13. ASSUME NEW s \in Slots, TimerFire(s) PROVE DeviceType'
  <2>1. dev \in [Slots -> Device]
    BY DeviceIs DEF TypeInv
  <2>2. dev' \in [Slots -> Device]
    <3>1. dev' = [dev EXCEPT ![s].timer = FALSE]
      BY <1>13 DEF TimerFire
    <3> QED BY <2>1, <3>1, FieldsAre DEF TypeInv, Unset
  <2> QED BY <2>2, <1>13, DeviceIs DEF TimerFire, TypeInv, DeviceType
<1>14. CASE Reboot
  <2>1. <<>> \in Seq(Slots)
    OBVIOUS
  <2> QED BY <2>1, <1>14, FreeIs DEF Reboot, DeviceType
<1>15. CASE UNCHANGED <<dev, list, held>>
  BY <1>15, DeviceIs DEF TypeInv, DeviceType
<1> QED BY <1>1, <1>2, <1>3, <1>4, <1>5, <1>6, <1>7, <1>8, <1>9, <1>10, <1>11,
           <1>12, <1>13, <1>14, <1>15, Frames
      DEF Tmr

\* The queues: their types, one by one.
LEMMA QueuesAre ==
    ASSUME QueueType
    PROVE  /\ queue \in Seq(Message) /\ Len(queue) \in Nat /\ cq \in Seq(Slots) /\ btq \in Seq(Event)
           /\ \A i \in DOMAIN btq : btq[i] \in Event /\ btq[i].bda \in Bdas /\ btq[i].k # "none"
BY DEF QueueType

\* The connections that are left when one is taken.
LEMMA LeftIs ==
    ASSUME QueueType, cq' = cq \/ (cq # <<>> /\ cq' = Tail(cq))
    PROVE  cq' \in Seq(Slots)
<1>1. cq \in Seq(Slots)
  BY DEF QueueType
<1>2. CASE cq' = cq
  BY <1>1, <1>2
<1>3. CASE cq # <<>> /\ cq' = Tail(cq)
  BY <1>1, <1>3, HeadTailProperties
<1> QED BY <1>2, <1>3

\* What an event that is put in the backlog adds.
LEMMA NotifyIs ==
    ASSUME QueueType, NEW e \in Event, e.bda \in Bdas, e.k # "none", btq' = Append(btq, e)
    PROVE  /\ btq' \in Seq(Event) /\ Len(btq') = Len(btq) + 1 /\ btq'[Len(btq) + 1] = e
           /\ \A i \in DOMAIN btq : i \in DOMAIN btq' /\ btq'[i] = btq[i]
           /\ \A i \in DOMAIN btq' : i \in DOMAIN btq \/ i = Len(btq) + 1
           /\ \A i \in DOMAIN btq' : btq'[i].bda \in Bdas /\ btq'[i].k # "none"
<1>1. btq \in Seq(Event)
  BY QueuesAre
<1>2. /\ btq' \in Seq(Event) /\ Len(btq') = Len(btq) + 1 /\ btq'[Len(btq) + 1] = e
      /\ \A i \in DOMAIN btq : i \in DOMAIN btq' /\ btq'[i] = btq[i]
      /\ \A i \in DOMAIN btq' : i \in DOMAIN btq \/ i = Len(btq) + 1
  BY <1>1
<1> QED BY <1>2, QueuesAre

\* The queues keep their types when an event is put in the backlog.
LEMMA NotifyType ==
    ASSUME QueueType, NEW e \in Event, e.bda \in Bdas, e.k # "none", btq' = Append(btq, e),
           UNCHANGED <<queue, cq>>
    PROVE  QueueType'
<1>1. btq' \in Seq(Event) /\ \A i \in DOMAIN btq' : btq'[i].bda \in Bdas /\ btq'[i].k # "none"
  BY NotifyIs
<1> QED BY <1>1 DEF QueueType

\* What Take leaves, and gives.
LEMMA TakeIs ==
    ASSUME QueueType, NEW k, Take(k)
    PROVE  /\ Head(btq) \in Event /\ Head(btq).bda \in Bdas /\ Head(btq) = btq[1] /\ 1 \in DOMAIN btq
           /\ Head(btq).k = k
           /\ btq' \in Seq(Event) /\ Len(btq') = Len(btq) - 1
           /\ \A i \in DOMAIN btq' : i \in Nat /\ i + 1 \in DOMAIN btq /\ btq'[i] = btq[i + 1]
           /\ \A i \in DOMAIN btq : i \in Nat /\ (i > 1 => i - 1 \in DOMAIN btq')
<1>1. btq \in Seq(Event) /\ btq # <<>> /\ btq' = Tail(btq) /\ Head(btq).k = k
  BY QueuesAre DEF Take
<1>2. Head(btq) = btq[1] /\ 1 \in DOMAIN btq
  BY <1>1
<1> QED BY <1>1, <1>2, QueuesAre

\* An event of the stack.
LEMMA EvIs ==
    \A k \in {"open", "dscp", "add", "close", "answer", "data"}, b \in Bdas, good, flag \in BOOLEAN :
        /\ Ev(k, b, good, flag) \in Event /\ Ev(k, b, good, flag).bda \in Bdas
        /\ Ev(k, b, good, flag).bda = b /\ Ev(k, b, good, flag).k = k
        /\ Ev(k, b, good, flag).k # "none"
BY DEF Ev, Event, Unset

\* An answer to a request.
LEMMA AnswerToIs ==
    ASSUME NEW b \in Bdas, NEW good \in BOOLEAN, NEW q \in [op : Transactions, id : Nat]
    PROVE  LET e == AnswerTo(q, b, good)
           IN  e \in Event /\ e.bda = b /\ e.k = "answer"
BY DEF AnswerTo, Event

\* The event queue, the devices to describe and the stack's backlog.
LEMMA QueueTypeStep ==
    ASSUME TypeInv, Next \/ UNCHANGED vars
    PROVE  QueueType'
<1> USE DEF memVars, taskVars, stackVars, restOfBtc, restOfEvt, restOfApp, restOfTmr, restOfStack
<1>1. CASE OpenEvt
  <2>1. /\ btq' \in Seq(Event)
        /\ \A i \in DOMAIN btq' : i + 1 \in DOMAIN btq /\ btq'[i] = btq[i + 1]
    <3>1. Take("open")
      BY <1>1 DEF OpenEvt
    <3> QED BY <3>1, TakeIs DEF TypeInv
  <2>2. UNCHANGED queue /\ (cq' = cq \/ (cq # <<>> /\ cq' = Tail(cq)))
    BY <1>1 DEF OpenEvt
  <2>3. cq' \in Seq(Slots)
    BY <2>2, LeftIs DEF TypeInv
  <2>4. \A i \in DOMAIN btq' : btq'[i].bda \in Bdas /\ btq'[i].k # "none"
    BY <2>1, QueuesAre DEF TypeInv
  <2> QED BY <2>1, <2>2, <2>3, <2>4 DEF TypeInv, QueueType
<1>2. CASE OpenLink
  <2>1. cq \in Seq(Slots) /\ btc.dev \in Slots
    BY <1>2, QueuesAre DEF OpenLink, At, TypeInv
  <2>2. cq' \in Seq(Slots)
    BY <1>2, <2>1 DEF OpenLink
  <2> QED BY <1>2, <2>2, QueuesAre DEF OpenLink, TypeInv, QueueType
<1>3. CASE PostEvent
  <2>1. queue \in Seq(Message) /\ btc.out \in Message /\ Len(queue) < MaxEvents /\ MaxEvents \in Nat
    BY <1>3, QueuesAre, BtcIs, BtAssumption DEF PostEvent, TypeInv
  <2>2. queue' \in Seq(Message) /\ Len(queue') <= MaxEvents
    BY <1>3, <2>1 DEF PostEvent
  <2> QED BY <1>3, <2>2, QueuesAre DEF PostEvent, TypeInv, QueueType
<1>4. CASE DscpEvt
  <2>1. /\ btq' \in Seq(Event)
        /\ \A i \in DOMAIN btq' : i + 1 \in DOMAIN btq /\ btq'[i] = btq[i + 1]
    <3>1. Take("dscp")
      BY <1>4 DEF DscpEvt
    <3> QED BY <3>1, TakeIs DEF TypeInv
  <2>2. UNCHANGED queue /\ (cq' = cq \/ (cq # <<>> /\ cq' = Tail(cq)))
    BY <1>4 DEF DscpEvt
  <2>3. cq' \in Seq(Slots)
    BY <2>2, LeftIs DEF TypeInv
  <2>4. \A i \in DOMAIN btq' : btq'[i].bda \in Bdas /\ btq'[i].k # "none"
    BY <2>1, QueuesAre DEF TypeInv
  <2> QED BY <2>1, <2>2, <2>3, <2>4 DEF TypeInv, QueueType
<1>5. CASE AddDevEvt
  <2>1. /\ btq' \in Seq(Event)
        /\ \A i \in DOMAIN btq' : i + 1 \in DOMAIN btq /\ btq'[i] = btq[i + 1]
    <3>1. Take("add")
      BY <1>5 DEF AddDevEvt
    <3> QED BY <3>1, TakeIs DEF TypeInv
  <2>2. UNCHANGED queue /\ (cq' = cq \/ (cq # <<>> /\ cq' = Tail(cq)))
    BY <1>5 DEF AddDevEvt
  <2>3. cq' \in Seq(Slots)
    BY <2>2, LeftIs DEF TypeInv
  <2>4. \A i \in DOMAIN btq' : btq'[i].bda \in Bdas /\ btq'[i].k # "none"
    BY <2>1, QueuesAre DEF TypeInv
  <2> QED BY <2>1, <2>2, <2>3, <2>4 DEF TypeInv, QueueType
<1>6. CASE CloseEvt
  <2>1. /\ btq' \in Seq(Event)
        /\ \A i \in DOMAIN btq' : i + 1 \in DOMAIN btq /\ btq'[i] = btq[i + 1]
    <3>1. Take("close")
      BY <1>6 DEF CloseEvt
    <3> QED BY <3>1, TakeIs DEF TypeInv
  <2>2. UNCHANGED queue /\ (cq' = cq \/ (cq # <<>> /\ cq' = Tail(cq)))
    BY <1>6 DEF CloseEvt
  <2>3. cq' \in Seq(Slots)
    BY <2>2, LeftIs DEF TypeInv
  <2>4. \A i \in DOMAIN btq' : btq'[i].bda \in Bdas /\ btq'[i].k # "none"
    BY <2>1, QueuesAre DEF TypeInv
  <2> QED BY <2>1, <2>2, <2>3, <2>4 DEF TypeInv, QueueType
<1>7. CASE AnswerEvt
  <2>1. /\ btq' \in Seq(Event)
        /\ \A i \in DOMAIN btq' : i + 1 \in DOMAIN btq /\ btq'[i] = btq[i + 1]
    <3>1. Take("answer")
      BY <1>7 DEF AnswerEvt
    <3> QED BY <3>1, TakeIs DEF TypeInv
  <2>2. UNCHANGED queue /\ (cq' = cq \/ (cq # <<>> /\ cq' = Tail(cq)))
    BY <1>7 DEF AnswerEvt
  <2>3. cq' \in Seq(Slots)
    BY <2>2, LeftIs DEF TypeInv
  <2>4. \A i \in DOMAIN btq' : btq'[i].bda \in Bdas /\ btq'[i].k # "none"
    BY <2>1, QueuesAre DEF TypeInv
  <2> QED BY <2>1, <2>2, <2>3, <2>4 DEF TypeInv, QueueType
<1>8. CASE DataEvt
  <2>1. /\ btq' \in Seq(Event)
        /\ \A i \in DOMAIN btq' : i + 1 \in DOMAIN btq /\ btq'[i] = btq[i + 1]
    <3>1. Take("data")
      BY <1>8 DEF DataEvt
    <3> QED BY <3>1, TakeIs DEF TypeInv
  <2>2. UNCHANGED queue /\ (cq' = cq \/ (cq # <<>> /\ cq' = Tail(cq)))
    BY <1>8 DEF DataEvt
  <2>3. cq' \in Seq(Slots)
    BY <2>2, LeftIs DEF TypeInv
  <2>4. \A i \in DOMAIN btq' : btq'[i].bda \in Bdas /\ btq'[i].k # "none"
    BY <2>1, QueuesAre DEF TypeInv
  <2> QED BY <2>1, <2>2, <2>3, <2>4 DEF TypeInv, QueueType
<1>9. CASE TakeEvent
  <2>1. queue \in Seq(Message) /\ Len(queue) <= MaxEvents /\ MaxEvents \in Nat
    BY <1>9, QueuesAre, BtAssumption DEF QueueType, TypeInv
  <2>2. queue' \in Seq(Message) /\ Len(queue') <= MaxEvents
    BY <1>9, <2>1 DEF TakeEvent
  <2> QED BY <1>9, <2>2, QueuesAre DEF TakeEvent, TypeInv, QueueType
<1>10. ASSUME NEW b \in Bdas, NEW good \in Good, StackOpen(b, good) PROVE QueueType'
  <2>1. good \in BOOLEAN /\ b \in Bdas /\ (link[b] = "paging") \in BOOLEAN
    BY <1>10, GoodIs DEF TypeInv, StackType, StackOpen
  <2>2. btq' = Append(btq, Ev("open", b, good, (link[b] = "paging"))) /\ UNCHANGED <<queue, cq>>
    BY <1>10 DEF StackOpen, Notify
  <2>3. PICK e : e = Ev("open", b, good, (link[b] = "paging"))
    OBVIOUS
  <2>4. e \in Event /\ e.bda \in Bdas /\ e.k # "none"
    BY <2>1, <2>3, EvIs
  <2> QED BY <2>2, <2>3, <2>4, NotifyType DEF TypeInv
<1>11. ASSUME NEW b \in Bdas, NEW good \in Good, StackAdd(b, good) PROVE QueueType'
  <2>1. good \in BOOLEAN /\ b \in Bdas /\ FALSE \in BOOLEAN
    BY <1>11, GoodIs DEF TypeInv, StackType, StackAdd
  <2>2. btq' = Append(btq, Ev("add", b, good, FALSE)) /\ UNCHANGED <<queue, cq>>
    BY <1>11 DEF StackAdd, Notify
  <2>3. PICK e : e = Ev("add", b, good, FALSE)
    OBVIOUS
  <2>4. e \in Event /\ e.bda \in Bdas /\ e.k # "none"
    BY <2>1, <2>3, EvIs
  <2> QED BY <2>2, <2>3, <2>4, NotifyType DEF TypeInv
<1>12. ASSUME NEW b \in Bdas, NEW good \in Good, StackAnswer(b, good) PROVE QueueType'
  <2>1. good \in BOOLEAN /\ Head(asked[b]) \in [op : Transactions, id : Nat]
    <3>1. asked[b] \in Seq([op : Transactions, id : Nat]) /\ asked[b] # <<>>
      BY <1>12 DEF TypeInv, StackType, StackAnswer
    <3> QED BY <3>1, <1>12, GoodIs, HeadTailProperties
  <2>2. btq' = Append(btq, AnswerTo(Head(asked[b]), b, good)) /\ UNCHANGED <<queue, cq>>
    BY <1>12 DEF StackAnswer, Notify
  <2>3. LET e == AnswerTo(Head(asked[b]), b, good) IN e \in Event /\ e.bda = b /\ e.k = "answer"
    BY <2>1, <1>12, AnswerToIs
  <2> QED BY <2>2, <2>3, <1>12, NotifyIs, QueuesAre DEF TypeInv, QueueType
<1>13. ASSUME NEW good \in Good, NEW added \in BOOLEAN, StackDescribe(good, added) PROVE QueueType'
  <2>1. good \in BOOLEAN /\ Head(undescribed) \in Bdas /\ added \in BOOLEAN
    BY <1>13, GoodIs DEF TypeInv, StackType, StackDescribe
  <2>2. btq' = Append(btq, Ev("dscp", Head(undescribed), good, added)) /\ UNCHANGED <<queue, cq>>
    BY <1>13 DEF StackDescribe, Notify
  <2>3. PICK e : e = Ev("dscp", Head(undescribed), good, added)
    OBVIOUS
  <2>4. e \in Event /\ e.bda \in Bdas /\ e.k # "none"
    BY <2>1, <2>3, EvIs
  <2> QED BY <2>2, <2>3, <2>4, NotifyType DEF TypeInv
<1>14. ASSUME NEW b \in Bdas, StackClose(b) PROVE QueueType'
  <2>1. TRUE \in BOOLEAN /\ b \in Bdas /\ FALSE \in BOOLEAN
    BY <1>14, GoodIs DEF TypeInv, StackType, StackClose
  <2>2. btq' = Append(btq, Ev("close", b, TRUE, FALSE)) /\ UNCHANGED <<queue, cq>>
    BY <1>14 DEF StackClose, Notify
  <2>3. PICK e : e = Ev("close", b, TRUE, FALSE)
    OBVIOUS
  <2>4. e \in Event /\ e.bda \in Bdas /\ e.k # "none"
    BY <2>1, <2>3, EvIs
  <2> QED BY <2>2, <2>3, <2>4, NotifyType DEF TypeInv
<1>15. ASSUME NEW b \in Bdas, StackLoses(b) PROVE QueueType'
  BY <1>15, QueuesAre DEF StackLoses, TypeInv, QueueType
<1>16. ASSUME NEW b \in Bdas, StackData(b) PROVE QueueType'
  <2>1. TRUE \in BOOLEAN /\ b \in Bdas /\ FALSE \in BOOLEAN
    BY <1>16, GoodIs DEF TypeInv, StackType, StackData
  <2>2. btq' = Append(btq, Ev("data", b, TRUE, FALSE)) /\ UNCHANGED <<queue, cq>>
    BY <1>16 DEF StackData, Notify
  <2>3. PICK e : e = Ev("data", b, TRUE, FALSE)
    OBVIOUS
  <2>4. e \in Event /\ e.bda \in Bdas /\ e.k # "none"
    BY <2>1, <2>3, EvIs
  <2> QED BY <2>2, <2>3, <2>4, NotifyType DEF TypeInv
<1>17. CASE Reboot
  <2>1. <<>> \in Seq(Slots) /\ <<>> \in Seq(Message) /\ <<>> \in Seq(Event)
    OBVIOUS
  <2> QED BY <2>1, <1>17, BtAssumption DEF Reboot, QueueType
<1>18. CASE UNCHANGED <<queue, cq, btq>>
  BY <1>18, QueuesAre DEF TypeInv, QueueType
<1> QED BY <1>1, <1>2, <1>3, <1>4, <1>5, <1>6, <1>7, <1>8, <1>9, <1>10, <1>11,
           <1>12, <1>13, <1>14, <1>15, <1>16, <1>17, <1>18, Frames
      DEF Stack

\* A record of esp_hh_cb.
LEMMA CallbackIs ==
    ASSUME NEW p \in Steps, NEW ev \in Event, NEW d \in Slots \cup Unset, NEW good \in BOOLEAN,
           NEW out \in Message
    PROVE  [pc |-> p, ev |-> ev, dev |-> d, ok |-> good, out |-> out] \in Callback
BY DEF Callback

\* esp_hh_cb goes on to a step.
LEMMA GotoIs ==
    ASSUME NEW p \in Steps, NEW ev \in Event, NEW d \in Slots \cup Unset, NEW good \in BOOLEAN,
           Goto(p, ev, d, good)
    PROVE  /\ btc' \in Callback
           /\ btc'.pc = p /\ btc'.ev = ev /\ btc'.dev = d /\ btc'.ok = good /\ btc'.out = NoPost
<1>1. btc' = [pc |-> p, ev |-> ev, dev |-> d, ok |-> good, out |-> NoPost]
  BY DEF Goto
<1>2. [pc |-> p, ev |-> ev, dev |-> d, ok |-> good, out |-> NoPost] \in Callback
  BY CallbackIs, EventIs
<1> QED BY <1>1, <1>2

\* esp_hh_cb has returned.
LEMMA IdleIs == Idle \in Callback /\ Idle.pc = "idle" /\ Idle.dev = "none" /\ Idle.ev = NoEvent
BY EventIs DEF Idle, Callback, Steps, Working, Unset

\* esp_hh_cb goes on to post an event.
LEMMA PostIs ==
    ASSUME TaskType, NEW out \in Message, Post(out)
    PROVE  /\ btc' \in Callback /\ btc'.pc = "post" /\ btc'.out = out /\ btc'.dev = btc.dev
           /\ btc'.ok = btc.ok
           /\ btc'.ev = IF out.e = "feature" THEN btc.ev ELSE NoEvent
<1>1. btc \in Callback
  BY DEF TaskType, BtcType
<1>2. CASE out.e = "feature"
  BY <1>1, <1>2 DEF Post, Callback, Steps
<1>3. CASE out.e # "feature"
  BY <1>1, <1>3, EventIs DEF Post, Callback, Steps
<1> QED BY <1>2, <1>3

\* Another step with the same device.
LEMMA StepIs ==
    ASSUME TaskType, NEW p \in Steps
    PROVE  /\ btc' = [btc EXCEPT !.pc = p] \/ btc' = [btc EXCEPT !.pc = p, !.out = NoPost] =>
                 /\ btc' \in Callback /\ btc'.pc = p /\ btc'.ev = btc.ev /\ btc'.dev = btc.dev
                 /\ btc'.ok = btc.ok
           /\ \A good \in BOOLEAN : btc' = [btc EXCEPT !.pc = p, !.ok = good] =>
                 /\ btc' \in Callback /\ btc'.pc = p /\ btc'.ev = btc.ev /\ btc'.dev = btc.dev
           /\ btc' = [btc EXCEPT !.pc = p, !.dev = "none"] =>
                 /\ btc' \in Callback /\ btc'.pc = p /\ btc'.ev = btc.ev /\ btc'.dev = "none"
<1>1. btc \in Callback /\ NoPost \in Message
  BY EventIs DEF TaskType, BtcType
<1>2. ASSUME NEW good \in BOOLEAN, btc' = [btc EXCEPT !.pc = p, !.ok = good]
      PROVE  btc' \in Callback /\ btc'.pc = p /\ btc'.ev = btc.ev /\ btc'.dev = btc.dev
  BY <1>1, <1>2 DEF Callback
<1>3. ASSUME btc' = [btc EXCEPT !.pc = p] \/ btc' = [btc EXCEPT !.pc = p, !.out = NoPost]
      PROVE  /\ btc' \in Callback /\ btc'.pc = p /\ btc'.ev = btc.ev /\ btc'.dev = btc.dev
             /\ btc'.ok = btc.ok
  <2>1. CASE btc' = [btc EXCEPT !.pc = p]
    BY <1>1, <2>1 DEF Callback
  <2>2. CASE btc' = [btc EXCEPT !.pc = p, !.out = NoPost]
    BY <1>1, <2>2 DEF Callback
  <2> QED BY <1>3, <2>1, <2>2
<1>4. ASSUME btc' = [btc EXCEPT !.pc = p, !.dev = "none"]
      PROVE  btc' \in Callback /\ btc'.pc = p /\ btc'.ev = btc.ev /\ btc'.dev = "none"
  BY <1>1, <1>4 DEF Callback, Unset
<1> QED BY <1>2, <1>3, <1>4

\* The answer that is posted.
LEMMA FeatureIs ==
    ASSUME TypeInv, btc.dev \in Slots
    PROVE  Feature(btc.ev, btc.dev) \in Message
<1>1. dev \in [Slots -> Device]
  BY DeviceIs DEF TypeInv
<1>2. dev[btc.dev].report_id \in Nat
  BY <1>1 DEF Device
<1> QED BY <1>2, BtcIs DEF Feature, Message, TypeInv

\* The messages that are posted.
LEMMA MessagesAre ==
    ASSUME NEW e \in {"open", "close", "input"}, NEW d \in Slots \cup Unset, NEW good \in BOOLEAN
    PROVE  /\ Told(e, d, good) \in Message
           /\ Told(e, d, good).e = e /\ Told(e, d, good).dev = d /\ Told(e, d, good).ok = good
<1>1. Told(e, d, good) = [e |-> e, dev |-> d, ok |-> good, op |-> "none", id |-> 0, want |-> 0]
  BY DEF Told
<1>2. [e |-> e, dev |-> d, ok |-> good, op |-> "none", id |-> 0, want |-> 0] \in Message
  BY DEF Message, Unset
<1> QED BY <1>1, <1>2

\* What esp_hh_cb holds.
LEMMA BtcTypeStep ==
    ASSUME TypeInv, Next \/ UNCHANGED vars
    PROVE  BtcType'
<1> USE DEF memVars, taskVars, stackVars, restOfBtc, restOfEvt, restOfApp, restOfTmr, restOfStack
<1>1. CASE OpenEvt
  <2>1. Take("open")
    BY <1>1 DEF OpenEvt
  <2>2. Head(btq) \in Event /\ Head(btq).bda \in Bdas
    BY <2>1, TakeIs DEF TypeInv
  <2> DEFINE b == Head(btq).bda
  <2>3. ByHandle(b) \in Slots \cup Unset /\ ByBda(b) \in Slots \cup Unset
    BY <2>2, ByHandleIs, ByBdaIs DEF TypeInv, Unset
  <2>4. \E p \in {"open", "fail"}, d \in Slots \cup Unset, good \in BOOLEAN :
          (p \in Working => d \in Slots) /\ Goto(p, Head(btq), d, good)
    BY <2>2, <2>3, <1>1 DEF OpenEvt, Event, Working, Unset
  <2> QED BY <2>2, <2>4, GotoIs DEF BtcType, Working, Steps
<1>2. CASE OpenLink
  <2>1. \/ btc' = [btc EXCEPT !.pc = "status"] /\ btc.dev \in Slots
        \/ btc' = [btc EXCEPT !.pc = "fail", !.ok = FALSE]
    BY <1>2 DEF OpenLink, At
  <2>2. CASE btc' = [btc EXCEPT !.pc = "status"] /\ btc.dev \in Slots
    BY <2>2, StepIs DEF TypeInv, BtcType, Steps, Working
  <2>3. CASE btc' = [btc EXCEPT !.pc = "fail", !.ok = FALSE]
    <3>1. "fail" \in Steps /\ FALSE \in BOOLEAN
      BY DEF Steps
    <3>2. btc' \in Callback /\ btc'.pc = "fail"
      BY <2>3, <3>1, StepIs DEF TypeInv
    <3> QED BY <3>2 DEF BtcType, Working
  <2> QED BY <2>1, <2>2, <2>3
<1>3. CASE OpenFailed
  <2>1. Told("open", btc.dev, FALSE) \in Message
    BY <1>3, BtcIs, MessagesAre DEF TypeInv
  <2>2. Post(Told("open", btc.dev, FALSE))
    BY <1>3 DEF OpenFailed, Failed
  <2>3. Told("open", btc.dev, FALSE).e # "feature"
    BY BtcIs, MessagesAre DEF TypeInv
  <2> QED BY <2>1, <2>2, <2>3, PostIs DEF TypeInv, BtcType, Working
<1>4. CASE Status
  <2>1. Post(Told("open", btc.dev, TRUE)) \/ btc' = Idle
    BY <1>4 DEF Status
  <2>2. LET m == Told("open", btc.dev, TRUE) IN m \in Message /\ m.e # "feature"
    BY BtcIs, MessagesAre DEF TypeInv
  <2> QED BY <2>1, <2>2, PostIs, IdleIs DEF TypeInv, BtcType, Working
<1>5. CASE PostEvent
  <2>1. \/ btc' = [btc EXCEPT !.pc = "status", !.out = NoPost] /\ btc.dev # "none"
        \/ btc' = [btc EXCEPT !.pc = "reset", !.out = NoPost] /\ btc.out.e = "feature" /\ btc.pc = "post"
        \/ btc' = Idle
    BY <1>5 DEF PostEvent
  <2>2. CASE btc' = [btc EXCEPT !.pc = "status", !.out = NoPost] /\ btc.dev # "none"
    BY <2>2, StepIs, BtcIs, IdleIs DEF TypeInv, TaskType, BtcType, Steps, Working, Unset
  <2>3. CASE btc' = [btc EXCEPT !.pc = "reset", !.out = NoPost] /\ btc.out.e = "feature" /\ btc.pc = "post"
    BY <2>3, StepIs, BtcIs, IdleIs DEF TypeInv, TaskType, BtcType, Steps, Working, Unset
  <2>4. CASE btc' = Idle
    BY <2>4, StepIs, BtcIs, IdleIs DEF TypeInv, TaskType, BtcType, Steps, Working, Unset
  <2> QED BY <2>1, <2>2, <2>3, <2>4
<1>6. CASE DscpEvt
  <2>1. Take("dscp")
    BY <1>6 DEF DscpEvt
  <2>2. Head(btq) \in Event /\ Head(btq).bda \in Bdas
    BY <2>1, TakeIs DEF TypeInv
  <2> DEFINE b == Head(btq).bda
  <2>3. cq # <<>> => Head(cq) \in Slots
    BY QueuesAre, HeadTailProperties DEF TypeInv
  <2>4. Goto("dequeue", Head(btq), "none", FALSE) \/ (cq # <<>> /\ Goto("exists", Head(btq), Head(cq), FALSE))
    BY <1>6 DEF DscpEvt
  <2>5. CASE Goto("dequeue", Head(btq), "none", FALSE)
    <3>1. "dequeue" \in Steps /\ "none" \in Slots \cup Unset /\ FALSE \in BOOLEAN
      BY DEF Steps, Unset
    <3>2. btc' \in Callback /\ btc'.pc = "dequeue"
      BY <2>2, <2>5, <3>1, GotoIs
    <3> QED BY <3>2 DEF BtcType, Working
  <2>6. CASE cq # <<>> /\ Goto("exists", Head(btq), Head(cq), FALSE)
    BY <2>2, <2>3, <2>6, GotoIs DEF BtcType, Working, Steps, Unset
  <2> QED BY <2>4, <2>5, <2>6
<1>7. CASE DscpExists
  <2>1. btc.dev \in Slots
    BY <1>7 DEF DscpExists, TypeInv, TaskType, BtcType
  <2>2. \/ btc' = [btc EXCEPT !.pc = "describe"]
        \/ btc' = [btc EXCEPT !.pc = "fail", !.dev = "none"]
    BY <1>7 DEF DscpExists
  <2>3. CASE btc' = [btc EXCEPT !.pc = "describe"]
    BY <2>3, <2>1, StepIs, BtcIs, IdleIs DEF TypeInv, TaskType, BtcType, Steps, Working, Unset
  <2>4. CASE btc' = [btc EXCEPT !.pc = "fail", !.dev = "none"]
    BY <2>4, <2>1, StepIs, BtcIs, IdleIs DEF TypeInv, TaskType, BtcType, Steps, Working, Unset
  <2> QED BY <2>2, <2>3, <2>4
<1>8. CASE Describe
  <2>1. btc.dev \in Slots /\ (btc' = [btc EXCEPT !.pc = "fail"]
                                \/ btc' = [btc EXCEPT !.pc = "status", !.ok = TRUE])
    BY <1>8 DEF Describe, At
  <2> QED BY <2>1, StepIs, BtcIs DEF TypeInv, TaskType, BtcType, Steps, Working
<1>9. CASE AddDevEvt
  <2>1. Take("add")
    BY <1>9 DEF AddDevEvt
  <2>2. Head(btq) \in Event /\ Head(btq).bda \in Bdas
    BY <2>1, TakeIs DEF TypeInv
  <2> DEFINE b == Head(btq).bda
  <2>3. ByHandle(b) \in Slots \cup Unset /\ ByBda(b) \in Slots \cup Unset
    BY <2>2, ByHandleIs, ByBdaIs DEF TypeInv, Unset
  <2>4. \/ \E p \in Working \cup {"fail"}, d \in Slots \cup Unset :
              (p \in Working => d \in Slots) /\ Goto(p, Head(btq), d, FALSE)
        \/ btc' = Idle
        \/ btc' = [Idle EXCEPT !.pc = "post", !.out = Told("close", "none", FALSE)]
    BY <2>3, <1>9 DEF AddDevEvt, Working, Unset
  <2>5. LET c == [Idle EXCEPT !.pc = "post", !.out = Told("close", "none", FALSE)]
        IN  c \in Callback /\ c.pc = "post" /\ c.out.e = "close"
    BY MessagesAre, IdleIs DEF Callback, Steps, Unset
  <2> QED BY <2>2, <2>4, <2>5, GotoIs, IdleIs DEF BtcType, Working, Steps
<1>10. CASE AddDev
  <2>1. btc.dev \in Slots /\ btc.ev.ok \in BOOLEAN
    BY <1>10, BtcIs DEF AddDev, At, TypeInv
  <2>2. btc' = [btc EXCEPT !.pc = IF btc.ev.ok THEN "status" ELSE "fail", !.ok = btc.ev.ok]
    BY <1>10 DEF AddDev
  <2> QED BY <2>1, <2>2, StepIs, BtcIs DEF TypeInv, BtcType, Steps, Working
<1>11. CASE CloseEvt
  <2>1. Take("close")
    BY <1>11 DEF CloseEvt
  <2>2. Head(btq) \in Event /\ Head(btq).bda \in Bdas
    BY <2>1, TakeIs DEF TypeInv
  <2> DEFINE b == Head(btq).bda
  <2>3. ByHandle(b) \in Slots \cup Unset /\ ByBda(b) \in Slots \cup Unset
    BY <2>2, ByHandleIs, ByBdaIs DEF TypeInv, Unset
  <2>4. \/ \E p \in Working \cup {"fail"}, d \in Slots \cup Unset :
              (p \in Working => d \in Slots) /\ Goto(p, Head(btq), d, FALSE)
        \/ btc' = Idle
        \/ btc' = [Idle EXCEPT !.pc = "post", !.out = Told("close", "none", FALSE)]
    BY <2>3, <1>11 DEF CloseEvt, Working, Unset
  <2>5. LET c == [Idle EXCEPT !.pc = "post", !.out = Told("close", "none", FALSE)]
        IN  c \in Callback /\ c.pc = "post" /\ c.out.e = "close"
    BY MessagesAre, IdleIs DEF Callback, Steps, Unset
  <2> QED BY <2>2, <2>4, <2>5, GotoIs, IdleIs DEF BtcType, Working, Steps
<1>12. CASE Close
  <2>1. Told("close", btc.dev, FALSE) \in Message
    BY <1>12, BtcIs, MessagesAre DEF TypeInv
  <2>2. Post(Told("close", btc.dev, FALSE))
    BY <1>12 DEF Close, Failed
  <2>3. Told("close", btc.dev, FALSE).e # "feature"
    BY BtcIs, MessagesAre DEF TypeInv
  <2> QED BY <2>1, <2>2, <2>3, PostIs DEF TypeInv, BtcType, Working
<1>13. CASE AnswerEvt
  <2>1. Take("answer")
    BY <1>13 DEF AnswerEvt
  <2>2. Head(btq) \in Event /\ Head(btq).bda \in Bdas
    BY <2>1, TakeIs DEF TypeInv
  <2> DEFINE b == Head(btq).bda
  <2>3. ByHandle(b) \in Slots \cup Unset /\ ByBda(b) \in Slots \cup Unset
    BY <2>2, ByHandleIs, ByBdaIs DEF TypeInv, Unset
  <2>4. \/ \E p \in Working \cup {"fail"}, d \in Slots \cup Unset :
              (p \in Working => d \in Slots) /\ Goto(p, Head(btq), d, FALSE)
        \/ btc' = Idle
        \/ btc' = [Idle EXCEPT !.pc = "post", !.out = Told("close", "none", FALSE)]
    BY <2>3, <1>13 DEF AnswerEvt, Working, Unset
  <2>5. LET c == [Idle EXCEPT !.pc = "post", !.out = Told("close", "none", FALSE)]
        IN  c \in Callback /\ c.pc = "post" /\ c.out.e = "close"
    BY MessagesAre, IdleIs DEF Callback, Steps, Unset
  <2> QED BY <2>2, <2>4, <2>5, GotoIs, IdleIs DEF BtcType, Working, Steps
<1>14. CASE Answer
  <2>1. Feature(btc.ev, btc.dev) \in Message /\ btc.dev \in Slots
    BY <1>14, FeatureIs DEF Answer, At
  <2>2. Post(Feature(btc.ev, btc.dev)) \/ btc' = [btc EXCEPT !.pc = "reset"]
    BY <1>14 DEF Answer
  <2>3. CASE Post(Feature(btc.ev, btc.dev))
    BY <2>1, <2>3, PostIs DEF TypeInv, BtcType, Working
  <2>4. CASE btc' = [btc EXCEPT !.pc = "reset"]
    BY <2>1, <2>4, StepIs, BtcIs DEF TypeInv, BtcType, Steps, Working
  <2> QED BY <2>2, <2>3, <2>4
<1>15. CASE ResetTrans
  <2>1. btc' = Idle
    BY <1>15 DEF ResetTrans
  <2> QED BY <2>1, IdleIs DEF BtcType, Working
<1>16. CASE DataEvt
  <2>1. Take("data")
    BY <1>16 DEF DataEvt
  <2>2. Head(btq) \in Event /\ Head(btq).bda \in Bdas
    BY <2>1, TakeIs DEF TypeInv
  <2> DEFINE b == Head(btq).bda
  <2>3. ByHandle(b) \in Slots \cup Unset /\ ByBda(b) \in Slots \cup Unset
    BY <2>2, ByHandleIs, ByBdaIs DEF TypeInv, Unset
  <2>4. \/ \E p \in Working \cup {"fail"}, d \in Slots \cup Unset :
              (p \in Working => d \in Slots) /\ Goto(p, Head(btq), d, FALSE)
        \/ btc' = Idle
        \/ btc' = [Idle EXCEPT !.pc = "post", !.out = Told("close", "none", FALSE)]
    BY <2>3, <1>16 DEF DataEvt, Working, Unset
  <2>5. LET c == [Idle EXCEPT !.pc = "post", !.out = Told("close", "none", FALSE)]
        IN  c \in Callback /\ c.pc = "post" /\ c.out.e = "close"
    BY MessagesAre, IdleIs DEF Callback, Steps, Unset
  <2> QED BY <2>2, <2>4, <2>5, GotoIs, IdleIs DEF BtcType, Working, Steps
<1>17. CASE Data
  <2>1. Post(Told("input", btc.dev, FALSE)) \/ btc' = Idle
    BY <1>17 DEF Data
  <2>2. LET m == Told("input", btc.dev, FALSE) IN m \in Message /\ m.e # "feature"
    BY BtcIs, MessagesAre DEF TypeInv
  <2> QED BY <2>1, <2>2, PostIs, IdleIs DEF TypeInv, BtcType, Working
<1>18. CASE Reboot
  <2>1. btc' = Idle
    BY <1>18 DEF Reboot
  <2> QED BY <2>1, IdleIs DEF BtcType, Working
<1>19. CASE UNCHANGED btc
  BY <1>19 DEF TypeInv, TaskType, BtcType
<1> QED BY <1>1, <1>2, <1>3, <1>4, <1>5, <1>6, <1>7, <1>8, <1>9, <1>10, <1>11,
           <1>12, <1>13, <1>14, <1>15, <1>16, <1>17, <1>18, <1>19, Frames
      DEF Btc

\* What the event loop holds.
LEMMA EvtTypeStep ==
    ASSUME TypeInv, Next \/ UNCHANGED vars
    PROVE  EvtType'
<1> USE DEF memVars, taskVars, stackVars, restOfBtc, restOfEvt, restOfApp, restOfTmr, restOfStack
<1>1. CASE TakeEvent
  <2>1. Head(queue) \in Message
    BY <1>1, QueuesAre, HeadTailProperties DEF TakeEvent, TypeInv
  <2>2. Head(queue).dev # "none" => Head(queue).dev \in Slots
    BY <2>1 DEF Message, Unset
  <2>3. \/ evt' = [Resting EXCEPT !.pc = "free", !.dev = Head(queue).dev] /\ Head(queue).dev # "none"
        \/ evt' = Resting
    BY <1>1 DEF TakeEvent
  <2> DEFINE d == Head(queue).dev
  <2>4. CASE d # "none" /\ evt' = [Resting EXCEPT !.pc = "free", !.dev = d]
    <3>1. d \in Slots
      BY <2>2, <2>4
    <3> HIDE DEF d
    <3> QED BY <2>4, <3>1 DEF EvtType, Resting
  <2>5. CASE evt' = Resting
    BY <2>5 DEF EvtType, Resting
  <2> QED BY <2>3, <2>4, <2>5
<1>2. CASE FreeDevice
  BY <1>2 DEF FreeDevice, Resting, TypeInv, TaskType, EvtType
<1>3. CASE Reboot
  BY <1>3 DEF Reboot, Idle, Resting, NoEvent, NoPost, TypeInv, TaskType, EvtType
<1>4. CASE UNCHANGED evt
  BY <1>4 DEF TypeInv, TaskType, EvtType
<1> QED BY <1>1, <1>2, <1>3, <1>4, Frames

\* What the application holds.
LEMMA AppTypeStep ==
    ASSUME TypeInv, Next \/ UNCHANGED vars
    PROVE  AppType'
<1> USE DEF memVars, taskVars, stackVars, restOfBtc, restOfEvt, restOfApp, restOfTmr, restOfStack
<1>1. ASSUME NEW b \in Bdas, AppOpen(b) PROVE AppType'
  BY <1>1 DEF AppOpen, Resting, TypeInv, TaskType, AppType
<1>2. CASE AppOpenDev
  <2>1. app.op \in Bdas
    BY <1>2 DEF AppOpenDev, TypeInv, TaskType, AppType
  <2>2. ByBda(app.op) # "none" => ByBda(app.op) \in Slots
    BY <2>1, ByBdaIs DEF TypeInv
  <2> QED BY <2>1, <2>2, <1>2 DEF AppOpenDev, TypeInv, TaskType, AppType
<1>3. CASE AppCtor
  <2>1. CASE app' = Resting
    BY <2>1 DEF AppType, Resting
  <2>2. ASSUME NEW s \in Slots, app' = [app EXCEPT !.pc = "connect", !.dev = s] PROVE AppType'
    <3>1. DOMAIN app = {"pc", "dev", "op", "id"} /\ app.op \in Bdas /\ app.id \in Nat
      BY <1>3 DEF AppCtor, TypeInv, TaskType, AppType
    <3> QED BY <2>2, <3>1 DEF AppType
  <2> QED BY <2>1, <2>2, <1>3 DEF AppCtor
<1>4. CASE AppConnect
  BY <1>4 DEF AppConnect, Resting, TypeInv, TaskType, AppType
<1>5. CASE AppRequest
  BY <1>5 DEF AppRequest, Resting, Forget, TypeInv, TaskType, AppType
<1>6. ASSUME NEW s \in Slots, NEW op \in Ops, AppCall(s, op, IF op = "get_report" THEN 1 ELSE 0) PROVE AppType'
  BY <1>6 DEF AppCall, Resting, TypeInv, TaskType, AppType
<1>7. CASE Reboot
  BY <1>7 DEF Reboot, Idle, Resting, NoEvent, NoPost, TypeInv, TaskType, AppType
<1>8. CASE UNCHANGED app
  BY <1>8 DEF TypeInv, TaskType, AppType
<1> QED BY <1>1, <1>2, <1>3, <1>4, <1>5, <1>6, <1>7, <1>8, Frames
      DEF App

\* What the timer holds.
LEMMA TmrTypeStep ==
    ASSUME TypeInv, Next \/ UNCHANGED vars
    PROVE  TmrType'
<1> USE DEF memVars, taskVars, stackVars, restOfBtc, restOfEvt, restOfApp, restOfTmr, restOfStack
<1>1. CASE TimerReset
  BY <1>1 DEF TimerReset, Resting, TypeInv, TaskType, TmrType
<1>2. ASSUME NEW s \in Slots, TimerFire(s) PROVE TmrType'
  BY <1>2 DEF TimerFire, Forget, Resting, TypeInv, TaskType, TmrType
<1>3. CASE Reboot
  BY <1>3 DEF Reboot, Idle, Resting, NoEvent, NoPost, TypeInv, TaskType, TmrType
<1>4. CASE UNCHANGED tmr
  BY <1>4 DEF TypeInv, TaskType, TmrType
<1> QED BY <1>1, <1>2, <1>3, <1>4, Frames
      DEF Tmr

\* Links, requests on their way, and what the stack has still to report.
LEMMA StackTypeStep ==
    ASSUME TypeInv, Next \/ UNCHANGED vars
    PROVE  StackType'
<1> USE DEF memVars, taskVars, stackVars, restOfBtc, restOfEvt, restOfApp, restOfTmr, restOfStack
<1>1. CASE AppConnect
  <2>1. link' \in [Bdas -> {"down", "paging", "up"}]
    BY <1>1 DEF AppConnect, TypeInv, StackType
  <2> QED BY <2>1, <1>1 DEF AppConnect, TypeInv, StackType
<1>2. CASE AppRequest
  <2>1. CASE UNCHANGED asked
    BY <2>1, <1>2 DEF AppRequest, TypeInv, StackType
  <2>2. CASE app.op \in Transactions /\ Ask(app.dev)
    <3>1. asked \in [Bdas -> Seq([op : Transactions, id : Nat])] /\ app.id \in Nat
      BY DEF TypeInv, StackType, TaskType, AppType
    <3> DEFINE b == dev[app.dev].bda
               q == [op |-> app.op, id |-> app.id]
    <3>2. q \in [op : Transactions, id : Nat]
      BY <2>2, <3>1
    <3>3. asked' = [asked EXCEPT ![b] = IF link[b] = "up" THEN Append(asked[b], q) ELSE asked[b]]
      BY <2>2 DEF Ask
    <3> HIDE DEF b, q
    <3>4. b \in Bdas => asked[b] \in Seq([op : Transactions, id : Nat])
      BY <3>1
    <3>5. b \in Bdas => Append(asked[b], q) \in Seq([op : Transactions, id : Nat])
      BY <3>2, <3>4
    <3>6. asked' \in [Bdas -> Seq([op : Transactions, id : Nat])]
      BY <3>1, <3>3, <3>4, <3>5
    <3> QED BY <3>6, <1>2 DEF AppRequest, TypeInv, StackType
  <2> QED BY <2>1, <2>2, <1>2 DEF AppRequest
<1>3. ASSUME NEW b \in Bdas, NEW good \in Good, StackOpen(b, good) PROVE StackType'
  <2>1. undescribed' \in Seq(Bdas)
    BY <1>3 DEF StackOpen, TypeInv, StackType
  <2>2. link' \in [Bdas -> {"down", "paging", "up"}]
    BY <1>3 DEF StackOpen, TypeInv, StackType
  <2> QED BY <2>1, <2>2, <1>3 DEF StackOpen, TypeInv, StackType
<1>4. ASSUME NEW b \in Bdas, NEW good \in Good, StackAdd(b, good) PROVE StackType'
  BY <1>4 DEF StackAdd, Notify, TypeInv, StackType
<1>5. ASSUME NEW b \in Bdas, NEW good \in Good, StackAnswer(b, good) PROVE StackType'
  <2>1. asked[b] \in Seq([op : Transactions, id : Nat]) /\ asked[b] # <<>>
    BY <1>5 DEF StackAnswer, TypeInv, StackType
  <2>2. Tail(asked[b]) \in Seq([op : Transactions, id : Nat])
    BY <2>1
  <2> QED BY <2>2, <1>5 DEF StackAnswer, TypeInv, StackType
<1>6. ASSUME NEW good \in Good, NEW added \in BOOLEAN, StackDescribe(good, added) PROVE StackType'
  <2>1. undescribed' \in Seq(Bdas) /\ Head(undescribed) \in Bdas
    BY <1>6 DEF StackDescribe, TypeInv, StackType
  <2> QED BY <2>1, <1>6 DEF StackDescribe, TypeInv, StackType
<1>7. ASSUME NEW b \in Bdas, StackClose(b) PROVE StackType'
  <2>1. <<>> \in Seq([op : Transactions, id : Nat])
    OBVIOUS
  <2> QED BY <2>1, <1>7 DEF StackClose, TypeInv, StackType
<1>8. ASSUME NEW b \in Bdas, StackLoses(b) PROVE StackType'
  <2>1. asked[b] \in Seq([op : Transactions, id : Nat]) /\ asked[b] # <<>>
    BY <1>8 DEF StackLoses, TypeInv, StackType
  <2>2. Tail(asked[b]) \in Seq([op : Transactions, id : Nat])
    BY <2>1
  <2> QED BY <2>2, <1>8 DEF StackLoses, TypeInv, StackType
<1>9. ASSUME NEW b \in Bdas, StackData(b) PROVE StackType'
  BY <1>9 DEF StackData, Notify, TypeInv, StackType
<1>10. CASE Reboot
  <2>1. <<>> \in Seq([op : Transactions, id : Nat]) /\ <<>> \in Seq(Bdas)
    OBVIOUS
  <2> QED BY <2>1, <1>10 DEF Reboot, StackType
<1>11. CASE UNCHANGED stackVars
  BY <1>11 DEF TypeInv, StackType
<1> QED BY <1>1, <1>2, <1>3, <1>4, <1>5, <1>6, <1>7, <1>8, <1>9, <1>10, <1>11,
           Frames
      DEF Stack

\* Types are kept.
LEMMA TypeStep ==
    ASSUME TypeInv, Next \/ UNCHANGED vars
    PROVE  TypeInv'
BY DeviceTypeStep, QueueTypeStep, BtcTypeStep, EvtTypeStep, AppTypeStep, TmrTypeStep, StackTypeStep
   DEF TypeInv, TaskType

-----------------------------------------------------------------------------
(* The list of devices.                                                    *)

\* What is known of a structure but its transaction, its reports and its link.
Same(s) ==
    /\ dev'[s].live = dev[s].live /\ dev'[s].bda = dev[s].bda
    /\ dev'[s].handle = dev[s].handle /\ dev'[s].in_use = dev[s].in_use

\* Most steps leave all that as it is.
LEMMA SameDevices ==
    ASSUME TypeInv,
           Describe \/ AddDev \/ ResetTrans \/ AppRequest \/ TimerReset
           \/ (\E s \in Slots : TimerFire(s)) \/ UNCHANGED dev
    PROVE  \A s \in Slots : Same(s)
<1> USE DEF restOfBtc, restOfApp, restOfTmr, taskVars, stackVars, memVars
<1>1. dev \in [Slots -> Device]
  BY DeviceIs DEF TypeInv
<1>2. CASE Describe
  <2>1. btc.dev \in Slots
    BY <1>2 DEF Describe, At
  <2> QED BY <2>1, <1>1, <1>2 DEF Describe, Same, Device
<1>3. CASE AddDev
  <2>1. btc.dev \in Slots
    BY <1>3 DEF AddDev, At
  <2> QED BY <2>1, <1>1, <1>3 DEF AddDev, Same, Device
<1>4. CASE ResetTrans
  <2>1. btc.dev \in Slots
    BY <1>4 DEF ResetTrans, At
  <2> QED BY <2>1, <1>1, <1>4 DEF ResetTrans, Same, Device
<1>5. CASE AppRequest
  <2>1. app.dev \in Slots
    BY <1>5 DEF AppRequest, TypeInv, TaskType, AppType
  <2>2. CASE UNCHANGED dev
    BY <2>2 DEF Same
  <2>3. CASE Started(app.dev, app.op, app.id)
    BY <2>1, <2>3, <1>1 DEF Started, Same, Device
  <2> QED BY <2>2, <2>3, <1>5 DEF AppRequest
<1>6. CASE TimerReset
  <2>1. tmr.dev \in Slots
    BY <1>6 DEF TimerReset, TypeInv, TaskType, TmrType
  <2> QED BY <2>1, <1>1, <1>6 DEF TimerReset, Same, Device
<1>7. ASSUME NEW s \in Slots, TimerFire(s) PROVE \A r \in Slots : Same(r)
  BY <1>7, <1>1 DEF TimerFire, Same, Device
<1>8. CASE UNCHANGED dev
  BY <1>8 DEF Same
<1> QED BY <1>2, <1>3, <1>4, <1>5, <1>6, <1>7, <1>8

\* What OPEN_EVT and CLOSE_EVT set.
LEMMA MarkedDevices ==
    ASSUME TypeInv
    PROVE  /\ OpenLink =>
                 /\ btc.dev \in Slots /\ \A s \in Slots \ {btc.dev} : Same(s)
                 /\ dev'[btc.dev].live = dev[btc.dev].live /\ dev'[btc.dev].bda = dev[btc.dev].bda
                 /\ dev'[btc.dev].handle = btc.ev.bda /\ dev'[btc.dev].in_use = dev[btc.dev].in_use
           /\ Close \/ OpenFailed =>
                 \A s \in Slots :
                    /\ dev'[s].live = dev[s].live /\ dev'[s].bda = dev[s].bda
                    /\ dev'[s].handle = dev[s].handle
                    /\ (s # btc.dev => dev'[s].in_use = dev[s].in_use)
           /\ Close => btc.dev \in Slots /\ ~dev'[btc.dev].in_use
<1> USE DEF restOfBtc
<1>1. dev \in [Slots -> Device]
  BY DeviceIs DEF TypeInv
<1>2. ASSUME OpenLink
      PROVE  /\ btc.dev \in Slots /\ \A s \in Slots \ {btc.dev} : Same(s)
             /\ dev'[btc.dev].live = dev[btc.dev].live /\ dev'[btc.dev].bda = dev[btc.dev].bda
             /\ dev'[btc.dev].handle = btc.ev.bda /\ dev'[btc.dev].in_use = dev[btc.dev].in_use
  <2>1. btc.dev \in Slots
    BY <1>2 DEF OpenLink, At
  <2>2. dev' = [dev EXCEPT ![btc.dev].connected = TRUE, ![btc.dev].handle = btc.ev.bda]
    BY <1>2 DEF OpenLink
  <2> QED BY <2>1, <2>2, <1>1 DEF Same, Device
<1>3. ASSUME Close
      PROVE  /\ btc.dev \in Slots /\ ~dev'[btc.dev].in_use
             /\ \A s \in Slots :
                    /\ dev'[s].live = dev[s].live /\ dev'[s].bda = dev[s].bda
                    /\ dev'[s].handle = dev[s].handle
                    /\ (s # btc.dev => dev'[s].in_use = dev[s].in_use)
  <2>1. btc.dev \in Slots
    BY <1>3 DEF Close, At
  <2>2. dev' = [dev EXCEPT ![btc.dev].connected = FALSE, ![btc.dev].in_use = FALSE]
    BY <1>3 DEF Close
  <2> QED BY <2>1, <2>2, <1>1 DEF Device
<1>4. ASSUME OpenFailed
      PROVE  \A s \in Slots :
                /\ dev'[s].live = dev[s].live /\ dev'[s].bda = dev[s].bda
                /\ dev'[s].handle = dev[s].handle
                /\ (s # btc.dev => dev'[s].in_use = dev[s].in_use)
  <2>1. dev' = dev \/ dev' = [dev EXCEPT ![btc.dev].in_use = FALSE]
    BY <1>4 DEF OpenFailed
  <2> QED BY <2>1, <1>1 DEF Device
<1> QED BY <1>2, <1>3, <1>4

\* A new structure is appended to the list.
LEMMA CtorSets ==
    ASSUME TypeInv, ListInv, NEW s \in Slots, NEW b \in Bdas, Ctor(s, b)
    PROVE  /\ ~dev[s].live /\ ~Listed(s) /\ \A r \in Slots \ {s} : Same(r)
           /\ dev'[s].live /\ dev'[s].in_use /\ dev'[s].bda = b /\ dev'[s].handle = "none"
           /\ Len(list') = Len(list) + 1 /\ list'[Len(list) + 1] = s /\ list' \in Seq(Slots)
           /\ \A i \in DOMAIN list : i \in DOMAIN list' /\ list'[i] = list[i] /\ i < Len(list) + 1
           /\ \A i \in DOMAIN list' : i \in DOMAIN list \/ i = Len(list) + 1
           /\ \A r \in Slots : Listed(r)' <=> Listed(r) \/ r = s
<1>1. dev \in [Slots -> Device] /\ list \in Seq(Slots)
  BY DeviceIs DEF TypeInv
<1>2. ~dev[s].live /\ list' = Append(list, s)
      /\ dev' = [dev EXCEPT ![s] = [Free EXCEPT !.live = TRUE, !.in_use = TRUE, !.bda = b]]
  BY DEF Ctor
<1>3. /\ \A r \in Slots \ {s} : Same(r)
      /\ dev'[s].live /\ dev'[s].in_use /\ dev'[s].bda = b /\ dev'[s].handle = "none"
  BY <1>1, <1>2 DEF Free, Same
<1>4. /\ Len(list') = Len(list) + 1 /\ list'[Len(list) + 1] = s /\ list' \in Seq(Slots)
      /\ \A i \in DOMAIN list : i \in DOMAIN list' /\ list'[i] = list[i] /\ i < Len(list) + 1
      /\ \A i \in DOMAIN list' : i \in DOMAIN list \/ i = Len(list) + 1
      /\ Len(list) + 1 \in DOMAIN list'
  BY <1>1, <1>2
<1>5. ~Listed(s)
  BY <1>2 DEF ListInv, Listed, ToSet
<1>6. \A r \in Slots : Listed(r)' <=> Listed(r) \/ r = s
  BY <1>4 DEF Listed, ToSet
<1> QED BY <1>2, <1>3, <1>4, <1>5, <1>6

\* A structure that is freed is taken off the list.
LEMMA FreeSets ==
    ASSUME TypeInv, ListInv, FreeDevice
    PROVE  /\ evt.pc = "free" /\ list_lock = "none"
           /\ \/ /\ Listed(evt.dev)
                 /\ \E i \in DOMAIN list :
                       /\ list[i] = evt.dev /\ list' \in Seq(Slots) /\ Len(list') = Len(list) - 1
                       /\ \A j \in DOMAIN list' : list'[j] = list[IF j < i THEN j ELSE j + 1]
                 /\ \A r \in Slots \ {evt.dev} : Same(r)
                 /\ \A r \in Slots : Listed(r)' <=> Listed(r) /\ r # evt.dev
                 /\ \/ /\ ~dev'[evt.dev].live /\ evt'.pc = "idle" /\ list_lock' = "none"
                       /\ dangling' \subseteq dangling \cup {t \in {"btc", "app", "tmr"} : Pointer(t) = evt.dev}
                    \/ /\ dev' = dev /\ evt'.pc = "destroy" /\ evt'.dev = evt.dev /\ list_lock' = "evt"
                       /\ dangling' = dangling
              \/ /\ ~Listed(evt.dev) /\ evt'.pc = "idle"
                 /\ UNCHANGED <<dev, list, list_lock, dangling>>
<1>1. evt.pc = "free" /\ list_lock = "none" /\ evt.dev \in Slots /\ DOMAIN evt = {"pc", "dev", "op", "id"}
      /\ dev \in [Slots -> Device] /\ list \in Seq(Slots)
  BY DeviceIs DEF FreeDevice, TypeInv, TaskType, EvtType
<1>2. CASE ~Listed(evt.dev) /\ evt' = Resting /\ UNCHANGED <<memVars, dangling>>
  BY <1>1, <1>2 DEF Resting, memVars
<1>3. ASSUME Unlist(evt.dev)
      PROVE  /\ Listed(evt.dev)
             /\ \E i \in DOMAIN list :
                   /\ list[i] = evt.dev /\ list' \in Seq(Slots) /\ Len(list') = Len(list) - 1
                   /\ \A j \in DOMAIN list' : list'[j] = list[IF j < i THEN j ELSE j + 1]
             /\ \A r \in Slots : Listed(r)' <=> Listed(r) /\ r # evt.dev
  <2>1. PICK i \in DOMAIN list :
           /\ list[i] = evt.dev /\ list' \in Seq(Slots) /\ Len(list') = Len(list) - 1
           /\ \A j \in DOMAIN list' : list'[j] = list[IF j < i THEN j ELSE j + 1]
    BY <1>3, UnlistIs DEF TypeInv
  <2>2. i \in Nat /\ i >= 1 /\ i <= Len(list) /\ Len(list) \in Nat /\ DOMAIN list = 1 .. Len(list)
        /\ DOMAIN list' = 1 .. Len(list) - 1
    BY <1>1, <2>1
  <2>3. \A j, k \in DOMAIN list : list[j] = list[k] => j = k
    BY DEF ListInv
  <2>4. ASSUME NEW r \in Slots, Listed(r)' PROVE Listed(r) /\ r # evt.dev
    <3>1. PICK j \in DOMAIN list' : list'[j] = r
      BY <2>4 DEF Listed, ToSet
    <3>2. CASE j < i
      <4>1. j \in DOMAIN list /\ list[j] = r /\ j # i
        BY <3>1, <3>2, <2>1, <2>2
      <4> QED BY <4>1, <2>1, <2>3 DEF Listed, ToSet
    <3>3. CASE ~(j < i)
      <4>1. j + 1 \in DOMAIN list /\ list[j + 1] = r /\ j + 1 # i
        BY <3>1, <3>3, <2>1, <2>2
      <4> QED BY <4>1, <2>1, <2>3 DEF Listed, ToSet
    <3> QED BY <3>2, <3>3
  <2>5. ASSUME NEW r \in Slots, Listed(r), r # evt.dev PROVE Listed(r)'
    <3>1. PICK k \in DOMAIN list : list[k] = r
      BY <2>5 DEF Listed, ToSet
    <3>2. k # i
      BY <2>5, <3>1, <2>1
    <3>3. CASE k < i
      <4>1. k \in DOMAIN list' /\ list'[k] = r
        BY <3>1, <3>3, <2>1, <2>2
      <4> QED BY <4>1 DEF Listed, ToSet
    <3>4. CASE k > i
      <4>1. k - 1 \in DOMAIN list' /\ ~(k - 1 < i) /\ (k - 1) + 1 = k
        BY <3>1, <3>4, <2>2
      <4>2. list'[k - 1] = r
        BY <3>1, <4>1, <2>1
      <4> QED BY <4>1, <4>2 DEF Listed, ToSet
    <3> QED BY <3>2, <3>3, <3>4, <2>2
  <2>6. Listed(evt.dev)
    BY <2>1 DEF Listed, ToSet
  <2> QED BY <2>1, <2>4, <2>5, <2>6
<1>4. CASE /\ Unlist(evt.dev) /\ dev' = [dev EXCEPT ![evt.dev] = Free]
           /\ dangling' = dangling \cup {t \in {"btc", "app", "tmr"} : Pointer(t) = evt.dev}
           /\ evt' = Resting /\ UNCHANGED list_lock
  BY <1>1, <1>3, <1>4 DEF Free, Same, Resting
<1>5. CASE /\ Unlist(evt.dev) /\ list_lock' = "evt" /\ evt' = [evt EXCEPT !.pc = "destroy"]
           /\ UNCHANGED <<dev, dangling>>
  <2>1. evt'.pc = "destroy" /\ evt'.dev = evt.dev
    BY <1>1, <1>5
  <2> QED BY <1>1, <1>3, <1>5, <2>1 DEF Same
<1> QED BY <1>2, <1>4, <1>5 DEF FreeDevice

\* The steps that make or free a structure, or say more of it than Same.
Moves == OpenEvt \/ OpenLink \/ OpenFailed \/ Close \/ FreeDevice \/ AppCtor \/ Reboot

\* But for the steps that move devices, the list and what it is about stay.
LEMMA DevicesStep ==
    ASSUME TypeInv, Next \/ UNCHANGED vars, ~Moves
    PROVE  /\ UNCHANGED <<list, list_lock>> /\ \A s \in Slots : Same(s)
           /\ evt' = evt \/ TakeEvent
<1> USE DEF memVars, taskVars, stackVars, restOfBtc, restOfEvt, restOfApp, restOfTmr, restOfStack
<1>1. \A s \in Slots : Same(s)
  BY SameDevices, Frames DEF Moves, Tmr
<1>2. UNCHANGED list
  <2>1. UNCHANGED <<dev, list>> \/ Describe \/ AddDev \/ ResetTrans \/ AppRequest \/ Tmr
    BY Frames DEF Moves
  <2>2. CASE Describe \/ AddDev \/ ResetTrans \/ AppRequest \/ Tmr
    BY <2>2 DEF Describe, AddDev, ResetTrans, AppRequest, Tmr, TimerReset, TimerFire
  <2> QED BY <2>1, <2>2
<1>3. UNCHANGED list_lock /\ (evt' = evt \/ TakeEvent)
  BY Frames DEF Moves, TakeEvent
<1> QED BY <1>1, <1>2, <1>3

\* What keeps the list as it is keeps its invariant.
LEMMA ListKept ==
    ASSUME TypeInv, ListInv, UNCHANGED <<list, list_lock>>, evt' = evt \/ (evt.pc = "idle" /\ evt'.pc # "destroy"),
           \A s \in Slots : dev'[s].live = dev[s].live
    PROVE  ListInv'
<1>1. \A i \in DOMAIN list : list[i] \in Slots
  BY DeviceIs DEF TypeInv
<1>2. \A s \in Slots : Listed(s)' <=> Listed(s)
  BY DEF Listed
<1> QED BY <1>1, <1>2 DEF ListInv

\* hidh_dev_ctor appends a device that the list did not have.
LEMMA ListCtor ==
    ASSUME TypeInv, ListInv, NEW s \in Slots, NEW b \in Bdas, Ctor(s, b), UNCHANGED <<list_lock, evt>>
    PROVE  ListInv'
<1>1. /\ ~dev[s].live /\ ~Listed(s) /\ \A r \in Slots \ {s} : Same(r)
      /\ dev'[s].live /\ list'[Len(list) + 1] = s
      /\ \A i \in DOMAIN list : i \in DOMAIN list' /\ list'[i] = list[i] /\ i < Len(list) + 1
      /\ \A i \in DOMAIN list' : i \in DOMAIN list \/ i = Len(list) + 1
      /\ \A r \in Slots : Listed(r)' <=> Listed(r) \/ r = s
  BY CtorSets
<1>2. \A i \in DOMAIN list : list[i] \in Slots /\ list[i] # s
  BY <1>1, DeviceIs DEF TypeInv, Listed, ToSet
<1>3. \A i \in DOMAIN list' : dev'[list'[i]].live
  BY <1>1, <1>2 DEF ListInv, Same
<1>4. \A i, j \in DOMAIN list' : list'[i] = list'[j] => i = j
  BY <1>1, <1>2 DEF ListInv
<1>5. \A r \in Slots : dev'[r].live => Listed(r)' \/ (evt'.pc = "destroy" /\ evt'.dev = r)
  BY <1>1 DEF ListInv, Same
<1> QED BY <1>3, <1>4, <1>5 DEF ListInv

\* A device is freed when it has left the list.
LEMMA ListFree ==
    ASSUME TypeInv, ListInv, FreeDevice
    PROVE  ListInv'
<1>1. evt.pc = "free" /\ list_lock = "none" /\ evt.dev \in Slots
  BY FreeSets DEF TypeInv, TaskType, EvtType
<1>2. CASE ~Listed(evt.dev) /\ evt'.pc = "idle" /\ UNCHANGED <<dev, list, list_lock, dangling>>
  <2>1. \A s \in Slots : Listed(s)' <=> Listed(s)
    BY <1>2 DEF Listed
  <2> QED BY <1>1, <1>2, <2>1 DEF ListInv
<1>3. CASE /\ Listed(evt.dev)
           /\ \E i \in DOMAIN list :
                 /\ list[i] = evt.dev /\ list' \in Seq(Slots) /\ Len(list') = Len(list) - 1
                 /\ \A j \in DOMAIN list' : list'[j] = list[IF j < i THEN j ELSE j + 1]
           /\ \A r \in Slots \ {evt.dev} : Same(r)
           /\ \A r \in Slots : Listed(r)' <=> Listed(r) /\ r # evt.dev
           /\ \/ ~dev'[evt.dev].live /\ evt'.pc = "idle" /\ list_lock' = "none"
              \/ dev' = dev /\ evt'.pc = "destroy" /\ evt'.dev = evt.dev /\ list_lock' = "evt"
  <2>1. PICK i \in DOMAIN list :
           /\ list[i] = evt.dev /\ list' \in Seq(Slots) /\ Len(list') = Len(list) - 1
           /\ \A j \in DOMAIN list' : list'[j] = list[IF j < i THEN j ELSE j + 1]
    BY <1>3
  <2>2. list \in Seq(Slots) /\ i \in Nat /\ i >= 1 /\ i <= Len(list) /\ Len(list) \in Nat
        /\ DOMAIN list = 1 .. Len(list) /\ DOMAIN list' = 1 .. Len(list) - 1
    BY DeviceIs, <2>1 DEF TypeInv
  <2>3. \A j \in DOMAIN list' : list'[j] \in Slots /\ (\A r \in Slots : list'[j] = r => Listed(r)')
    BY <2>1, <2>2 DEF Listed, ToSet
  <2>4. \A j \in DOMAIN list' : dev'[list'[j]].live
    <3> SUFFICES ASSUME NEW j \in DOMAIN list' PROVE dev'[list'[j]].live
      OBVIOUS
    <3>1. list'[j] \in Slots /\ list'[j] # evt.dev /\ Listed(list'[j])
      BY <1>3, <2>3
    <3>2. dev[list'[j]].live
      BY <3>1 DEF Listed, ToSet, ListInv
    <3> QED BY <1>3, <3>1, <3>2 DEF Same
  <2>5. \A j, k \in DOMAIN list' : list'[j] = list'[k] => j = k
    <3> SUFFICES ASSUME NEW j \in DOMAIN list', NEW k \in DOMAIN list', list'[j] = list'[k] PROVE j = k
      OBVIOUS
    <3> DEFINE f(n) == IF n < i THEN n ELSE n + 1
    <3>1. j \in 1 .. Len(list) - 1 /\ k \in 1 .. Len(list) - 1
      BY <2>2
    <3>2. f(j) \in DOMAIN list /\ f(k) \in DOMAIN list /\ list[f(j)] = list[f(k)]
      BY <2>1, <2>2, <3>1
    <3>3. f(j) = f(k)
      BY <3>2 DEF ListInv
    <3> QED BY <2>2, <3>1, <3>3
  <2>6. \A s \in Slots : dev'[s].live => Listed(s)' \/ (evt'.pc = "destroy" /\ evt'.dev = s)
    BY <1>1, <1>3 DEF ListInv, Same
  <2> QED BY <1>3, <2>4, <2>5, <2>6 DEF ListInv
<1> QED BY <1>2, <1>3, FreeSets

\* Every step keeps the list.
LEMMA ListStep ==
    ASSUME TypeInv, ListInv, Next \/ UNCHANGED vars
    PROVE  ListInv'
<1> USE DEF restOfBtc, restOfEvt, restOfApp, taskVars
<1>1. CASE ~Moves
  <2>1. /\ UNCHANGED <<list, list_lock>> /\ \A s \in Slots : Same(s)
        /\ evt' = evt \/ TakeEvent
    BY <1>1, DevicesStep
  <2>2. TakeEvent => evt.pc = "idle" /\ evt'.pc # "destroy"
    BY DEF TakeEvent, Resting
  <2> QED BY <2>1, <2>2, ListKept DEF Same
<1>2. CASE OpenLink \/ OpenFailed \/ Close
  <2>1. UNCHANGED <<list, list_lock, evt>>
    BY <1>2 DEF OpenLink, OpenFailed, Close
  <2>2. \A s \in Slots : dev'[s].live = dev[s].live
    BY <1>2, MarkedDevices DEF Same
  <2> QED BY <2>1, <2>2, ListKept
<1>3. CASE OpenEvt
  <2>1. CASE UNCHANGED <<dev, list>>
    BY <2>1, <1>3, ListKept DEF OpenEvt
  <2>2. ASSUME NEW s \in Slots, Ctor(s, Head(btq).bda) PROVE ListInv'
    <3>1. Head(btq).bda \in Bdas
      BY <1>3, TakeIs DEF OpenEvt, TypeInv
    <3>2. UNCHANGED <<list_lock, evt>>
      BY <1>3 DEF OpenEvt
    <3> QED BY <2>2, <3>1, <3>2, ListCtor
  <2> QED BY <2>1, <2>2, <1>3 DEF OpenEvt
<1>4. CASE AppCtor
  <2>1. CASE UNCHANGED <<dev, list>>
    BY <2>1, <1>4, ListKept DEF AppCtor
  <2>2. ASSUME NEW s \in Slots, Ctor(s, app.op) PROVE ListInv'
    <3>1. app.op \in Bdas
      BY <1>4 DEF AppCtor, TypeInv, TaskType, AppType
    <3>2. UNCHANGED <<list_lock, evt>>
      BY <1>4 DEF AppCtor
    <3> QED BY <2>2, <3>1, <3>2, ListCtor
  <2> QED BY <2>1, <2>2, <1>4 DEF AppCtor
<1>5. CASE FreeDevice
  BY <1>5, ListFree
<1>6. CASE Reboot
  BY <1>6 DEF Reboot, ListInv, Free, Listed, ToSet, Resting
<1> QED BY <1>1, <1>2, <1>3, <1>4, <1>5, <1>6 DEF Moves

-----------------------------------------------------------------------------
(* Addresses and links.                                                    *)

\* While list and addresses stay, so does the first device of an address.
LEMMA FirstKept ==
    ASSUME TypeInv, UNCHANGED list, \A r \in Slots : dev'[r].bda = dev[r].bda, NEW s \in Slots
    PROVE  IsFirst(s)' <=> IsFirst(s)
<1>1. \A i \in DOMAIN list : list[i] \in Slots /\ \A j \in 1 .. i - 1 : j \in DOMAIN list
  BY DeviceIs DEF TypeInv
<1> QED BY <1>1 DEF IsFirst

\* A device at the end of the list is not before another.
LEMMA FirstCtor ==
    ASSUME TypeInv, ListInv, NEW r \in Slots, NEW b \in Bdas, Ctor(r, b), NEW s \in Slots, IsFirst(s)
    PROVE  IsFirst(s)' /\ s # r
<1>1. PICK i \in DOMAIN list : list[i] = s /\ \A j \in 1 .. i - 1 : dev[list[j]].bda # dev[s].bda
  BY DEF IsFirst
<1>2. /\ ~Listed(r) /\ \A q \in Slots \ {r} : Same(q)
      /\ \A j \in DOMAIN list : j \in DOMAIN list' /\ list'[j] = list[j]
  BY CtorSets
<1>3. \A j \in DOMAIN list : list[j] \in Slots /\ list[j] # r /\ \A k \in 1 .. j - 1 : k \in DOMAIN list
  BY <1>2, DeviceIs DEF TypeInv, Listed, ToSet
<1> QED BY <1>1, <1>2, <1>3 DEF IsFirst, Same

\* The first device of an address stays the first when another is freed.
LEMMA FirstFree ==
    ASSUME TypeInv, ListInv, FreeDevice, NEW s \in Slots, IsFirst(s), s # evt.dev
    PROVE  IsFirst(s)'
<1>1. PICK i \in DOMAIN list : list[i] = s /\ \A j \in 1 .. i - 1 : dev[list[j]].bda # dev[s].bda
  BY DEF IsFirst
<1>2. CASE UNCHANGED <<dev, list>>
  BY <1>2, FirstKept
<1>3. CASE /\ \E n \in DOMAIN list :
                 /\ list[n] = evt.dev /\ list' \in Seq(Slots) /\ Len(list') = Len(list) - 1
                 /\ \A j \in DOMAIN list' : list'[j] = list[IF j < n THEN j ELSE j + 1]
           /\ \A r \in Slots \ {evt.dev} : Same(r)
           /\ \A r \in Slots : Listed(r)' <=> Listed(r) /\ r # evt.dev
  <2>1. PICK n \in DOMAIN list :
           /\ list[n] = evt.dev /\ list' \in Seq(Slots) /\ Len(list') = Len(list) - 1
           /\ \A j \in DOMAIN list' : list'[j] = list[IF j < n THEN j ELSE j + 1]
    BY <1>3
  <2>2. /\ i \in Nat /\ i >= 1 /\ i <= Len(list) /\ n \in Nat /\ n >= 1 /\ n <= Len(list) /\ i # n
        /\ Len(list) \in Nat /\ DOMAIN list = 1 .. Len(list) /\ DOMAIN list' = 1 .. Len(list) - 1
    BY <1>1, <2>1, DeviceIs DEF TypeInv
  <2> DEFINE m == IF i < n THEN i ELSE i - 1
  <2>3. m \in DOMAIN list' /\ list'[m] = s
    <3>1. CASE i < n
      BY <3>1, <1>1, <2>1, <2>2
    <3>2. CASE i > n
      <4>1. i - 1 \in DOMAIN list' /\ ~(i - 1 < n) /\ (i - 1) + 1 = i
        BY <3>2, <2>2
      <4>2. list'[i - 1] = list[i]
        BY <4>1, <2>1
      <4> QED BY <4>1, <4>2, <3>2, <1>1, <2>2
    <3> QED BY <3>1, <3>2, <2>2
  <2>4. ASSUME NEW j \in 1 .. m - 1
        PROVE  dev'[list'[j]].bda # dev'[s].bda
    <3> DEFINE k == IF j < n THEN j ELSE j + 1
    <3>1. j \in DOMAIN list' /\ k \in 1 .. i - 1 /\ k \in DOMAIN list /\ list'[j] = list[k]
      BY <2>1, <2>2
    <3>2. dev[list[k]].bda # dev[s].bda
      BY <3>1, <1>1
    <3>3. list'[j] \in Slots /\ \A r \in Slots : list'[j] = r => Listed(r)'
      BY <3>1, <2>1 DEF Listed, ToSet
    <3>4. list'[j] # evt.dev
      BY <3>3, <1>3
    <3> QED BY <3>1, <3>2, <3>3, <3>4, <1>3 DEF Same
  <2> HIDE DEF m
  <2> QED BY <2>3, <2>4 DEF IsFirst
<1> QED BY <1>2, <1>3, FreeSets

\* There is one first of an address, which is the one that is found.
LEMMA FirstIsFound ==
    ASSUME TypeInv, NEW s \in Slots, IsFirst(s), dev[s].bda \in Bdas
    PROVE  ByBda(dev[s].bda) = s
<1> DEFINE d == ByBda(dev[s].bda)
<1>1. Listed(s)
  BY DEF IsFirst, Listed, ToSet
<1>2. d \in Slots /\ IsFirst(d) /\ dev[d].bda = dev[s].bda
  BY <1>1, ByBdaIs DEF TypeInv
<1> HIDE DEF d
<1>3. PICK i \in DOMAIN list : list[i] = s /\ \A k \in 1 .. i - 1 : dev[list[k]].bda # dev[s].bda
  BY DEF IsFirst
<1>4. PICK j \in DOMAIN list : list[j] = d /\ \A k \in 1 .. j - 1 : dev[list[k]].bda # dev[d].bda
  BY <1>2 DEF IsFirst
<1>5. i \in Nat /\ j \in Nat /\ i >= 1 /\ j >= 1
  BY DeviceIs DEF TypeInv
<1>6. i = j
  BY <1>2, <1>3, <1>4, <1>5
<1> QED BY <1>3, <1>4, <1>6 DEF d

\* While list, addresses and handles stay, so does HandleInv.
LEMMA HandleKept ==
    ASSUME TypeInv, HandleInv, UNCHANGED list,
           \A r \in Slots : dev'[r].bda = dev[r].bda /\ dev'[r].handle = dev[r].handle
    PROVE  HandleInv'
<1>1. \A s \in Slots : (Listed(s)' <=> Listed(s)) /\ (IsFirst(s)' <=> IsFirst(s))
  BY FirstKept DEF Listed
<1> QED BY <1>1 DEF HandleInv

\* A new device has no link.
LEMMA HandleCtor ==
    ASSUME TypeInv, ListInv, HandleInv, NEW r \in Slots, NEW b \in Bdas, Ctor(r, b)
    PROVE  HandleInv'
<1>1. \A s \in Slots : IsFirst(s) => IsFirst(s)'
  BY FirstCtor
<1> QED BY <1>1, CtorSets DEF HandleInv, Same

\* A device that is freed takes no link from another.
LEMMA HandleFree ==
    ASSUME TypeInv, ListInv, HandleInv, FreeDevice
    PROVE  HandleInv'
<1>1. \A s \in Slots : IsFirst(s) /\ s # evt.dev => IsFirst(s)'
  BY FirstFree
<1>2. CASE UNCHANGED <<dev, list>>
  BY <1>2, HandleKept
<1>3. CASE /\ \A r \in Slots \ {evt.dev} : Same(r)
           /\ \A r \in Slots : Listed(r)' <=> Listed(r) /\ r # evt.dev
  BY <1>1, <1>3 DEF HandleInv, Same
<1> QED BY <1>2, <1>3, FreeSets

\* OpenLink gives the link to the first device, and no other step gives one.
LEMMA HandleStep ==
    ASSUME TypeInv, ListInv, HandleInv, Next \/ UNCHANGED vars,
           OpenLink => btc.ev.bda = dev[btc.dev].bda /\ IsFirst(btc.dev)
    PROVE  HandleInv'
<1> USE DEF restOfBtc, restOfApp
<1>0. TypeInv /\ ListInv /\ HandleInv
  OBVIOUS
<1>1. CASE ~Moves
  BY <1>0, <1>1, DevicesStep, HandleKept DEF Same
<1>2. CASE OpenLink
  <2>1. /\ btc.dev \in Slots /\ \A s \in Slots \ {btc.dev} : Same(s)
        /\ dev'[btc.dev].bda = dev[btc.dev].bda /\ dev'[btc.dev].handle = btc.ev.bda
        /\ UNCHANGED list
    BY <1>0, <1>2, MarkedDevices DEF OpenLink
  <2>2. btc.ev.bda = dev[btc.dev].bda /\ IsFirst(btc.dev)
    BY <1>2
  <2>3. \A s \in Slots : dev'[s].bda = dev[s].bda
    BY <2>1 DEF Same
  <2>4. \A s \in Slots : (Listed(s)' <=> Listed(s)) /\ (IsFirst(s)' <=> IsFirst(s))
    BY <1>0, <2>1, <2>3, FirstKept DEF Listed
  <2> QED BY <1>0, <2>1, <2>2, <2>3, <2>4 DEF HandleInv, Same
<1>3. CASE OpenFailed \/ Close
  <2>1. UNCHANGED list
    BY <1>3 DEF OpenFailed, Close
  <2> QED BY <1>0, <1>3, <2>1, MarkedDevices, HandleKept
<1>4. CASE OpenEvt
  <2>1. CASE UNCHANGED <<dev, list>>
    BY <1>0, <2>1, <1>4, HandleKept
  <2>2. ASSUME NEW s \in Slots, Ctor(s, Head(btq).bda) PROVE HandleInv'
    <3>1. Head(btq).bda \in Bdas
      BY <1>0, <1>4, TakeIs DEF OpenEvt, TypeInv
    <3> QED BY <1>0, <2>2, <3>1, HandleCtor
  <2> QED BY <2>1, <2>2, <1>4 DEF OpenEvt
<1>5. CASE AppCtor
  <2>1. CASE UNCHANGED <<dev, list>>
    BY <1>0, <2>1, <1>5, HandleKept
  <2>2. ASSUME NEW s \in Slots, Ctor(s, app.op) PROVE HandleInv'
    <3>1. app.op \in Bdas
      BY <1>0, <1>5 DEF AppCtor, TypeInv, TaskType, AppType
    <3> QED BY <1>0, <2>2, <3>1, HandleCtor
  <2> QED BY <2>1, <2>2, <1>5 DEF AppCtor
<1>6. CASE FreeDevice
  BY <1>0, <1>6, HandleFree
<1>7. CASE Reboot
  BY <1>7 DEF Reboot, HandleInv, Free
<1> QED BY <1>1, <1>2, <1>3, <1>4, <1>5, <1>6, <1>7 DEF Moves

-----------------------------------------------------------------------------
(* The backlog of the stack.                                               *)

Takes == btq # <<>> /\ btq' = Tail(btq) /\ UNCHANGED link
Adds(e) ==
    /\ e \in Event /\ e.bda \in Bdas /\ e.k # "none" /\ btq' = Append(btq, e)
    /\ e.k \in {"close", "answer", "data"} => link[e.bda] = "up"
    /\ \A b \in Bdas : link'[b] = "up" => link[b] = "up" \/ (e.k = "open" /\ e.bda = b)
    /\ e.k = "close" => link'[e.bda] # "up"
Leaves == UNCHANGED btq /\ \A b \in Bdas : link'[b] = "up" => link[b] = "up"

\* esp_hh_cb takes one event, or the stack adds one.
LEMMA BacklogStep ==
    ASSUME TypeInv, StackInv, Next \/ UNCHANGED vars, ~Reboot
    PROVE  \/ Takes /\ (Head(btq).k = "open" => OpenEvt)
           \/ Leaves
           \/ \E e \in Event : Adds(e)
<1> USE DEF memVars, taskVars, stackVars, restOfBtc, restOfEvt, restOfApp, restOfTmr, restOfStack
<1>0. link \in [Bdas -> {"down", "paging", "up"}] /\ btq \in Seq(Event)
  BY DEF TypeInv, StackType, QueueType
<1>1. CASE OpenEvt \/ DscpEvt \/ AddDevEvt \/ CloseEvt \/ AnswerEvt \/ DataEvt
  <2>1. UNCHANGED link /\ (OpenEvt \/ \E k \in {"dscp", "add", "close", "answer", "data"} : Take(k))
    BY <1>1 DEF OpenEvt, DscpEvt, AddDevEvt, CloseEvt, AnswerEvt, DataEvt
  <2> QED BY <2>1 DEF OpenEvt, Take, Takes
<1>2. CASE \/ OpenLink \/ OpenFailed \/ Status \/ PostEvent \/ DscpExists \/ Describe \/ AddDev
           \/ Close \/ Answer \/ ResetTrans \/ Data
  BY <1>2 DEF OpenLink, OpenFailed, Status, PostEvent, DscpExists, Describe, AddDev, Close, Answer,
              ResetTrans, Data, Leaves
<1>3. CASE \/ Evt \/ AppOpenDev \/ AppCtor \/ AppRequest \/ Tmr \/ UNCHANGED vars
           \/ (\E b \in Bdas : AppOpen(b))
           \/ (\E s \in Slots, op \in Ops : AppCall(s, op, IF op = "get_report" THEN 1 ELSE 0))
           \/ \E t \in {"btc", "app", "tmr"} : TouchesFreed(t)
  BY <1>3 DEF Evt, TakeEvent, FreeDevice, AppOpenDev, AppCtor, AppRequest, Tmr, TimerReset,
              TimerFire, vars, AppOpen, AppCall, TouchesFreed, Leaves
<1>4. CASE AppConnect
  BY <1>0, <1>4 DEF AppConnect, Leaves
<1>5. ASSUME NEW b \in Bdas, NEW good \in Good, StackOpen(b, good)
      PROVE  \E e \in Event : Adds(e)
  <2>1. link' = [link EXCEPT ![b] = IF good THEN "up" ELSE "down"]
        /\ btq' = Append(btq, Ev("open", b, good, link[b] = "paging"))
    BY <1>5 DEF StackOpen, Notify
  <2>2. PICK flag \in BOOLEAN : flag = (link[b] = "paging")
    OBVIOUS
  <2> DEFINE e == Ev("open", b, good, flag)
  <2>3. e \in Event /\ e.bda = b /\ e.k = "open"
    BY GoodIs, EvIs
  <2>4. btq' = Append(btq, e)
    BY <2>1, <2>2
  <2> HIDE DEF e
  <2>5. Adds(e)
    BY <1>0, <2>1, <2>3, <2>4 DEF Adds
  <2> QED BY <2>3, <2>5
<1>6. ASSUME NEW b \in Bdas, NEW good \in Good, StackAdd(b, good)
      PROVE  \E e \in Event : Adds(e)
  <2> DEFINE e == Ev("add", b, good, FALSE)
  <2>1. e \in Event /\ e.bda = b /\ e.k = "add"
    BY GoodIs DEF Ev, Event, Unset
  <2>2. btq' = Append(btq, e) /\ UNCHANGED link
    BY <1>6 DEF StackAdd, Notify
  <2> HIDE DEF e
  <2> QED BY <2>1, <2>2 DEF Adds
<1>7. ASSUME NEW b \in Bdas, NEW good \in Good, StackAnswer(b, good)
      PROVE  \E e \in Event : Adds(e)
  <2> DEFINE e == AnswerTo(Head(asked[b]), b, good)
  <2>0. good \in BOOLEAN /\ Head(asked[b]) \in [op : Transactions, id : Nat]
    <3>1. asked[b] \in Seq([op : Transactions, id : Nat]) /\ asked[b] # <<>>
      BY <1>7 DEF TypeInv, StackType, StackAnswer
    <3> QED BY <3>1, GoodIs, HeadTailProperties
  <2>1. e \in Event /\ e.bda = b /\ e.k = "answer"
    BY <2>0, AnswerToIs
  <2>2. btq' = Append(btq, e) /\ UNCHANGED link /\ asked[b] # <<>>
    BY <1>7 DEF StackAnswer, Notify
  <2>3. link[b] = "up"
    BY <2>2 DEF StackInv
  <2> HIDE DEF e
  <2> QED BY <2>1, <2>2, <2>3 DEF Adds
<1>8. ASSUME NEW good \in Good, NEW added \in BOOLEAN, StackDescribe(good, added)
      PROVE  \E e \in Event : Adds(e)
  <2> DEFINE e == Ev("dscp", Head(undescribed), good, added)
  <2>0. Head(undescribed) \in Bdas
    BY <1>8 DEF StackDescribe, TypeInv, StackType
  <2>1. e \in Event /\ e.bda \in Bdas /\ e.k = "dscp"
    BY <2>0, GoodIs, EvIs
  <2>2. btq' = Append(btq, e) /\ UNCHANGED link
    BY <1>8 DEF StackDescribe, Notify
  <2> HIDE DEF e
  <2> QED BY <2>1, <2>2 DEF Adds
<1>9. ASSUME NEW b \in Bdas, StackClose(b)
      PROVE  \E e \in Event : Adds(e)
  <2> DEFINE e == Ev("close", b, TRUE, FALSE)
  <2>1. e \in Event /\ e.bda = b /\ e.k = "close"
    BY EvIs
  <2>2. btq' = Append(btq, e) /\ link' = [link EXCEPT ![b] = "down"] /\ link[b] = "up"
    BY <1>9 DEF StackClose, Notify
  <2> HIDE DEF e
  <2> QED BY <1>0, <2>1, <2>2 DEF Adds
<1>10. CASE \E b \in Bdas : StackLoses(b)
  BY <1>10 DEF StackLoses, Leaves
<1>11. ASSUME NEW b \in Bdas, StackData(b)
       PROVE  \E e \in Event : Adds(e)
  <2> DEFINE e == Ev("data", b, TRUE, FALSE)
  <2>1. e \in Event /\ e.bda = b /\ e.k = "data"
    BY EvIs
  <2>2. btq' = Append(btq, e) /\ UNCHANGED link /\ link[b] = "up"
    BY <1>11 DEF StackData, Notify
  <2> HIDE DEF e
  <2> QED BY <2>1, <2>2 DEF Adds
<1> QED BY <1>1, <1>2, <1>3, <1>4, <1>5, <1>6, <1>7, <1>8, <1>9, <1>10, <1>11
      DEF Next, Btc, App, Stack

\* One event less before the n-th.
LEMMA QuietTake ==
    ASSUME QueueType, Takes, NEW n \in Nat, NEW b \in Bdas, QuietBehind(n + 1, b)
    PROVE  QuietBehind(n, b)'
<1>1. btq \in Seq(Event) /\ btq # <<>> /\ btq' = Tail(btq) /\ UNCHANGED link
  BY DEF QueueType, Takes
<1>2. /\ \A i \in DOMAIN btq' : i \in Nat /\ i >= 1 /\ i + 1 \in DOMAIN btq /\ btq'[i] = btq[i + 1]
      /\ \A i \in DOMAIN btq : i \in Nat /\ (i > 1 => i - 1 \in DOMAIN btq' /\ btq'[i - 1] = btq[i])
  BY <1>1
<1>3. ASSUME NEW i \in DOMAIN btq', i > n, btq'[i].bda = b, btq'[i].k \in {"close", "answer", "data"}
      PROVE  \E j \in n + 1 .. i - 1 : IsOpen(j, b)'
  <2>1. i + 1 \in DOMAIN btq /\ i + 1 > n + 1 /\ btq[i + 1] = btq'[i] /\ i \in Nat
    BY <1>2, <1>3
  <2>2. PICK j \in n + 1 + 1 .. i + 1 - 1 : IsOpen(j, b)
    BY <2>1, <1>3 DEF QuietBehind
  <2>3. j \in Nat /\ j > 1 /\ j <= i /\ j - 1 \in n + 1 .. i - 1
    BY <2>1, <2>2
  <2>4. j \in DOMAIN btq
    BY <1>1, <2>1, <2>3
  <2>5. btq'[j - 1] = btq[j]
    BY <1>2, <2>3, <2>4
  <2> QED BY <2>2, <2>3, <2>5 DEF IsOpen
<1>4. ASSUME link'[b] = "up"
      PROVE  \E j \in DOMAIN btq' : j > n /\ IsOpen(j, b)'
  <2>1. PICK j \in DOMAIN btq : j > n + 1 /\ IsOpen(j, b)
    BY <1>1, <1>4 DEF QuietBehind
  <2>2. j \in Nat /\ j > 1 /\ j - 1 > n /\ j - 1 \in DOMAIN btq' /\ btq'[j - 1] = btq[j]
    BY <2>1, <1>2
  <2> QED BY <2>1, <2>2 DEF IsOpen
<1> QED BY <1>3, <1>4 DEF QuietBehind

\* The first event, if it is not the OPEN_EVT of b, may as well be there.
LEMMA QuietSkip ==
    ASSUME QueueType, btq # <<>>, NEW b \in Bdas, QuietBehind(0, b)
    PROVE  /\ btq[1].bda = b => btq[1].k \notin {"close", "answer", "data"}
           /\ ~IsOpen(1, b) => QuietBehind(1, b)
<1>1. btq \in Seq(Event) /\ 1 \in DOMAIN btq /\ \A i \in DOMAIN btq : i \in Nat /\ i >= 1
  BY DEF QueueType
<1>2. btq[1].bda = b => btq[1].k \notin {"close", "answer", "data"}
  <2>1. \A j \in 0 + 1 .. 1 - 1 : FALSE
    OBVIOUS
  <2> QED BY <1>1, <2>1 DEF QuietBehind
<1>3. ASSUME ~IsOpen(1, b) PROVE QuietBehind(1, b)
  <2>1. ASSUME NEW i \in DOMAIN btq, i > 1, btq[i].bda = b, btq[i].k \in {"close", "answer", "data"}
        PROVE  \E j \in 1 + 1 .. i - 1 : IsOpen(j, b)
    <3>0. i > 0
      BY <2>1, <1>1
    <3>1. PICK j \in 0 + 1 .. i - 1 : IsOpen(j, b)
      BY <3>0, <2>1 DEF QuietBehind
    <3>2. j # 1
      BY <3>1, <1>3
    <3> QED BY <3>1, <3>2, <1>1
  <2>2. ASSUME link[b] = "up"
        PROVE  \E j \in DOMAIN btq : j > 1 /\ IsOpen(j, b)
    <3>1. PICK j \in DOMAIN btq : j > 0 /\ IsOpen(j, b)
      BY <2>2 DEF QuietBehind
    <3> QED BY <3>1, <1>1, <1>3
  <2> QED BY <2>1, <2>2 DEF QuietBehind
<1> QED BY <1>2, <1>3

\* An event that is added has its OPEN_EVT before it, or is one.
LEMMA QuietAdd ==
    ASSUME QueueType, NEW e \in Event, Adds(e), NEW n \in Nat, n <= Len(btq), NEW b \in Bdas, QuietBehind(n, b)
    PROVE  QuietBehind(n, b)'
<1>1. /\ btq \in Seq(Event) /\ btq'[Len(btq) + 1] = e /\ Len(btq) + 1 \in DOMAIN btq' /\ Len(btq) \in Nat
      /\ \A i \in DOMAIN btq : i \in Nat /\ i >= 1 /\ i <= Len(btq) /\ i \in DOMAIN btq' /\ btq'[i] = btq[i]
      /\ \A i \in DOMAIN btq' : i \in DOMAIN btq \/ i = Len(btq) + 1
  BY DEF QueueType, Adds
<1>2. \A j \in DOMAIN btq : IsOpen(j, b) => IsOpen(j, b)'
  BY <1>1 DEF IsOpen
<1>3. ASSUME NEW i \in DOMAIN btq', i > n, btq'[i].bda = b, btq'[i].k \in {"close", "answer", "data"}
      PROVE  \E j \in n + 1 .. i - 1 : IsOpen(j, b)'
  <2>1. CASE i \in DOMAIN btq
    <3>1. PICK j \in n + 1 .. i - 1 : IsOpen(j, b)
      BY <2>1, <1>1, <1>3 DEF QuietBehind
    <3>2. j \in DOMAIN btq
      BY <2>1, <1>1
    <3> QED BY <3>1, <3>2, <1>2
  <2>2. CASE i = Len(btq) + 1
    <3>1. link[b] = "up"
      BY <2>2, <1>1, <1>3 DEF Adds
    <3>2. PICK j \in DOMAIN btq : j > n /\ IsOpen(j, b)
      BY <3>1 DEF QuietBehind
    <3>3. j \in n + 1 .. i - 1
      BY <3>2, <2>2, <1>1
    <3> QED BY <3>2, <3>3, <1>2
  <2> QED BY <2>1, <2>2, <1>1
<1>4. ASSUME link'[b] = "up"
      PROVE  \E j \in DOMAIN btq' : j > n /\ IsOpen(j, b)'
  <2>1. CASE link[b] = "up"
    <3>1. PICK j \in DOMAIN btq : j > n /\ IsOpen(j, b)
      BY <2>1 DEF QuietBehind
    <3> QED BY <3>1, <1>1, <1>2
  <2>2. CASE e.k = "open" /\ e.bda = b
    BY <2>2, <1>1 DEF IsOpen
  <2> QED BY <2>1, <2>2, <1>4 DEF Adds
<1> QED BY <1>3, <1>4 DEF QuietBehind

\* A step that leaves the backlog and the links keeps QuietBehind.
LEMMA QuietKept ==
    ASSUME Leaves, NEW n, NEW b \in Bdas, QuietBehind(n, b)
    PROVE  QuietBehind(n, b)'
<1>1. \A j : IsOpen(j, b)' <=> IsOpen(j, b)
  BY DEF Leaves, IsOpen
<1> QED BY <1>1 DEF Leaves, QuietBehind

\* Of a link that is quiet only an OPEN_EVT can be heard.
LEMMA QuietStep ==
    ASSUME TypeInv, StackInv, Next \/ UNCHANGED vars, ~Reboot, NEW b \in Bdas, QuietBehind(0, b),
           ~(OpenEvt /\ Head(btq).bda = b)
    PROVE  QuietBehind(0, b)'
<1>0. QueueType /\ Len(btq) \in Nat
  BY DEF TypeInv, QueueType
<1>1. CASE Takes /\ (Head(btq).k = "open" => OpenEvt)
  <2>1. btq # <<>> /\ Head(btq) = btq[1]
    BY <1>0, <1>1 DEF Takes, QueueType
  <2>2. ~IsOpen(1, b)
    BY <1>1, <2>1 DEF IsOpen
  <2>3. QuietBehind(0 + 1, b)
    BY <1>0, <2>1, <2>2, QuietSkip
  <2> QED BY <1>0, <1>1, <2>3, QuietTake
<1>2. CASE Leaves
  BY <1>2, QuietKept
<1>3. ASSUME NEW e \in Event, Adds(e) PROVE QuietBehind(0, b)'
  BY <1>0, <1>3, QuietAdd
<1> QED BY <1>1, <1>2, <1>3, BacklogStep

\* What went wrong is remembered until the next reset.
LEMMA OddGrows ==
    ASSUME Next \/ UNCHANGED vars, ~Reboot
    PROVE  odd \subseteq odd'
<1> USE DEF memVars, taskVars, stackVars, restOfBtc, restOfEvt, restOfApp, restOfTmr, restOfStack
<1>1. CASE OpenEvt
  BY <1>1 DEF OpenEvt
<1>2. CASE \/ OpenLink \/ OpenFailed \/ Status \/ PostEvent \/ DscpEvt \/ DscpExists \/ Describe
           \/ AddDevEvt \/ AddDev
  BY <1>2 DEF OpenLink, OpenFailed, Status, PostEvent, DscpEvt, DscpExists, Describe, AddDevEvt,
              AddDev
<1>3. CASE CloseEvt \/ Close \/ AnswerEvt \/ Answer \/ ResetTrans \/ DataEvt \/ Data \/ Evt \/ TimerReset
  BY <1>3 DEF CloseEvt, Close, AnswerEvt, Answer, ResetTrans, DataEvt, Data, Evt, TakeEvent,
              FreeDevice, TimerReset
<1>4. CASE AppRequest
  BY <1>4 DEF AppRequest, Started
<1>5. CASE \/ AppOpenDev \/ AppCtor \/ AppConnect \/ (\E b \in Bdas : AppOpen(b))
           \/ (\E s \in Slots, op \in Ops : AppCall(s, op, IF op = "get_report" THEN 1 ELSE 0))
           \/ (\E s \in Slots : TimerFire(s))
           \/ (\E t \in {"btc", "app", "tmr"} : TouchesFreed(t)) \/ UNCHANGED vars
  BY <1>5 DEF AppOpenDev, AppCtor, AppConnect, AppOpen, AppCall, TimerFire, TouchesFreed, vars
<1>6. CASE Stack
  BY <1>6 DEF Stack, StackOpen, StackDescribe, StackAdd, StackClose, StackAnswer, StackLoses,
              StackData
<1> QED BY <1>1, <1>2, <1>3, <1>4, <1>5, <1>6 DEF Next, Btc, App, Tmr

\* The stack answers on links that are up.
LEMMA AskedStep ==
    ASSUME TypeInv, StackInv, Next \/ UNCHANGED vars
    PROVE  \A b \in Bdas : asked'[b] # <<>> => link'[b] = "up"
<1> USE DEF memVars, taskVars, stackVars, restOfBtc, restOfEvt, restOfApp, restOfTmr, restOfStack
<1>0. /\ link \in [Bdas -> {"down", "paging", "up"}]
      /\ asked \in [Bdas -> Seq([op : Transactions, id : Nat])]
      /\ \A b \in Bdas : asked[b] # <<>> => link[b] = "up"
  BY DEF TypeInv, StackType, StackInv
<1>1. CASE UNCHANGED stackVars
  BY <1>0, <1>1
<1>2. CASE AppConnect
  <2>1. UNCHANGED asked /\ \A b \in Bdas : link[b] = "up" => link'[b] = "up"
    BY <1>0, <1>2 DEF AppConnect
  <2> QED BY <1>0, <2>1
<1>3. CASE AppRequest
  <2>1. CASE UNCHANGED asked
    BY <1>0, <1>3, <2>1 DEF AppRequest
  <2>2. CASE Ask(app.dev)
    <3>1. UNCHANGED link
      BY <1>3 DEF AppRequest
    <3>2. \A b \in Bdas : asked'[b] = asked[b] \/ link[b] = "up"
      BY <1>0, <2>2 DEF Ask
    <3> QED BY <1>0, <3>1, <3>2
  <2> QED BY <1>3, <2>1, <2>2 DEF AppRequest
<1>4. ASSUME NEW c \in Bdas, NEW good \in Good, StackOpen(c, good)
      PROVE  \A b \in Bdas : asked'[b] # <<>> => link'[b] = "up"
  <2>1. UNCHANGED asked /\ link[c] # "up" /\ \A b \in Bdas \ {c} : link'[b] = link[b]
    BY <1>0, <1>4 DEF StackOpen
  <2> QED BY <1>0, <2>1
<1>5. ASSUME NEW c \in Bdas, NEW good \in Good, StackAdd(c, good) \/ StackAnswer(c, good)
      PROVE  \A b \in Bdas : asked'[b] # <<>> => link'[b] = "up"
  BY <1>0, <1>5 DEF StackAdd, StackAnswer
<1>6. CASE \E good \in Good, added \in BOOLEAN : StackDescribe(good, added)
  BY <1>0, <1>6 DEF StackDescribe
<1>7. ASSUME NEW c \in Bdas, StackClose(c) \/ StackLoses(c) \/ StackData(c)
      PROVE  \A b \in Bdas : asked'[b] # <<>> => link'[b] = "up"
  BY <1>0, <1>7 DEF StackClose, StackLoses, StackData
<1>8. CASE Reboot
  BY <1>8 DEF Reboot
<1> QED BY <1>1, <1>2, <1>3, <1>4, <1>5, <1>6, <1>7, <1>8, Frames DEF Stack

\* Every step keeps what the stack's backlog says of the links.
LEMMA StackStep ==
    ASSUME TypeInv, StackInv, Next \/ UNCHANGED vars
    PROVE  StackInv'
<1>0. QueueType /\ btq \in Seq(Event) /\ Len(btq) \in Nat /\ \A i \in DOMAIN btq : btq[i].bda \in Bdas
  BY DEF TypeInv, QueueType
<1>1. CASE Reboot
  BY <1>1, AskedStep DEF Reboot, StackInv
<1>2. CASE Takes
  <2> SUFFICES ASSUME NEW i \in DOMAIN btq', NEW b \in Bdas, btq'[i].k = "close", btq'[i].bda = b
               PROVE  QuietBehind(i, b)'
    BY AskedStep DEF StackInv
  <2>1. i \in Nat /\ i + 1 \in DOMAIN btq /\ btq'[i] = btq[i + 1]
    BY <1>0, <1>2 DEF Takes
  <2>2. QuietBehind(i + 1, b)
    BY <2>1 DEF StackInv
  <2> QED BY <1>0, <1>2, <2>1, <2>2, QuietTake
<1>3. CASE Leaves
  <2>1. \A i \in DOMAIN btq : \A b \in Bdas : QuietBehind(i, b) => QuietBehind(i, b)'
    BY <1>3, QuietKept
  <2> QED BY <1>0, <1>3, <2>1, AskedStep DEF StackInv, Leaves
<1>4. ASSUME NEW e \in Event, Adds(e) PROVE StackInv'
  <2> SUFFICES ASSUME NEW i \in DOMAIN btq', NEW b \in Bdas, btq'[i].k = "close", btq'[i].bda = b
               PROVE  QuietBehind(i, b)'
    BY AskedStep DEF StackInv
  <2>1. i \in DOMAIN btq \/ i = Len(btq) + 1
    BY <1>0, <1>4 DEF Adds
  <2>2. CASE i \in DOMAIN btq
    <3>1. btq'[i] = btq[i] /\ i \in Nat /\ i <= Len(btq)
      BY <1>0, <1>4, <2>2 DEF Adds
    <3> QED BY <1>0, <1>4, <2>2, <3>1, QuietAdd DEF StackInv
  <2>3. CASE i = Len(btq) + 1
    <3>1. btq'[i] = e /\ \A j \in DOMAIN btq' : ~(j > i)
      BY <1>0, <1>4, <2>3 DEF Adds
    <3>2. link'[b] # "up"
      BY <1>4, <3>1 DEF Adds
    <3> QED BY <3>1, <3>2 DEF QuietBehind
  <2> QED BY <2>1, <2>2, <2>3
<1> QED BY <1>1, <1>2, <1>3, <1>4, BacklogStep

-----------------------------------------------------------------------------
(* Devices that have closed.                                               *)

\* A device that has closed does not hear an OPEN_EVT: it would be the first of its
\* address, and be found.
LEMMA ClosedIsDeaf ==
    ASSUME BtInv, Clean, Clean', OpenEvt, NEW s \in Slots, Listed(s), ~dev[s].in_use
    PROVE  dev[s].handle # Head(btq).bda
<1> SUFFICES ASSUME dev[s].handle = Head(btq).bda PROVE FALSE
  OBVIOUS
<1>1. TypeInv /\ HandleInv /\ Take("open") /\ Head(btq).bda \in Bdas
  BY TakeIs DEF BtInv, CleanInv, OpenEvt, TypeInv
<1>2. dev[s].bda = Head(btq).bda /\ IsFirst(s)
  BY <1>1, BtAssumption DEF HandleInv
<1>3. ByBda(Head(btq).bda) = s /\ s # "none"
  BY <1>1, <1>2, FirstIsFound, BtAssumption
<1>4. "closing" \in odd'
  BY <1>3 DEF OpenEvt, Closing
<1> QED BY <1>4 DEF Clean

\* What has closed stays closed, until it is freed.
LEMMA ClosedKept ==
    ASSUME TypeInv, ListInv, QueueType, NEW s \in Slots, NEW r \in Slots, NEW b \in Bdas, Ctor(r, b)
    PROVE  /\ Listed(s) => s # r /\ Same(s)
           /\ Listed(s)' <=> Listed(s) \/ s = r
           /\ dev'[r].in_use
BY CtorSets

\* Which devices are closed: only CLOSE_EVT adds one.
LEMMA ClosedDevices ==
    ASSUME BtInv, Clean, Clean', Next \/ UNCHANGED vars, ~Reboot, NEW s \in Slots
    PROVE  /\ Listed(s)' /\ ~dev'[s].in_use =>
                 Listed(s) /\ ((~dev[s].in_use /\ dev'[s].handle = dev[s].handle) \/ (Close /\ s = btc.dev))
           /\ Listed(s) /\ ~dev[s].in_use => (Listed(s)' /\ ~dev'[s].in_use) \/ (FreeDevice /\ s = evt.dev)
<1> USE DEF restOfBtc, restOfApp
<1>0. TypeInv /\ ListInv /\ CallbackInv /\ QueueType
  BY DEF BtInv, CleanInv, TypeInv
<1>1. CASE ~Moves
  <2>1. Same(s) /\ (Listed(s)' <=> Listed(s))
    BY <1>0, <1>1, DevicesStep DEF Listed
  <2> QED BY <2>1 DEF Same
<1>2. CASE OpenLink
  <2>1. /\ btc.dev \in Slots /\ \A r \in Slots \ {btc.dev} : Same(r)
        /\ dev'[btc.dev].in_use = dev[btc.dev].in_use /\ UNCHANGED list
    BY <1>0, <1>2, MarkedDevices DEF OpenLink
  <2>2. dev[btc.dev].in_use
    BY <1>0, <1>2 DEF OpenLink, At, CallbackInv, Found, Working, WorksOn
  <2> QED BY <2>1, <2>2 DEF Same, Listed
<1>3. CASE OpenFailed
  <2>1. "failed" \notin odd'
    BY DEF Clean
  <2>2. UNCHANGED <<dev, list>>
    BY <1>3, <2>1 DEF OpenFailed
  <2> QED BY <2>2 DEF Listed
<1>4. CASE Close
  <2>1. UNCHANGED list /\ dev'[s].handle = dev[s].handle
        /\ (s # btc.dev => dev'[s].in_use = dev[s].in_use)
        /\ btc.dev \in Slots /\ ~dev'[btc.dev].in_use
    BY <1>0, <1>4, MarkedDevices DEF Close
  <2> QED BY <1>4, <2>1 DEF Listed
<1>5. CASE OpenEvt
  <2>1. CASE UNCHANGED <<dev, list>>
    BY <2>1 DEF Listed
  <2>2. ASSUME NEW r \in Slots, Ctor(r, Head(btq).bda)
        PROVE  /\ Listed(s) => s # r /\ Same(s)
               /\ Listed(s)' <=> Listed(s) \/ s = r
               /\ dev'[r].in_use
    <3>1. Head(btq).bda \in Bdas
      BY <1>0, <1>5, TakeIs DEF OpenEvt
    <3> QED BY <1>0, <2>2, <3>1, ClosedKept
  <2>3. UNCHANGED <<dev, list>> \/ \E r \in Slots : Ctor(r, Head(btq).bda)
    BY <1>5 DEF OpenEvt
  <2> QED BY <2>1, <2>2, <2>3 DEF Same
<1>6. CASE AppCtor
  <2>1. CASE UNCHANGED <<dev, list>>
    BY <2>1 DEF Listed
  <2>2. ASSUME NEW r \in Slots, Ctor(r, app.op)
        PROVE  /\ Listed(s) => s # r /\ Same(s)
               /\ Listed(s)' <=> Listed(s) \/ s = r
               /\ dev'[r].in_use
    <3>1. app.op \in Bdas
      BY <1>0, <1>6 DEF AppCtor, TypeInv, TaskType, AppType
    <3> QED BY <1>0, <2>2, <3>1, ClosedKept
  <2>3. UNCHANGED <<dev, list>> \/ \E r \in Slots : Ctor(r, app.op)
    BY <1>6 DEF AppCtor
  <2> QED BY <2>1, <2>2, <2>3 DEF Same
<1>7. CASE FreeDevice
  <2>1. CASE UNCHANGED <<dev, list>>
    BY <2>1 DEF Listed
  <2>2. CASE /\ \A r \in Slots \ {evt.dev} : Same(r)
             /\ \A r \in Slots : Listed(r)' <=> Listed(r) /\ r # evt.dev
    BY <1>7, <2>2 DEF Same
  <2> QED BY <1>0, <1>7, <2>1, <2>2, FreeSets
<1> QED BY <1>1, <1>2, <1>3, <1>4, <1>5, <1>6, <1>7 DEF Moves

\* A device closes when the CLOSE_EVT at the head is its own, the last of its link.
LEMMA ClosedStep ==
    ASSUME BtInv, Clean, Clean', Next \/ UNCHANGED vars, ~Reboot
    PROVE  ClosedInv'
<1>0. TypeInv /\ StackInv /\ ClosedInv /\ CallbackInv
  BY DEF BtInv, CleanInv
<1> SUFFICES ASSUME NEW s \in Slots, Listed(s)', ~dev'[s].in_use
             PROVE  \E b \in Bdas : dev'[s].handle = b /\ QuietBehind(0, b)'
  BY DEF ClosedInv
<1>1. CASE Listed(s) /\ ~dev[s].in_use /\ dev'[s].handle = dev[s].handle
  <2>1. PICK b \in Bdas : dev[s].handle = b /\ QuietBehind(0, b)
    BY <1>0, <1>1 DEF ClosedInv
  <2>2. ~(OpenEvt /\ Head(btq).bda = b)
    BY <1>1, <2>1, ClosedIsDeaf
  <2> QED BY <1>0, <1>1, <2>1, <2>2, QuietStep
<1>2. CASE Close /\ s = btc.dev
  <2>1. PICK b \in Bdas : btc.ev.bda = b /\ dev[s].handle = b /\ QuietBehind(0, b)
    BY <1>0, <1>2 DEF Close, At, CallbackInv, Found, Working, WorksOn
  <2>2. QuietBehind(0, b)'
    <3>1. btc.pc # "idle"
      BY <1>2 DEF Close, At
    <3>2. ~OpenEvt
      BY <3>1 DEF OpenEvt, Take
    <3> QED BY <1>0, <2>1, <3>2, QuietStep
  <2>3. dev'[s].handle = dev[s].handle
    BY <1>0, <1>2, MarkedDevices
  <2> QED BY <2>1, <2>2, <2>3
<1> QED BY <1>1, <1>2, ClosedDevices

-----------------------------------------------------------------------------
(* A device that has closed is freed once.                                 *)

\* What esp_hh_cb posts.
LEMMA PostedIs ==
    ASSUME TypeInv, Btc, btc'.pc = "post"
    PROVE  \/ CloseEvt /\ btc'.out.e = "close" /\ btc'.out.dev = "none"
           \/ /\ btc'.out.dev = btc.dev /\ btc'.dev = btc.dev
              /\ \/ OpenFailed /\ btc'.out.e = "open" /\ ~btc'.out.ok
                 \/ Status /\ btc'.out.e = "open" /\ btc'.out.ok
                 \/ Close /\ btc'.out.e = "close"
                 \/ Answer /\ btc'.out.e = "feature"
                 \/ Data /\ btc'.out.e = "input"
<1>0. TaskType /\ btc \in Callback /\ btc.dev \in Slots \cup Unset
  BY BtcIs DEF TypeInv, TaskType, BtcType
<1>1. CASE OpenEvt \/ DscpEvt \/ AddDevEvt \/ AnswerEvt \/ DataEvt
  <2>1. \/ \E p \in {"open", "fail", "dequeue", "exists", "add", "answer", "data"} : btc'.pc = p
        \/ btc' = Idle
    BY <1>1 DEF OpenEvt, DscpEvt, AddDevEvt, AnswerEvt, DataEvt, Goto
  <2> QED BY <2>1, IdleIs
<1>2. CASE CloseEvt
  <2>1. CASE btc' = [Idle EXCEPT !.pc = "post", !.out = Told("close", "none", FALSE)]
    <3>1. btc'.out = Told("close", "none", FALSE)
      BY <2>1 DEF Idle
    <3> QED BY <1>2, <3>1 DEF Told
  <2>2. CASE Goto("close", Head(btq), ByHandle(Head(btq).bda), FALSE)
    BY <2>2 DEF Goto
  <2> QED BY <1>2, <2>1, <2>2 DEF CloseEvt
<1>3. CASE OpenLink \/ DscpExists \/ Describe \/ AddDev \/ ResetTrans
  <2>1. \/ \E p \in {"status", "fail", "describe"} : btc'.pc = p
        \/ btc' = Idle
    BY <1>0, <1>3 DEF OpenLink, DscpExists, Describe, AddDev, ResetTrans, Callback
  <2> QED BY <2>1, IdleIs
<1>4. CASE OpenFailed
  <2>1. Post(Told("open", btc.dev, FALSE))
    BY <1>4, IdleIs DEF OpenFailed, Failed
  <2>2. btc'.out = Told("open", btc.dev, FALSE) /\ btc'.dev = btc.dev
    BY <1>0, <2>1, MessagesAre, PostIs
  <2> QED BY <1>4, <2>2 DEF Told
<1>5. CASE Status
  <2>1. Post(Told("open", btc.dev, TRUE))
    BY <1>5, IdleIs DEF Status, Failed
  <2>2. btc'.out = Told("open", btc.dev, TRUE) /\ btc'.dev = btc.dev
    BY <1>0, <2>1, MessagesAre, PostIs
  <2> QED BY <1>5, <2>2 DEF Told
<1>6. CASE Close
  <2>1. Post(Told("close", btc.dev, FALSE))
    BY <1>6, IdleIs DEF Close, Failed
  <2>2. btc'.out = Told("close", btc.dev, FALSE) /\ btc'.dev = btc.dev
    BY <1>0, <2>1, MessagesAre, PostIs
  <2> QED BY <1>6, <2>2 DEF Told
<1>7. CASE Data
  <2>1. Post(Told("input", btc.dev, FALSE))
    BY <1>7, IdleIs DEF Data, Failed
  <2>2. btc'.out = Told("input", btc.dev, FALSE) /\ btc'.dev = btc.dev
    BY <1>0, <2>1, MessagesAre, PostIs
  <2> QED BY <1>7, <2>2 DEF Told
<1>8. CASE Answer
  <2>1. CASE Post(Feature(btc.ev, btc.dev))
    <3>1. Feature(btc.ev, btc.dev) \in Message
      BY <1>8, FeatureIs DEF Answer, At
    <3>2. btc'.out = Feature(btc.ev, btc.dev) /\ btc'.dev = btc.dev
      BY <1>0, <2>1, <3>1, PostIs
    <3> QED BY <1>8, <3>2 DEF Feature
  <2>2. CASE btc' = [btc EXCEPT !.pc = "reset"]
    BY <1>0, <2>2 DEF Callback
  <2> QED BY <1>8, <2>1, <2>2 DEF Answer
<1>9. CASE PostEvent
  <2>1. \/ btc' = [btc EXCEPT !.pc = "status", !.out = NoPost]
        \/ btc' = [btc EXCEPT !.pc = "reset", !.out = NoPost]
        \/ btc' = Idle
    BY <1>9 DEF PostEvent
  <2> QED BY <1>0, <2>1, IdleIs DEF Callback
<1> QED BY <1>1, <1>2, <1>3, <1>4, <1>5, <1>6, <1>7, <1>8, <1>9 DEF Btc

\* Only CLOSE_EVT has a device freed.
LEMMA PostingStep ==
    ASSUME BtInv, Clean, Clean', Next \/ UNCHANGED vars, ~Reboot, NEW s \in Slots, Posting(s)'
    PROVE  (Posting(s) /\ UNCHANGED btc) \/ (Close /\ s = btc.dev)
<1>0. TypeInv /\ s # "none" /\ btc'.pc = "post" /\ Frees(btc'.out, s)
  BY BtAssumption DEF BtInv, Posting, Frees
<1>1. CASE Btc
  <2>1. CASE OpenFailed /\ btc'.out.dev = btc.dev
    <3>1. "failed" \notin odd'
      BY DEF Clean
    <3>2. btc.dev = "none"
      BY <2>1, <3>1 DEF OpenFailed
    <3> QED BY <1>0, <2>1, <3>2 DEF Frees
  <2>2. CASE ~(OpenFailed /\ btc'.out.dev = btc.dev)
    BY <1>0, <1>1, <2>2, PostedIs DEF Frees
  <2> QED BY <2>1, <2>2
<1>2. CASE UNCHANGED btc
  BY <1>2 DEF Posting
<1> QED BY <1>1, <1>2, Frames

\* The event that frees a device is posted once, and the device is not used again.
LEMMA FreeStep ==
    ASSUME BtInv, Clean, Clean', Next \/ UNCHANGED vars, ~Reboot
    PROVE  FreeInv'
<1>0. /\ TypeInv /\ FreeInv /\ CallbackInv
      /\ queue \in Seq(Message) /\ Len(queue) \in Nat
      /\ \A i \in DOMAIN queue : i \in Nat /\ i >= 1 /\ i <= Len(queue)
  BY DEF BtInv, CleanInv, TypeInv, QueueType
<1>1. CASE PostEvent
  <2>1. /\ btc.pc = "post" /\ queue' = Append(queue, btc.out) /\ UNCHANGED <<dev, list, evt>>
        /\ btc'.pc # "post"
    <3>1. \/ btc' = [btc EXCEPT !.pc = "status", !.out = NoPost]
          \/ btc' = [btc EXCEPT !.pc = "reset", !.out = NoPost]
          \/ btc' = Idle
      BY <1>1 DEF PostEvent
    <3>2. btc \in Callback
      BY <1>0 DEF TypeInv, TaskType, BtcType
    <3>3. btc'.pc # "post"
      BY <3>1, <3>2, IdleIs DEF Callback
    <3> QED BY <1>1, <3>3 DEF PostEvent, restOfBtc, taskVars
  <2>2. /\ \A i \in DOMAIN queue : i \in DOMAIN queue' /\ queue'[i] = queue[i]
        /\ \A i \in DOMAIN queue' : i \in DOMAIN queue \/ i = Len(queue) + 1
        /\ queue'[Len(queue) + 1] = btc.out
    BY <1>0, <2>1
  <2> SUFFICES ASSUME NEW s \in Slots
               PROVE  /\ (\E i \in DOMAIN queue' : Frees(queue'[i], s)) \/ Freeing(s)' => Listed(s)' /\ ~dev'[s].in_use
                      /\ \A i, j \in DOMAIN queue' : Frees(queue'[i], s) /\ Frees(queue'[j], s) => i = j
                      /\ Freeing(s)' => \A i \in DOMAIN queue' : ~Frees(queue'[i], s)
    BY <2>1 DEF FreeInv, Posting, Frees
  <2>3. \A i \in DOMAIN queue' : Frees(queue'[i], s) =>
            (i \in DOMAIN queue /\ Frees(queue[i], s)) \/ (i = Len(queue) + 1 /\ Posting(s))
    BY <2>1, <2>2 DEF Posting
  <2>4. (Listed(s)' <=> Listed(s)) /\ dev'[s] = dev[s] /\ (Freeing(s)' <=> Freeing(s))
    BY <2>1 DEF Listed, Freeing
  <2>5. /\ (\E i \in DOMAIN queue : Frees(queue[i], s)) \/ Posting(s) \/ Freeing(s) =>
              Listed(s) /\ ~dev[s].in_use
        /\ \A i, j \in DOMAIN queue : Frees(queue[i], s) /\ Frees(queue[j], s) => i = j
        /\ Freeing(s) \/ Posting(s) => \A i \in DOMAIN queue : ~Frees(queue[i], s)
        /\ ~(Freeing(s) /\ Posting(s))
    BY <1>0 DEF FreeInv
  <2> QED BY <2>3, <2>4, <2>5
<1>2. CASE TakeEvent
  <2>1. /\ evt.pc = "idle" /\ queue # <<>> /\ queue' = Tail(queue) /\ UNCHANGED <<dev, list, btc>>
        /\ Head(queue) = queue[1] /\ 1 \in DOMAIN queue
    BY <1>0, <1>2 DEF TakeEvent, memVars, restOfEvt
  <2>2. /\ \A i \in DOMAIN queue' : i \in Nat /\ i >= 1 /\ i + 1 \in DOMAIN queue /\ queue'[i] = queue[i + 1]
    BY <1>0, <2>1
  <2> SUFFICES ASSUME NEW s \in Slots
               PROVE  /\ (\E i \in DOMAIN queue' : Frees(queue'[i], s)) \/ Posting(s)' \/ Freeing(s)' =>
                            Listed(s)' /\ ~dev'[s].in_use
                      /\ \A i, j \in DOMAIN queue' : Frees(queue'[i], s) /\ Frees(queue'[j], s) => i = j
                      /\ Freeing(s)' \/ Posting(s)' => \A i \in DOMAIN queue' : ~Frees(queue'[i], s)
                      /\ ~(Freeing(s)' /\ Posting(s)')
    BY DEF FreeInv, Frees
  <2>3. Freeing(s)' => Frees(queue[1], s)
    <3>1. s # "none"
      BY BtAssumption
    <3> QED BY <1>2, <2>1, <3>1 DEF TakeEvent, Freeing, Frees, Resting
  <2>4. (Listed(s)' <=> Listed(s)) /\ dev'[s] = dev[s] /\ (Posting(s)' <=> Posting(s))
    BY <2>1 DEF Listed, Posting
  <2>5. /\ (\E i \in DOMAIN queue : Frees(queue[i], s)) \/ Posting(s) => Listed(s) /\ ~dev[s].in_use
        /\ \A i, j \in DOMAIN queue : Frees(queue[i], s) /\ Frees(queue[j], s) => i = j
        /\ Posting(s) => \A i \in DOMAIN queue : ~Frees(queue[i], s)
    BY <1>0 DEF FreeInv
  <2>6. \A i \in DOMAIN queue' : Frees(queue'[i], s) => i + 1 \in DOMAIN queue /\ Frees(queue[i + 1], s) /\ ~Frees(queue[1], s)
    BY <2>1, <2>2, <2>5
  <2>7. \A i, j \in DOMAIN queue' : Frees(queue'[i], s) /\ Frees(queue'[j], s) => i = j
    <3> TAKE i, j \in DOMAIN queue'
    <3> HAVE Frees(queue'[i], s) /\ Frees(queue'[j], s)
    <3>1. i + 1 = j + 1 /\ i \in Nat /\ j \in Nat
      BY <2>2, <2>5, <2>6
    <3> QED BY <3>1
  <2> QED BY <2>1, <2>3, <2>4, <2>5, <2>6, <2>7
<1>3. CASE FreeDevice
  <2>1. evt.pc = "free" /\ UNCHANGED <<queue, btc>> /\ evt'.pc # "free" /\ evt.dev \in Slots
    BY <1>0, <1>3 DEF FreeDevice, restOfEvt, Resting, TypeInv, TaskType, EvtType
  <2>2. \A s \in Slots : ~Freeing(s)' /\ (Posting(s)' <=> Posting(s))
    BY <2>1 DEF Freeing, Posting
  <2>3. \A s \in Slots : Listed(s) /\ ~dev[s].in_use => (Listed(s)' /\ ~dev'[s].in_use) \/ s = evt.dev
    BY ClosedDevices
  <2>4. /\ ~Posting(evt.dev) /\ \A i \in DOMAIN queue : ~Frees(queue[i], evt.dev)
    BY <1>0, <2>1 DEF FreeInv, Freeing
  <2> QED BY <1>0, <2>1, <2>2, <2>3, <2>4 DEF FreeInv, Frees
<1>4. CASE Close
  <2>1. UNCHANGED <<list, queue, evt>> /\ btc.pc = "close" /\ Post(Told("close", btc.dev, FALSE))
    BY <1>4 DEF Close, At, restOfBtc, taskVars
  <2>2. PICK d \in Slots : d = btc.dev
    BY <1>4 DEF Close, At
  <2>3. Listed(d) /\ dev[d].in_use
    BY <1>0, <2>1, <2>2 DEF CallbackInv, Found, Working, WorksOn
  <2>4. Listed(d)' /\ ~dev'[d].in_use
    BY <1>0, <1>4, <2>1, <2>2, <2>3, MarkedDevices DEF Listed
  <2>5. ~FreeDevice
    <3>1. btc'.pc = "post"
      BY <1>0, <2>1, <2>2, MessagesAre, PostIs DEF TypeInv
    <3> QED BY <2>1, <3>1 DEF FreeDevice, restOfEvt
  <2>6. \A s \in Slots : Listed(s) /\ ~dev[s].in_use => Listed(s)' /\ ~dev'[s].in_use
    BY <2>5, ClosedDevices
  <2>7. ~Freeing(d) /\ \A i \in DOMAIN queue : ~Frees(queue[i], d)
    BY <1>0, <2>3 DEF FreeInv
  <2>8. \A s \in Slots : (Posting(s)' => Posting(s) \/ s = d) /\ (Freeing(s)' <=> Freeing(s))
    BY <2>1, <2>2, PostingStep DEF Freeing
  <2> QED BY <1>0, <2>1, <2>4, <2>6, <2>7, <2>8 DEF FreeInv, Frees
<1>5. CASE ~(PostEvent \/ TakeEvent \/ FreeDevice \/ Close)
  <2>1. UNCHANGED <<queue, evt>>
    BY <1>5, Frames
  <2>2. \A s \in Slots : Listed(s) /\ ~dev[s].in_use => Listed(s)' /\ ~dev'[s].in_use
    BY <1>5, ClosedDevices
  <2>3. \A s \in Slots : (Posting(s)' => Posting(s)) /\ (Freeing(s)' <=> Freeing(s))
    BY <1>5, <2>1, PostingStep DEF Freeing
  <2> QED BY <1>0, <2>1, <2>2, <2>3 DEF FreeInv, Frees
<1> QED BY <1>1, <1>2, <1>3, <1>4, <1>5

-----------------------------------------------------------------------------
(* The device that esp_hh_cb has found.                                    *)

\* A device that is in use stays in the list, and first of its address if it is.
LEMMA InUseStep ==
    ASSUME BtInv, Clean, Clean', Next \/ UNCHANGED vars, ~Reboot,
           NEW s \in Slots, Listed(s), dev[s].in_use
    PROVE  /\ Listed(s)' /\ dev'[s].bda = dev[s].bda
           /\ (Close /\ s = btc.dev) \/ dev'[s].in_use
           /\ (OpenLink /\ s = btc.dev) \/ dev'[s].handle = dev[s].handle
           /\ IsFirst(s) => IsFirst(s)'
<1> USE DEF restOfBtc, restOfApp
<1>0. TypeInv /\ ListInv /\ FreeInv /\ QueueType
  BY DEF BtInv, CleanInv, TypeInv
<1>1. CASE ~Moves
  <2>1. /\ UNCHANGED list /\ \A r \in Slots : Same(r)
    BY <1>0, <1>1, DevicesStep
  <2> QED BY <1>0, <2>1, FirstKept DEF Same, Listed
<1>2. CASE OpenLink
  <2>1. /\ \A r \in Slots \ {btc.dev} : Same(r)
        /\ dev'[btc.dev].bda = dev[btc.dev].bda
        /\ dev'[btc.dev].in_use = dev[btc.dev].in_use /\ UNCHANGED list
    BY <1>0, <1>2, MarkedDevices DEF OpenLink
  <2>2. \A r \in Slots : dev'[r].bda = dev[r].bda
    BY <2>1 DEF Same
  <2> QED BY <1>0, <1>2, <2>1, <2>2, FirstKept DEF Same, Listed
<1>3. CASE OpenFailed
  <2>1. "failed" \notin odd'
    BY DEF Clean
  <2>2. UNCHANGED <<dev, list>>
    BY <1>3, <2>1 DEF OpenFailed
  <2> QED BY <1>0, <2>2, FirstKept DEF Listed
<1>4. CASE Close
  <2>1. UNCHANGED list
        /\ \A r \in Slots :
              /\ dev'[r].bda = dev[r].bda /\ dev'[r].handle = dev[r].handle
              /\ (r # btc.dev => dev'[r].in_use = dev[r].in_use)
    BY <1>0, <1>4, MarkedDevices DEF Close
  <2> QED BY <1>0, <1>4, <2>1, FirstKept DEF Listed
<1>5. CASE OpenEvt
  <2>1. CASE UNCHANGED <<dev, list>>
    BY <1>0, <2>1, FirstKept DEF Listed
  <2>2. ASSUME NEW r \in Slots, Ctor(r, Head(btq).bda)
        PROVE  Listed(s)' /\ Same(s) /\ (IsFirst(s) => IsFirst(s)')
    <3>1. Head(btq).bda \in Bdas
      BY <1>0, <1>5, TakeIs DEF OpenEvt
    <3> QED BY <1>0, <2>2, <3>1, ClosedKept, FirstCtor
  <2>3. UNCHANGED <<dev, list>> \/ \E r \in Slots : Ctor(r, Head(btq).bda)
    BY <1>5 DEF OpenEvt
  <2> QED BY <2>1, <2>2, <2>3 DEF Same
<1>6. CASE AppCtor
  <2>1. CASE UNCHANGED <<dev, list>>
    BY <1>0, <2>1, FirstKept DEF Listed
  <2>2. ASSUME NEW r \in Slots, Ctor(r, app.op)
        PROVE  Listed(s)' /\ Same(s) /\ (IsFirst(s) => IsFirst(s)')
    <3>1. app.op \in Bdas
      BY <1>0, <1>6 DEF AppCtor, TypeInv, TaskType, AppType
    <3> QED BY <1>0, <2>2, <3>1, ClosedKept, FirstCtor
  <2>3. UNCHANGED <<dev, list>> \/ \E r \in Slots : Ctor(r, app.op)
    BY <1>6 DEF AppCtor
  <2> QED BY <2>1, <2>2, <2>3 DEF Same
<1>7. CASE FreeDevice
  <2>1. s # evt.dev
    BY <1>0, <1>7, FreeSets DEF FreeInv, Freeing
  <2>2. IsFirst(s) => IsFirst(s)'
    BY <1>0, <1>7, <2>1, FirstFree
  <2>3. CASE UNCHANGED <<dev, list>>
    BY <2>2, <2>3 DEF Listed
  <2>4. CASE /\ \A r \in Slots \ {evt.dev} : Same(r)
             /\ \A r \in Slots : Listed(r)' <=> Listed(r) /\ r # evt.dev
    BY <2>1, <2>2, <2>4 DEF Same
  <2> QED BY <1>0, <1>7, <2>3, <2>4, FreeSets
<1> QED BY <1>1, <1>2, <1>3, <1>4, <1>5, <1>6, <1>7 DEF Moves

\* The other tasks do not pull it away.
LEMMA CallbackKept ==
    ASSUME BtInv, Clean, Clean', Next \/ UNCHANGED vars, ~Reboot, ~Btc
    PROVE  CallbackInv'
<1>0. TypeInv /\ ListInv /\ StackInv /\ FreeInv /\ CallbackInv
  BY DEF BtInv, CleanInv
<1>1. /\ UNCHANGED btc
      /\ UNCHANGED crashed \/ \E t \in {"btc", "app", "tmr"} : TouchesFreed(t)
      /\ dangling' \subseteq dangling \/ FreeDevice
  <2>1. dangling' \subseteq dangling \/ FreeDevice
    <3> USE DEF memVars, taskVars, stackVars, restOfEvt, restOfApp, restOfTmr, restOfStack
    <3>1. CASE Evt \/ Tmr
      BY <3>1 DEF Evt, TakeEvent, Tmr, TimerReset, TimerFire, Forget
    <3>2. CASE UNCHANGED vars \/ \E t \in {"btc", "app", "tmr"} : TouchesFreed(t)
      BY <3>2 DEF TouchesFreed, vars
    <3>3. CASE App
      BY <3>3 DEF App, AppOpen, AppOpenDev, AppCtor, AppConnect, AppCall, AppRequest, Forget
    <3>4. CASE Stack
      BY <3>4 DEF Stack, StackOpen, StackDescribe, StackAdd, StackClose, StackAnswer, StackLoses,
                  StackData
    <3> QED BY <3>1, <3>2, <3>3, <3>4 DEF Next
  <2> QED BY <2>1, Frames
<1>2. crashed' # "btc"
  <2>1. ASSUME NEW t \in {"btc", "app", "tmr"}, TouchesFreed(t)
        PROVE  crashed' # "btc"
    <3>1. CASE t = "btc"
      <4>1. "btc" \in dangling /\ btc.pc \notin {"idle", "post", "exists"}
        BY <2>1, <3>1 DEF TouchesFreed
      <4>2. btc.pc \in Steps
        BY <1>0 DEF TypeInv, TaskType, BtcType, Callback
      <4> QED BY <1>0, <4>1, <4>2 DEF CallbackInv, Found, Steps
    <3>2. CASE t # "btc"
      BY <2>1, <3>2 DEF TouchesFreed
    <3> QED BY <3>1, <3>2
  <2> QED BY <1>0, <1>1, <2>1 DEF CallbackInv
<1>3. ASSUME Found
      PROVE  \E d \in Slots : btc.dev = d /\ WorksOn(d)'
  <2>1. PICK d \in Slots : btc.dev = d /\ WorksOn(d)
    BY <1>0, <1>3 DEF CallbackInv
  <2>2. /\ Listed(d)' /\ dev'[d].bda = dev[d].bda /\ dev'[d].in_use /\ dev'[d].handle = dev[d].handle
        /\ IsFirst(d) => IsFirst(d)'
    BY <2>1, InUseStep DEF WorksOn, Btc
  <2>3. ASSUME NEW b \in Bdas, QuietBehind(0, b) PROVE QuietBehind(0, b)'
    BY <1>0, <2>3, QuietStep DEF Btc
  <2> QED BY <1>1, <2>1, <2>2, <2>3 DEF WorksOn
<1>4. ASSUME Found \/ btc.pc \in {"fail", "dequeue"}
      PROVE  "btc" \notin dangling'
  <2>1. "btc" \notin dangling
    BY <1>0, <1>4 DEF CallbackInv
  <2>2. CASE FreeDevice
    <3>1. dangling' \subseteq dangling \cup {t \in {"btc", "app", "tmr"} : Pointer(t) = evt.dev}
      BY <1>0, <2>2, FreeSets
    <3>2. Freeing(evt.dev) /\ evt.dev \in Slots
      BY <1>0, <2>2 DEF FreeDevice, Freeing, TypeInv, TaskType, EvtType
    <3>3. btc.dev # evt.dev
      <4>1. CASE Found
        <5>1. PICK d \in Slots : btc.dev = d /\ dev[d].in_use
          BY <1>0, <4>1 DEF CallbackInv, WorksOn
        <5> QED BY <1>0, <3>2, <5>1 DEF FreeInv
      <4>2. CASE ~Found
        <5>1. btc.dev = "none"
          BY <1>0, <1>4, <4>2 DEF CallbackInv, Found
        <5> QED BY <5>1, <3>2, BtAssumption
      <4> QED BY <4>1, <4>2
    <3> QED BY <2>1, <3>1, <3>3 DEF Pointer
  <2>3. CASE dangling' \subseteq dangling
    BY <2>1, <2>3
  <2> QED BY <1>1, <2>2, <2>3
<1>5. (Found' <=> Found) /\ btc' = btc
  BY <1>1 DEF Found
<1> QED BY <1>0, <1>2, <1>3, <1>4, <1>5 DEF CallbackInv

\* A step of esp_hh_cb is not a crash, and leaves no other task with freed memory.
LEMMA BtcFrame ==
    ASSUME Btc
    PROVE  /\ UNCHANGED crashed
           /\ dangling' = dangling \/ dangling' = dangling \ {"btc"}
<1> USE DEF restOfBtc, taskVars, stackVars
<1>1. CASE OpenEvt \/ OpenLink \/ OpenFailed \/ Status \/ PostEvent \/ DscpEvt \/ DscpExists \/ Describe
  BY <1>1 DEF OpenEvt, OpenLink, OpenFailed, Status, PostEvent, DscpEvt, DscpExists, Describe, Take, Forget
<1>2. CASE \/ AddDevEvt \/ AddDev \/ CloseEvt \/ Close \/ AnswerEvt \/ Answer \/ ResetTrans
           \/ DataEvt \/ Data
  BY <1>2 DEF AddDevEvt, AddDev, CloseEvt, Close, AnswerEvt, Answer, ResetTrans, DataEvt, Data, Take, Forget
<1> QED BY <1>1, <1>2 DEF Btc

\* The step goes on with a device in use.
LEMMA GoesOn ==
    ASSUME BtInv, Clean, Clean', Next, ~Reboot, Btc, ~Close, NEW d \in Slots,
           Listed(d), dev[d].in_use, btc'.dev = d, "btc" \notin dangling',
           btc'.pc \notin {"open", "close", "dequeue"},
           ~(btc'.pc = "post" /\ btc'.out.e = "open" /\ ~btc'.out.ok)
    PROVE  CallbackInv'
<1>1. Listed(d)' /\ dev'[d].in_use
  BY InUseStep
<1>2. crashed' # "btc"
  BY BtcFrame DEF BtInv, CleanInv, CallbackInv
<1> QED BY <1>1, <1>2 DEF CallbackInv, Found, WorksOn

\* Or it needs none.
LEMMA GoesIdle ==
    ASSUME BtInv, Clean, Btc, btc'.pc \in {"idle", "exists", "post"},
           btc'.pc = "post" => btc'.out.e # "feature" /\ ~(btc'.out.e = "open" /\ ~btc'.out.ok)
    PROVE  CallbackInv'
<1>1. crashed' # "btc"
  BY BtcFrame DEF BtInv, CleanInv, CallbackInv
<1> QED BY <1>1 DEF CallbackInv, Found, Working

\* The device that an event is for is in use: a device that has closed hears nothing.
LEMMA HeardIs ==
    ASSUME BtInv, Clean, Clean', NEW k \in {"close", "answer", "data"}, Take(k),
           ByHandle(Head(btq).bda) # "none"
    PROVE  \E d \in Slots, b \in Bdas :
               /\ ByHandle(Head(btq).bda) = d /\ Head(btq).bda = b /\ dev[d].handle = b
               /\ Listed(d) /\ dev[d].in_use
<1>1. DeviceType /\ QueueType /\ ClosedInv
  BY DEF BtInv, TypeInv, CleanInv
<1>2. Head(btq).bda \in Bdas /\ Head(btq) = btq[1] /\ Head(btq).k = k /\ btq # <<>>
  BY <1>1, TakeIs DEF Take
<1>3. PICK d \in Slots : ByHandle(Head(btq).bda) = d /\ Listed(d) /\ dev[d].handle = Head(btq).bda
  BY <1>1, <1>2, ByHandleIs
<1>4. ASSUME ~dev[d].in_use PROVE FALSE
  <2>1. PICK b \in Bdas : dev[d].handle = b /\ QuietBehind(0, b)
    BY <1>1, <1>3, <1>4 DEF ClosedInv
  <2> QED BY <1>1, <1>2, <1>3, <2>1, QuietSkip
<1> QED BY <1>2, <1>3, <1>4

\* OPEN_EVT, of a device that is known or is made.
LEMMA OpenEvtFinds ==
    ASSUME BtInv, Clean, Clean', Next, ~Reboot, OpenEvt
    PROVE  CallbackInv'
<1>0. TypeInv /\ ListInv /\ DeviceType /\ QueueType /\ Head(btq).bda \in Bdas /\ "closing" \notin odd'
      /\ Btc /\ "none" \notin Slots
  BY TakeIs, BtAssumption DEF BtInv, TypeInv, OpenEvt, Clean, Btc
<1>1. crashed' # "btc" /\ "btc" \notin dangling'
  BY <1>0, BtcFrame DEF BtInv, CleanInv, CallbackInv, OpenEvt, Take, Forget
<1> DEFINE ev == Head(btq)
           step == IF ev.ok THEN "open" ELSE "fail"
<1>2. CASE ByBda(ev.bda) # "none" /\ Goto(step, ev, ByBda(ev.bda), ev.ok)
  <2>1. PICK d \in Slots : ByBda(ev.bda) = d /\ Listed(d) /\ IsFirst(d) /\ dev[d].bda = ev.bda
    BY <1>0, <1>2, ByBdaIs
  <2>2. dev[d].in_use
    BY <1>0, <2>1 DEF OpenEvt, Closing
  <2>3. Listed(d)' /\ dev'[d].in_use /\ dev'[d].bda = ev.bda /\ IsFirst(d)'
    <3>1. btc.pc = "idle"
      BY DEF OpenEvt, Take
    <3>2. ~Close
      BY <3>1 DEF Close, At
    <3> QED BY <2>1, <2>2, <3>2, InUseStep
  <2>4. btc'.dev = d /\ btc'.pc \in {"open", "fail"} /\ btc'.ev = ev
    BY <1>2, <2>1 DEF Goto
  <2> QED BY <1>1, <2>3, <2>4 DEF CallbackInv, Found, WorksOn
<1>3. CASE Goto("fail", ev, "none", FALSE)
  <2>1. btc'.dev = "none" /\ btc'.pc = "fail"
    BY <1>3 DEF Goto
  <2> QED BY <1>1, <2>1 DEF CallbackInv, Found, Working
<1>4. ASSUME NEW s \in Slots, ByBda(ev.bda) = "none", Ctor(s, ev.bda), Goto(step, ev, s, ev.ok)
      PROVE  CallbackInv'
  <2>1. /\ Listed(s)' /\ dev'[s].in_use /\ dev'[s].bda = ev.bda
        /\ list \in Seq(Slots) /\ list' \in Seq(Slots)
        /\ Len(list') = Len(list) + 1 /\ list'[Len(list) + 1] = s
        /\ \A i \in DOMAIN list : list'[i] = list[i]
        /\ ~Listed(s) /\ \A r \in Slots \ {s} : Same(r)
    BY <1>0, <1>4, CtorSets DEF DeviceType
  <2>2. \A r \in Slots : Listed(r) => dev[r].bda # ev.bda
    BY <1>0, <1>4, ByBdaIs
  <2>3. ASSUME NEW j \in 1 .. Len(list)
        PROVE  dev'[list'[j]].bda # dev'[s].bda
    <3>1. list[j] \in Slots /\ Listed(list[j]) /\ list'[j] = list[j] /\ list[j] # s
      BY <2>1 DEF Listed, ToSet
    <3> QED BY <2>1, <2>2, <3>1 DEF Same
  <2>4. IsFirst(s)'
    <3>1. Len(list) + 1 \in DOMAIN list' /\ (Len(list) + 1) - 1 = Len(list)
      BY <2>1
    <3> QED BY <2>1, <2>3, <3>1 DEF IsFirst
  <2>5. btc'.dev = s /\ btc'.pc \in {"open", "fail"} /\ btc'.ev = ev
    BY <1>4 DEF Goto
  <2> QED BY <1>1, <2>1, <2>4, <2>5 DEF CallbackInv, Found, WorksOn
<1> QED BY <1>2, <1>3, <1>4 DEF OpenEvt

\* CLOSE_EVT.
LEMMA CloseEvtFinds ==
    ASSUME BtInv, Clean, Clean', Next, ~Reboot, CloseEvt
    PROVE  CallbackInv'
<1>0. QueueType /\ StackInv /\ Btc /\ Take("close") /\ UNCHANGED <<dev, list, link>>
  BY DEF BtInv, TypeInv, CleanInv, CloseEvt, Btc, restOfBtc, stackVars
<1>1. crashed' # "btc" /\ "btc" \notin dangling'
  BY <1>0, BtcFrame DEF BtInv, CleanInv, CallbackInv, Take, Forget
<1>2. CASE ByHandle(Head(btq).bda) = "none"
  <2>1. btc' = [Idle EXCEPT !.pc = "post", !.out = Told("close", "none", FALSE)]
    BY <1>2 DEF CloseEvt
  <2>2. btc'.pc = "post" /\ btc'.out = Told("close", "none", FALSE)
    BY <2>1 DEF Idle
  <2>3. btc'.out.e = "close"
    BY <2>2 DEF Told
  <2> QED BY <1>0, <2>2, <2>3, GoesIdle
<1>3. CASE ByHandle(Head(btq).bda) # "none"
  <2>1. PICK d \in Slots, b \in Bdas :
               /\ ByHandle(Head(btq).bda) = d /\ Head(btq).bda = b /\ dev[d].handle = b
               /\ Listed(d) /\ dev[d].in_use
    BY <1>0, <1>3, HeardIs
  <2>2. btc'.dev = d /\ btc'.pc = "close" /\ btc'.ev.bda = b
    BY <1>3, <2>1 DEF CloseEvt, Goto
  <2>3. Head(btq) = btq[1] /\ 1 \in DOMAIN btq /\ btq[1].k = "close" /\ btq[1].bda = b
    BY <1>0, <2>1, TakeIs
  <2>4. QuietBehind(0 + 1, b)
    BY <1>0, <2>3 DEF StackInv
  <2>5. QuietBehind(0, b)'
    BY <1>0, <2>4, QuietTake DEF Take, Takes
  <2>6. Listed(d)' /\ dev'[d].in_use /\ dev'[d].handle = b
    BY <1>0, <2>1 DEF Listed
  <2> QED BY <1>1, <2>2, <2>5, <2>6 DEF CallbackInv, Found, WorksOn
<1> QED BY <1>2, <1>3

\* The step that esp_hh_cb takes next has a device that it may use.
LEMMA CallbackBtc ==
    ASSUME BtInv, Clean, Clean', Next, ~Reboot, Btc
    PROVE  CallbackInv'
<1> USE DEF restOfBtc
<1>0. /\ TypeInv /\ DeviceType /\ QueueType /\ TaskType /\ CallbackInv
      /\ "failed" \notin odd' /\ "closing" \notin odd' /\ btc.dev \in Slots \cup Unset
      /\ btc \in Callback /\ crashed' # "btc"
  BY BtcFrame, BtcIs DEF BtInv, CleanInv, TypeInv, Clean, CallbackInv, TaskType, BtcType
\* What is found is in use; what no device is needed for.
<1>1. ASSUME Found
      PROVE  /\ \E d \in Slots : btc.dev = d /\ Listed(d) /\ dev[d].in_use
             /\ "btc" \notin dangling'
  BY <1>0, <1>1, BtcFrame DEF CallbackInv, WorksOn
<1>2. ASSUME Found, btc'.dev = btc.dev, ~Close, btc'.pc \in {"status", "fail", "describe", "reset"}
      PROVE  CallbackInv'
  BY <1>1, <1>2, GoesOn
<1>3. ASSUME btc' = Idle
      PROVE  CallbackInv'
  BY <1>3, IdleIs, GoesIdle
<1>4. CASE OpenEvt \/ CloseEvt
  BY <1>4, OpenEvtFinds, CloseEvtFinds
<1>5. CASE OpenLink \/ Describe \/ AddDev
  <2>1. Found /\ ~Close
    BY <1>5 DEF OpenLink, Describe, AddDev, Close, At, Found, Working
  <2>2. \/ \E p \in {"status", "fail"} : btc' = [btc EXCEPT !.pc = p]
        \/ \E p \in {"status", "fail"}, good \in BOOLEAN : btc' = [btc EXCEPT !.pc = p, !.ok = good]
    <3>1. btc.ev.ok \in BOOLEAN
      BY <1>0, BtcIs
    <3> QED BY <1>5, <3>1 DEF OpenLink, Describe, AddDev
  <2>3. btc'.dev = btc.dev /\ btc'.pc \in {"status", "fail"}
    BY <1>0, <2>2 DEF Callback
  <2> QED BY <1>2, <2>1, <2>3
<1>6. CASE OpenFailed
  <2>1. btc.dev = "none" /\ Post(Told("open", "none", FALSE))
    BY <1>0, <1>6 DEF OpenFailed, Failed
  <2>2. btc'.pc = "post" /\ btc'.out = Told("open", "none", FALSE) /\ btc'.dev = "none"
    BY <1>0, <2>1, MessagesAre, PostIs DEF Unset
  <2>3. btc'.out.e = "open" /\ btc'.out.dev = "none"
    BY <2>2 DEF Told
  <2> QED BY <1>0, <2>2, <2>3 DEF CallbackInv, Found, Working
<1>7. CASE Status \/ Close \/ Data
  <2>1. CASE btc' = Idle
    BY <1>3, <2>1
  <2>2. CASE btc'.pc = "post"
    <3>1. /\ btc'.out.e \in {"open", "close", "input"} /\ (btc'.out.e = "open" => btc'.out.ok)
      <4>1. ~CloseEvt /\ ~OpenFailed /\ ~Answer
        BY <1>7 DEF Status, Close, Data, CloseEvt, Take, OpenFailed, Answer, At
      <4> QED BY <1>0, <2>2, <4>1, PostedIs
    <3> QED BY <2>2, <3>1, GoesIdle
  <2>3. btc' = Idle \/ btc'.pc = "post"
    <3>1. \/ btc' = Idle
          \/ \E e \in {"open", "close", "input"}, good \in BOOLEAN : Post(Told(e, btc.dev, good))
      BY <1>7 DEF Status, Close, Data
    <3> QED BY <1>0, <3>1, MessagesAre, PostIs
  <2> QED BY <2>1, <2>2, <2>3
<1>8. CASE PostEvent
  <2>1. CASE btc.out.e = "open" /\ ~btc.out.ok /\ btc.dev # "none"
    BY <1>0, <1>8, <2>1 DEF PostEvent, CallbackInv
  <2>2. CASE btc.out.e = "feature" /\ btc' = [btc EXCEPT !.pc = "reset", !.out = NoPost]
    <3>1. Found /\ ~Close
      BY <1>8, <2>2 DEF PostEvent, Found, Close, At
    <3>2. btc'.dev = btc.dev /\ btc'.pc = "reset"
      BY <1>0, <2>2 DEF Callback
    <3> QED BY <1>2, <3>1, <3>2
  <2>3. CASE btc' = Idle
    BY <1>3, <2>3
  <2> QED BY <1>8, <2>1, <2>2, <2>3 DEF PostEvent
<1>9. CASE DscpEvt
  <2>1. CASE Goto("dequeue", Head(btq), "none", FALSE)
    <3>1. btc'.pc = "dequeue" /\ btc'.dev = "none" /\ "btc" \notin dangling'
      BY <1>9, <2>1 DEF DscpEvt, Take, Forget, Goto
    <3> QED BY <1>0, <3>1 DEF CallbackInv, Found, Working
  <2>2. CASE Goto("exists", Head(btq), Head(cq), FALSE)
    BY <2>2, GoesIdle DEF Goto
  <2> QED BY <1>9, <2>1, <2>2 DEF DscpEvt
<1>10. CASE DscpExists
  <2>1. "btc" \notin dangling' /\ ~Close
    BY <1>10 DEF DscpExists, Forget, Close, At
  <2>2. CASE Listed(btc.dev)
    <3>1. btc.dev \in Slots /\ dev[btc.dev].in_use
      BY <1>0, <1>10, <2>2 DEF DscpExists, Closing, TaskType, BtcType
    <3>2. btc'.dev = btc.dev /\ btc'.pc = "describe"
      BY <1>0, <1>10, <2>2 DEF DscpExists, Callback
    <3> QED BY <2>1, <2>2, <3>1, <3>2, GoesOn
  <2>3. CASE ~Listed(btc.dev)
    <3>1. btc'.dev = "none" /\ btc'.pc = "fail"
      BY <1>0, <1>10, <2>3 DEF DscpExists, Callback
    <3> QED BY <1>0, <2>1, <3>1 DEF CallbackInv, Found, Working
  <2> QED BY <2>2, <2>3
<1>11. CASE AddDevEvt
  <2>1. "btc" \notin dangling' /\ ~Close /\ Head(btq).bda \in Bdas
    BY <1>0, <1>11, TakeIs DEF AddDevEvt, Take, Forget, Close, At
  <2>2. CASE ByHandle(Head(btq).bda) = "none"
    <3>1. btc'.dev = "none" /\ btc'.pc = "fail"
      BY <1>11, <2>2 DEF AddDevEvt, Goto
    <3> QED BY <1>0, <2>1, <3>1 DEF CallbackInv, Found, Working
  <2>3. CASE ByHandle(Head(btq).bda) # "none"
    <3>1. PICK d \in Slots : ByHandle(Head(btq).bda) = d /\ Listed(d)
      BY <1>0, <2>1, <2>3, ByHandleIs
    <3>2. dev[d].in_use
      BY <1>0, <1>11, <2>3, <3>1 DEF AddDevEvt, Closing
    <3>3. btc'.dev = d /\ btc'.pc = "add"
      BY <1>11, <2>3, <3>1 DEF AddDevEvt, Goto
    <3> QED BY <2>1, <3>1, <3>2, <3>3, GoesOn
  <2> QED BY <2>2, <2>3
<1>12. CASE AnswerEvt \/ DataEvt
  <2>1. PICK k \in {"answer", "data"} :
            /\ Take(k)
            /\ btc' = Idle \/ (ByHandle(Head(btq).bda) # "none" /\ Goto(k, Head(btq), ByHandle(Head(btq).bda), FALSE))
    BY <1>12 DEF AnswerEvt, DataEvt
  <2>2. CASE ByHandle(Head(btq).bda) # "none" /\ Goto(k, Head(btq), ByHandle(Head(btq).bda), FALSE)
    <3>1. PICK d \in Slots : ByHandle(Head(btq).bda) = d /\ Listed(d) /\ dev[d].in_use
      BY <2>1, <2>2, HeardIs
    <3>2. btc'.dev = d /\ btc'.pc = k
      BY <2>2, <3>1 DEF Goto
    <3>3. "btc" \notin dangling' /\ ~Close
      BY <2>1 DEF Take, Forget, Close, At
    <3> QED BY <3>1, <3>2, <3>3, GoesOn
  <2> QED BY <1>3, <2>1, <2>2
<1>13. CASE Answer
  <2>1. Found /\ ~Close
    BY <1>13 DEF Answer, Close, At, Found, Working
  <2>2. CASE btc' = [btc EXCEPT !.pc = "reset"]
    <3>1. btc'.dev = btc.dev /\ btc'.pc = "reset"
      BY <1>0, <2>2 DEF Callback
    <3> QED BY <1>2, <2>1, <3>1
  <2>3. CASE Post(Feature(btc.ev, btc.dev))
    <3>1. btc'.pc = "post" /\ btc'.dev = btc.dev /\ btc'.out = Feature(btc.ev, btc.dev)
      BY <1>0, <1>13, <2>3, FeatureIs, PostIs DEF Answer, At
    <3>2. btc'.out.e = "feature"
      BY <3>1 DEF Feature
    <3> QED BY <1>1, <2>1, <3>1, <3>2, GoesOn
  <2> QED BY <1>13, <2>2, <2>3 DEF Answer
<1>14. CASE ResetTrans
  BY <1>3, <1>14 DEF ResetTrans
<1> QED BY <1>4, <1>5, <1>6, <1>7, <1>8, <1>9, <1>10, <1>11, <1>12, <1>13, <1>14 DEF Btc

-----------------------------------------------------------------------------
(* The theorems.                                                           *)

\* After esp_bt_hidh_init the invariant holds.
LEMMA BtInit ==
    ASSUME Init
    PROVE  BtInv
<1>1. TypeInv
  BY BtInitTypes
<1>2. ListInv
  BY DEF Init, ListInv, Free, Listed, ToSet, Resting
<1>3. \A s \in Slots : ~Listed(s)
  BY DEF Init, Listed, ToSet
<1>4. HandleInv /\ StackInv /\ ClosedInv
  BY <1>3 DEF Init, HandleInv, StackInv, ClosedInv, Free
<1>5. FreeInv
  BY DEF Init, FreeInv, Posting, Freeing, Idle, Resting
<1>6. CallbackInv
  BY DEF Init, CallbackInv, Found, Working, Idle
<1> QED BY <1>1, <1>2, <1>4, <1>5, <1>6 DEF BtInv, CleanInv

\* Every step keeps the invariant.
LEMMA BtStep ==
    ASSUME BtInv, Next \/ UNCHANGED vars
    PROVE  BtInv'
<1>1. TypeInv' /\ ListInv'
  BY TypeStep, ListStep DEF BtInv
<1>2. CASE Reboot
  <2>1. \A s \in Slots : ~Listed(s)'
    BY <1>2 DEF Reboot, Listed, ToSet
  <2>2. HandleInv' /\ StackInv' /\ ClosedInv'
    BY <1>2, <2>1 DEF Reboot, HandleInv, StackInv, ClosedInv, Free
  <2>3. FreeInv'
    BY <1>2 DEF Reboot, FreeInv, Posting, Freeing, Idle, Resting
  <2>4. CallbackInv'
    BY <1>2 DEF Reboot, CallbackInv, Found, Working, Idle
  <2> QED BY <1>1, <2>2, <2>3, <2>4 DEF BtInv, CleanInv
<1>3. CASE ~Reboot
  <2> SUFFICES ASSUME Clean' PROVE HandleInv' /\ StackInv' /\ ClosedInv' /\ FreeInv' /\ CallbackInv'
    BY <1>1 DEF BtInv, CleanInv
  <2>1. Clean
    BY <1>3, OddGrows DEF Clean
  <2>2. HandleInv' /\ StackInv' /\ ClosedInv' /\ FreeInv'
    <3>1. OpenLink => btc.ev.bda = dev[btc.dev].bda /\ IsFirst(btc.dev)
      BY <2>1 DEF OpenLink, At, BtInv, CleanInv, CallbackInv, Found, Working, WorksOn
    <3> QED BY <1>3, <2>1, <3>1, HandleStep, StackStep, ClosedStep, FreeStep DEF BtInv, CleanInv
  <2>3. CallbackInv'
    <3>1. CASE Btc /\ Next
      BY <1>3, <2>1, <3>1, CallbackBtc
    <3>2. CASE ~Btc
      BY <1>3, <2>1, <3>2, CallbackKept
    <3>3. CASE UNCHANGED vars
      <4>1. CallbackInv
        BY <2>1 DEF BtInv, CleanInv
      <4> QED BY <3>3, <4>1 DEF vars, memVars, stackVars, CallbackInv, Found, WorksOn, Listed, IsFirst,
                                QuietBehind, IsOpen
    <3> QED BY <3>1, <3>2, <3>3
  <2> QED BY <2>2, <2>3
<1> QED BY <1>2, <1>3

\* The inductive invariant.
LEMMA BtInvariant == Spec => []BtInv
<1>1. Init => BtInv
  BY BtInit
<1>2. BtInv /\ [Next]_vars => BtInv'
  BY BtStep
<1> QED BY <1>1, <1>2, PTL DEF Spec

\* The list of devices names each one once and loses none, whatever the tasks do, and
\* the queue of the event loop keeps its bound (esp_hidh.c, bt_hidh.c).
THEOREM bt_types == Spec => []BtTypeOK
<1>1. BtInv => BtTypeOK
  <2> SUFFICES ASSUME BtInv PROVE BtTypeOK
    OBVIOUS
  <2>1. TypeInv /\ ListInv
    BY DEF BtInv
  <2>2. \A s \in Slots : dev[s].trans \in Transactions \cup {"max"}
    BY <2>1, DeviceIs DEF TypeInv, Device
  <2> QED BY <2>1, <2>2 DEF TypeInv, DeviceType, QueueType, ListInv, BtTypeOK
<1> QED BY <1>1, BtInvariant, PTL

\* esp_hh_cb touches freed memory only after a failed open, or a new connection of a
\* device that had closed and was not freed yet (bt_hidh.c, esp_hh_cb).
THEOREM callback_memory_safe == Spec => []CallbackMemorySafe
<1>1. BtInv => CallbackMemorySafe
  BY DEF BtInv, CleanInv, CallbackInv, Clean, CallbackMemorySafe
<1> QED BY <1>1, BtInvariant, PTL
=============================================================================
