-------------------------- MODULE KbdInput_proofs --------------------------
(***************************************************************************)
(* Proofs about KbdInput, for any devices, keys and lengths: the device    *)
(* that is opened is the one selected, and keys are neither doubled nor    *)
(* lost but in the named cases.                                            *)
(***************************************************************************)
EXTENDS KbdInput, SequenceTheorems, TLAPS

Commands == [op : {"start", "select"}, index : Nat, want : Devices \cup {"none"}, now : BOOLEAN]
ChosenType == [is : Devices \cup {"none"}, picked : Devices \cup {"none"},
               want : Devices \cup {"none"}, now : BOOLEAN]
Codes == Keys \cup {"rollover"}
Reports == [keys : Seq(Codes), new : SUBSET Keys, at : Nat]

ScanType ==
    /\ scan_devs \in Seq(Devices) /\ shown \in Seq(Devices) /\ shown_now \in BOOLEAN
    /\ cmds \in Seq(Commands)
    /\ kbd \in {"top", "pair", "scan", "timeout", "settle", "open", "reopen", "clear",
                "connected", "lost"}
    /\ selected \in Nat
    /\ chosen \in ChosenType
    /\ kbd = "settle" => selected \in DOMAIN scan_devs

\* What a command means is still in its place in the list, as long as the list was
\* not cleared.
InPlace(c) == c.op = "select" /\ c.now =>
                  c.index \in DOMAIN scan_devs /\ scan_devs[c.index] = c.want

\* What the application has seen, selected or opened is still in its place in the
\* list, as long as the list was not cleared; what was picked is until it is opened.
SelectInv ==
    /\ shown_now => /\ Len(shown) <= Len(scan_devs)
                    /\ \A i \in DOMAIN shown : scan_devs[i] = shown[i]
    /\ \A n \in DOMAIN cmds : InPlace(cmds[n])
    /\ kbd = "settle" => /\ scan_devs[selected] = chosen.picked
                         /\ chosen.now => chosen.picked = chosen.want
    /\ SelectedIsShown

\* A queue whose head is taken, or whose entries are outdated, is a queue.
LEMMA QueueTail ==
    ASSUME NEW q \in Seq(Commands), q # <<>>
    PROVE  /\ Tail(q) \in Seq(Commands) /\ Head(q) \in Commands /\ Head(q) = q[1]
           /\ 1 \in DOMAIN q
           /\ \A n \in DOMAIN Tail(q) : n + 1 \in DOMAIN q /\ Tail(q)[n] = q[n + 1]
  BY HeadTailProperties, EmptySeq, LenProperties
LEMMA QueueOutdated ==
    ASSUME NEW q \in Seq(Commands)
    PROVE  /\ Outdated(q) \in Seq(Commands)
           /\ \A n \in DOMAIN Outdated(q) : ~Outdated(q)[n].now
<1>1. Len(q) \in Nat /\ DOMAIN q = 1 .. Len(q) /\ \A n \in DOMAIN q : q[n] \in Commands
  BY LenProperties, ElementOfSeq
<1>2. \A n \in DOMAIN q : [q[n] EXCEPT !.now = FALSE] \in Commands
  BY <1>1 DEF Commands
<1>3. Outdated(q) \in [1 .. Len(q) -> Commands]
  BY <1>1, <1>2 DEF Outdated
<1>4. \A n \in DOMAIN q : ~Outdated(q)[n].now
  BY <1>1 DEF Outdated, Commands
<1> QED
  BY <1>1, <1>3, <1>4, SeqDef

\* The head of the queue is taken.
LEMMA HeadTaken ==
    ASSUME ScanType, NEW op, First(op)
    PROVE  /\ Tail(cmds) \in Seq(Commands) /\ Head(cmds) \in Commands
           /\ Head(cmds) = cmds[1] /\ 1 \in DOMAIN cmds /\ Head(cmds).op = op
           /\ \A n \in DOMAIN Tail(cmds) :
                 n + 1 \in DOMAIN cmds /\ Tail(cmds)[n] = cmds[n + 1]
  BY QueueTail DEF ScanType, First

\* A command is put in the queue, behind those that wait.
LEMMA SendType ==
    ASSUME ScanType, NEW c \in Commands, SendCmd(c)
    PROVE  ScanType'
  BY DEF SendCmd, ScanType, scanVars
LEMMA SendSelects ==
    ASSUME ScanType, SelectInv, NEW c \in Commands, SendCmd(c), InPlace(c)
    PROVE  SelectInv'
<1>1. /\ Len(cmds) \in Nat /\ DOMAIN cmds = 1 .. Len(cmds)
      /\ DOMAIN cmds' = 1 .. Len(cmds) + 1
      /\ \A n \in 1 .. Len(cmds) : cmds'[n] = cmds[n]
      /\ cmds'[Len(cmds) + 1] = c
  BY LenProperties, AppendProperties DEF SendCmd, ScanType
<1>2. UNCHANGED <<scan_devs, shown, shown_now, kbd, selected, chosen>>
  BY DEF SendCmd, scanVars
<1>3. \A n \in DOMAIN cmds' : cmds'[n] = c \/ (n \in DOMAIN cmds /\ cmds'[n] = cmds[n])
  BY <1>1
<1>4. (\A n \in DOMAIN cmds : InPlace(cmds[n]))'
  BY <1>2, <1>3 DEF SelectInv, InPlace
<1> QED
  BY <1>2, <1>4 DEF SelectInv, SelectedIsShown, InPlace
LEMMA SelectsAreCommands ==
    /\ Start \in Commands /\ InPlace(Start) /\ NoChoice \in ChosenType
    /\ ScanType => \A i \in DOMAIN shown :
          [op |-> "select", index |-> i, want |-> shown[i], now |-> shown_now] \in Commands
<1>1. Start \in Commands /\ InPlace(Start) /\ NoChoice \in ChosenType
  BY DEF Start, Commands, InPlace, NoChoice, ChosenType
<1>2. ASSUME ScanType, NEW i \in DOMAIN shown
      PROVE  [op |-> "select", index |-> i, want |-> shown[i], now |-> shown_now] \in Commands
  <2>1. i \in Nat /\ shown[i] \in Devices
    BY <1>2, LenProperties, ElementOfSeq DEF ScanType
  <2> QED
    BY <1>2, <2>1 DEF ScanType, Commands
<1> QED
  BY <1>1, <1>2

\* Each step keeps the types of the scan and of the choice from its list.
LEMMA ScanTypeStep ==
    ASSUME ScanType, [Next]_vars
    PROVE  ScanType'
<1>a. NoChoice \in ChosenType /\ <<>> \in Seq(Devices)
  BY SelectsAreCommands, EmptySeq
<1>b. cmds \in Seq(Commands) /\ Outdated(cmds) \in Seq(Commands)
  BY QueueOutdated DEF ScanType
<1>1. CASE StartScan
  BY <1>1, <1>a, <1>b DEF StartScan, ScanType, ClearDevs
<1>2. CASE ShowDevs
  BY <1>2 DEF ShowDevs, ScanType, kbdVars
<1>3. CASE TakeStart
  <2>1. Outdated(Tail(cmds)) \in Seq(Commands)
    BY <1>3, HeadTaken, QueueOutdated DEF TakeStart
  <2> QED
    BY <1>3, <2>1, <1>a DEF TakeStart, ScanType, ClearDevs
<1>4. CASE TakeSelect
  <2>1. Tail(cmds) \in Seq(Commands) /\ Head(cmds) \in Commands
    BY <1>4, HeadTaken DEF TakeSelect
  <2> DEFINE c == Head(cmds)
  <2>2. CASE c.index \in DOMAIN scan_devs
    <3>1. scan_devs[c.index] \in Devices
      BY <2>2, ElementOfSeq, LenProperties DEF ScanType
    <3> QED
      BY <1>4, <2>1, <2>2, <3>1 DEF TakeSelect, ScanType, scanVars, Commands, ChosenType
  <2>3. CASE c.index \notin DOMAIN scan_devs
    BY <1>4, <2>1, <2>3 DEF TakeSelect, ScanType, scanVars
  <2> QED
    BY <2>2, <2>3
<1>5. CASE ScanTimeout
  BY <1>5, <1>a, <1>b DEF ScanTimeout, ScanType, scanVars, ClearDevs
<1>6. CASE OpenSelected
  <2>1. scan_devs[selected] \in Devices
    BY <1>6, ElementOfSeq, LenProperties DEF ScanType, OpenSelected
  <2> QED
    BY <1>6, <2>1 DEF OpenSelected, ScanType, scanVars, ChosenType
<1>7. CASE Top \/ Opened \/ ReopenFails \/ ClearKeys \/ SeeLost \/ Reconnect
  BY <1>7, <1>a DEF Top, Opened, ReopenFails, ClearKeys, SeeLost, Reconnect, ScanType, scanVars
<1>8. CASE OpenFails \/ Repair \/ LostDrop \/ LostStart
  <2>1. First("start") \/ First("select") => Tail(cmds) \in Seq(Commands)
    BY HeadTaken
  <2> QED
    BY <1>8, <1>a, <2>1 DEF OpenFails, Repair, LostDrop, LostStart, ScanType, scanVars
<1>9. CASE Evt
  BY <1>9 DEF Evt, TakeReport, TranslateKey, TranslateEnd, ScanType, scanVars, kbdVars
<1>10. ASSUME NEW d \in Devices, Collect(d) PROVE ScanType'
  <2>1. /\ Append(scan_devs, d) \in Seq(Devices)
        /\ DOMAIN scan_devs \subseteq DOMAIN Append(scan_devs, d)
    BY DEF ScanType
  <2> QED
    BY <1>10, <2>1 DEF Collect, ScanType, kbdVars
<1>11. ASSUME NEW i \in 1 .. MaxDevs, SendSelect(i) PROVE ScanType'
  BY <1>11, SelectsAreCommands, SendType DEF SendSelect
<1>12. CASE SendStart
  BY <1>12, SelectsAreCommands, SendType DEF SendStart
<1>13. CASE \/ LinkLost \/ Repeat \/ \E k \in Keys : Press(k)
            \/ \E i \in DOMAIN down : Release(i)
  BY <1>13 DEF LinkLost, Repeat, Press, Release, ScanType, scanVars, kbdVars
<1>14. CASE UNCHANGED vars
  BY <1>14 DEF vars, ScanType, scanVars, kbdVars
<1> QED
  BY <1>1, <1>2, <1>3, <1>4, <1>5, <1>6, <1>7, <1>8, <1>9, <1>10, <1>11, <1>12, <1>13, <1>14
  DEF Next, Kbd, World

\* Each step keeps the choice that of the shown list.
LEMMA SelectStep ==
    ASSUME ScanType, SelectInv, [Next]_vars
    PROVE  SelectInv'
<1>a. NoChoice.is = "none"
  BY DEF NoChoice
<1>b. \A n \in DOMAIN Outdated(cmds) : ~Outdated(cmds)[n].now
  BY QueueOutdated DEF ScanType
<1>1. CASE StartScan
  BY <1>1, <1>b DEF StartScan, SelectInv, InPlace, SelectedIsShown, ClearDevs
<1>2. CASE ShowDevs
  BY <1>2 DEF ShowDevs, ScanType, SelectInv, InPlace, SelectedIsShown, kbdVars
<1>3. CASE TakeStart
  <2>1. \A n \in DOMAIN Outdated(Tail(cmds)) : ~Outdated(Tail(cmds))[n].now
    BY <1>3, HeadTaken, QueueOutdated DEF TakeStart
  <2> QED
    BY <1>3, <2>1 DEF TakeStart, SelectInv, InPlace, SelectedIsShown, ClearDevs
<1>4. CASE TakeSelect
  <2> DEFINE c == Head(cmds)
  <2>1. /\ cmds' = Tail(cmds) /\ UNCHANGED <<scan_devs, shown, shown_now>> /\ kbd = "scan"
        /\ c.op = "select" /\ c = cmds[1] /\ 1 \in DOMAIN cmds
    BY <1>4, HeadTaken DEF TakeSelect, scanVars
  <2>2. (\A n \in DOMAIN cmds : InPlace(cmds[n]))'
    <3>1. \A n \in DOMAIN cmds' : InPlace(cmds'[n])
      BY <1>4, <2>1, HeadTaken DEF TakeSelect, SelectInv
    <3> QED
      BY <2>1, <3>1 DEF InPlace
  <2>3. InPlace(c)
    BY <2>1 DEF SelectInv
  <2>4. /\ kbd' = "settle" => scan_devs'[selected'] = chosen'.picked
                             /\ (chosen'.now => chosen'.picked = chosen'.want)
        /\ chosen'.is # "none" => chosen' = chosen
    BY <1>4, <2>1, <2>3 DEF TakeSelect, InPlace
  <2> QED
    BY <2>1, <2>2, <2>4 DEF SelectInv, SelectedIsShown
<1>5. CASE ScanTimeout
  <2>1. CASE kbd' = "timeout"
    BY <1>5, <2>1 DEF ScanTimeout, SelectInv, InPlace, SelectedIsShown, scanVars
  <2>2. CASE kbd' # "timeout"
    BY <1>5, <2>2, <1>b DEF ScanTimeout, SelectInv, InPlace, SelectedIsShown, ClearDevs
  <2> QED
    BY <2>1, <2>2
<1>6. CASE OpenSelected
  BY <1>6 DEF OpenSelected, ScanType, ChosenType, SelectInv, InPlace, SelectedIsShown, scanVars
<1>7. CASE Top \/ Opened \/ ReopenFails \/ ClearKeys \/ SeeLost \/ Reconnect
  BY <1>7, <1>a DEF Top, Opened, ReopenFails, ClearKeys, SeeLost, Reconnect, SelectInv, InPlace,
              SelectedIsShown, scanVars
<1>8. CASE OpenFails \/ Repair \/ LostDrop \/ LostStart
  <2>1. /\ cmds' = cmds \/ (cmds' = Tail(cmds) /\ (First("start") \/ First("select")))
        /\ UNCHANGED <<scan_devs, shown, shown_now>> /\ kbd' \in {"pair", "lost"}
        /\ chosen' = NoChoice \/ chosen' = chosen
    BY <1>8 DEF OpenFails, Repair, LostDrop, LostStart, scanVars
  <2>2. \A n \in DOMAIN cmds' : InPlace(cmds'[n])
    BY <2>1, HeadTaken DEF SelectInv
  <2> QED
    BY <2>1, <2>2, <1>a DEF SelectInv, InPlace, SelectedIsShown
<1>9. CASE Evt
  BY <1>9 DEF Evt, TakeReport, TranslateKey, TranslateEnd, SelectInv, InPlace, SelectedIsShown,
              scanVars, kbdVars
<1>10. ASSUME NEW d \in Devices, Collect(d) PROVE SelectInv'
  <2>1. /\ DOMAIN scan_devs \subseteq DOMAIN scan_devs' /\ Len(scan_devs) <= Len(scan_devs')
        /\ \A i \in DOMAIN scan_devs : scan_devs'[i] = scan_devs[i]
        /\ UNCHANGED <<shown, shown_now, cmds, kbd, selected, chosen>>
    BY <1>10, LenProperties, AppendProperties DEF Collect, ScanType, kbdVars
  <2>2. /\ Len(shown) \in Nat /\ DOMAIN shown = 1 .. Len(shown) /\ Len(scan_devs) \in Nat
        /\ DOMAIN scan_devs = 1 .. Len(scan_devs) /\ Len(scan_devs') \in Nat
    BY <1>10, LenProperties, AppendProperties DEF Collect, ScanType
  <2>3. shown_now' => /\ Len(shown') <= Len(scan_devs')
                      /\ \A i \in DOMAIN shown' : scan_devs'[i] = shown'[i]
    BY <2>1, <2>2 DEF SelectInv
  <2>4. (\A n \in DOMAIN cmds : InPlace(cmds[n]))'
    BY <2>1 DEF SelectInv, InPlace
  <2> QED
    BY <2>1, <2>3, <2>4 DEF SelectInv, SelectedIsShown, ScanType
<1>11. ASSUME NEW i \in 1 .. MaxDevs, SendSelect(i) PROVE SelectInv'
  <2> DEFINE c == [op |-> "select", index |-> i, want |-> shown[i], now |-> shown_now]
  <2>1. i \in DOMAIN shown /\ SendCmd(c)
    BY <1>11 DEF SendSelect
  <2>2. c \in Commands
    BY <2>1, SelectsAreCommands
  <2>3. InPlace(c)
    BY <2>1, LenProperties DEF InPlace, SelectInv, ScanType
  <2> QED
    BY <2>1, <2>2, <2>3, SendSelects
<1>12. CASE SendStart
  BY <1>12, SelectsAreCommands, SendSelects DEF SendStart
<1>13. CASE \/ LinkLost \/ Repeat \/ \E k \in Keys : Press(k)
            \/ \E i \in DOMAIN down : Release(i)
  BY <1>13 DEF LinkLost, Repeat, Press, Release, SelectInv, InPlace, SelectedIsShown, scanVars,
               kbdVars
<1>14. CASE UNCHANGED vars
  BY <1>14 DEF vars, SelectInv, InPlace, SelectedIsShown, scanVars, kbdVars
<1> QED
  BY <1>1, <1>2, <1>3, <1>4, <1>5, <1>6, <1>7, <1>8, <1>9, <1>10, <1>11, <1>12, <1>13, <1>14
  DEF Next, Kbd, World

\* The device that is opened is the one that was at the index of the SELECT when it
\* was taken (bt_kbd.c:484-493, 520-522), through the 300 ms without the mutex; and
\* it is the one the application meant, however many commands waited before the
\* SELECT, if the list was not cleared after the application had seen it.
THEOREM OpensSelected == Spec => []SelectedIsShown
<1>1. Init => ScanType /\ SelectInv
  BY EmptySeq DEF Init, ScanType, SelectInv, SelectedIsShown, NoChoice, ChosenType
<1>2. ScanType /\ SelectInv /\ [Next]_vars => (ScanType /\ SelectInv)'
  BY ScanTypeStep, SelectStep
<1>3. ScanType /\ SelectInv => SelectedIsShown
  BY DEF SelectInv
<1> QED
  BY <1>1, <1>2, <1>3, PTL DEF Spec
-----------------------------------------------------------------------------
(* Keys.                                                                   *)

KeyType ==
    /\ down \in Seq(Keys) /\ IsInjective(down)
    /\ last \in SUBSET Keys /\ prev_keys \in SUBSET Codes
    /\ reports \in Seq(Reports) /\ evt \in Reports

\* Lemmas about sequences: a report, what the host sees of it, and a key released.
LEMMA SeenIsPart ==
    ASSUME NEW r \in Seq(Codes)
    PROVE  /\ Seen(r) \in Seq(Codes) /\ ToSet(Seen(r)) \subseteq ToSet(r)
           /\ Len(r) < ReportKeys => Seen(r) = r
<1>1. CASE Len(r) = ReportKeys
  <2>1. Len(r) \in Nat /\ Len(r) - 1 \in Nat /\ DOMAIN r = 1 .. Len(r)
    BY <1>1, LenProperties, InputAssumption
  <2>2. \A i \in 1 .. Len(r) - 1 : r[i] \in Codes
    BY <2>1, ElementOfSeq
  <2>3. /\ Front(r) \in Seq(Codes) /\ Len(Front(r)) <= Len(r)
        /\ \A i \in 1 .. Len(r) - 1 : Front(r)[i] = r[i]
        /\ Len(Front(r)) = Len(r) - 1
    <3>1. /\ SubSeq(r, 1, Len(r) - 1) \in Seq(Codes)
          /\ Len(SubSeq(r, 1, Len(r) - 1)) = Len(r) - 1
          /\ \A i \in 1 .. Len(r) - 1 : SubSeq(r, 1, Len(r) - 1)[i] = r[i]
      BY <2>1, <2>2, SubSeqProperties
    <3> QED
      BY <2>1, <3>1 DEF Front
  <2> QED
    BY <1>1, <2>1, <2>3, InputAssumption DEF Seen, ToSet
<1>2. CASE Len(r) # ReportKeys
  BY <1>2 DEF Seen
<1> QED
  BY <1>1, <1>2

\* A report names the keys held, or says that they are too many.
LEMMA ReportIsSeq ==
    ASSUME NEW held \in Seq(Keys)
    PROVE  /\ ReportOf(held) \in Seq(Codes)
           /\ Len(held) <= ReportKeys => ReportOf(held) = held
           /\ Len(held) > ReportKeys => ToSet(ReportOf(held)) = {"rollover"}
<1>1. CASE Len(held) <= ReportKeys
  <2>1. Keys \subseteq Codes
    BY DEF Codes
  <2>2. held \in Seq(Codes)
    BY <2>1, SeqMonotonic, Zenon
  <2> QED
    BY <1>1, <2>2, LenProperties, InputAssumption DEF ReportOf
<1>2. CASE Len(held) > ReportKeys
  <2>1. ReportOf(held) = [i \in 1 .. ReportKeys |-> "rollover"]
    BY <1>2, InputAssumption DEF ReportOf
  <2>2. ReportOf(held) \in [1 .. ReportKeys -> Codes]
    BY <2>1 DEF Codes
  <2>3. ReportOf(held) \in Seq(Codes)
    BY <2>2, SeqDef, InputAssumption
  <2>4. ToSet(ReportOf(held)) = {"rollover"}
    <3>1. 1 \in 1 .. ReportKeys
      BY InputAssumption
    <3>2. /\ DOMAIN ReportOf(held) = 1 .. ReportKeys
          /\ \A i \in 1 .. ReportKeys : ReportOf(held)[i] = "rollover"
      BY <2>1
    <3> QED
      BY <3>1, <3>2 DEF ToSet
  <2> QED
    BY <1>2, <2>3, <2>4, LenProperties, InputAssumption
<1> QED
  BY <1>1, <1>2, InputAssumption

\* Releasing a key leaves the others, each once.
LEMMA RemoveOne ==
    ASSUME NEW s \in Seq(Keys), IsInjective(s), NEW i \in DOMAIN s
    PROVE  RemoveAt(s, i) \in Seq(Keys) /\ IsInjective(RemoveAt(s, i))
<1> DEFINE left == SubSeq(s, 1, i - 1)
           right == SubSeq(s, i + 1, Len(s))
<1>1. /\ Len(s) \in Nat /\ i \in 1 .. Len(s) /\ DOMAIN s = 1 .. Len(s)
      /\ \A j \in 1 .. Len(s) : s[j] \in Keys
  BY LenProperties, ElementOfSeq
<1>2. /\ left \in Seq(Keys) /\ Len(left) = i - 1 /\ \A j \in 1 .. i - 1 : left[j] = s[j]
  BY <1>1, SubSeqProperties
<1>3. /\ right \in Seq(Keys) /\ Len(right) = Len(s) - i
      /\ \A j \in 1 .. Len(s) - i : right[j] = s[i + j]
  BY <1>1, SubSeqProperties
<1> HIDE DEF left, right
<1>4. /\ left \o right \in Seq(Keys) /\ Len(left \o right) = Len(s) - 1
      /\ \A j \in 1 .. Len(s) - 1 :
            (left \o right)[j] = IF j <= i - 1 THEN left[j] ELSE right[j - (i - 1)]
  <2>1. /\ left \o right \in Seq(Keys) /\ Len(left \o right) = Len(left) + Len(right)
        /\ \A j \in 1 .. Len(left) + Len(right) :
              (left \o right)[j] = IF j <= Len(left) THEN left[j] ELSE right[j - Len(left)]
    BY <1>2, <1>3, ConcatProperties, Zenon
  <2>2. Len(left) + Len(right) = Len(s) - 1
    BY <1>1, <1>2, <1>3
  <2> QED
    BY <1>2, <2>1, <2>2
<1>5. ASSUME NEW j \in 1 .. Len(s) - 1
      PROVE  (left \o right)[j] = s[IF j <= i - 1 THEN j ELSE j + 1]
  <2>1. CASE j <= i - 1
    BY <1>1, <1>2, <1>4, <2>1
  <2>2. CASE ~(j <= i - 1)
    <3>1. j - (i - 1) \in 1 .. Len(s) - i /\ i + (j - (i - 1)) = j + 1
      BY <1>1, <2>2
    <3>2. right[j - (i - 1)] = s[j + 1]
      BY <1>3, <3>1
    <3> QED
      BY <1>4, <2>2, <3>2
  <2> QED
    BY <2>1, <2>2
<1>6. IsInjective(left \o right)
  <2>1. DOMAIN (left \o right) = 1 .. Len(s) - 1
    BY <1>4, LenProperties
  <2>2. ASSUME NEW x \in 1 .. Len(s) - 1, NEW y \in 1 .. Len(s) - 1,
               (left \o right)[x] = (left \o right)[y]
        PROVE  x = y
    <3> DEFINE Place(j) == IF j <= i - 1 THEN j ELSE j + 1
    <3>1. Place(x) \in 1 .. Len(s) /\ Place(y) \in 1 .. Len(s)
      BY <1>1
    <3>2. s[Place(x)] = s[Place(y)]
      BY <1>5, <2>2
    <3>3. Place(x) = Place(y)
      BY <1>1, <3>1, <3>2 DEF IsInjective
    <3> QED
      BY <1>1, <3>3
  <2> QED
    BY <2>1, <2>2 DEF IsInjective
<1> QED
  BY <1>4, <1>6 DEF RemoveAt, left, right

\* Each step keeps the types of the keys and reports.
LEMMA KeyTypeStep ==
    ASSUME KeyType, [Next]_vars
    PROVE  KeyType'
<1>a. ASSUME NEW held \in Seq(Keys), Send(held)
      PROVE  reports' \in Seq(Reports) /\ last' \in SUBSET Keys
  <2>1. ToSet(held) \subseteq Keys
    BY LenProperties, ElementOfSeq DEF ToSet
  <2>2. ReportOf(held) \in Seq(Codes)
    BY ReportIsSeq
  <2> QED
    <3> DEFINE fits == Len(held) <= ReportKeys
               new == [keys |-> ReportOf(held), at |-> 0,
                       new |-> IF fits THEN ToSet(held) \ last ELSE {}]
    <3>1. new \in Reports
      BY <2>1, <2>2 DEF Reports
    <3>2. CASE ~link /\ UNCHANGED <<reports, last, odd>>
      BY <3>2 DEF KeyType
    <3>3. CASE /\ reports' = Append(reports, new)
               /\ last' = IF fits THEN ToSet(held) ELSE last
      BY <2>1, <3>1, <3>3 DEF KeyType
    <3> QED
      BY <1>a, <3>2, <3>3 DEF Send
<1>1. CASE Kbd
  BY <1>1 DEF Kbd, StartScan, ShowDevs, TakeStart, TakeSelect, ScanTimeout, OpenSelected, Top,
              Opened, OpenFails, ReopenFails, ClearKeys, SeeLost, Repair, LostDrop, LostStart,
              Reconnect, KeyType, keyVars
<1>2. CASE TakeReport
  <2>1. Head(reports) \in Reports /\ Tail(reports) \in Seq(Reports)
    BY <1>2, HeadTailProperties DEF TakeReport, KeyType
  <2>2. Seen(Head(reports).keys) \in Seq(Codes)
    BY <2>1, SeenIsPart DEF Reports
  <2> QED
    BY <1>2, <2>1, <2>2 DEF TakeReport, KeyType, Reports
<1>3. CASE TranslateKey
  <2>1. evt.at \in Nat /\ evt.new \in SUBSET Keys
    BY DEF KeyType, Reports
  <2> DEFINE k == evt.keys[evt.at]
             rest == IF k \notin prev_keys /\ k # "rollover" THEN evt.new \ {k} ELSE evt.new
  <2>2. evt' = [evt EXCEPT !.at = evt.at + 1, !.new = rest] /\ rest \in SUBSET Keys
    BY <1>3, <2>1 DEF TranslateKey
  <2> HIDE DEF rest
  <2>3. evt' \in Reports
    <3>1. \A n \in Nat, ks \in SUBSET Keys : [evt EXCEPT !.at = n, !.new = ks] \in Reports
      BY DEF KeyType, Reports
    <3>2. evt.at + 1 \in Nat
      BY <2>1
    <3> QED
      BY <2>2, <3>1, <3>2, Zenon
  <2> QED
    BY <1>3, <2>3 DEF TranslateKey, KeyType
<1>4. CASE TranslateEnd
  <2>1. ToSet(evt.keys) \subseteq Codes
    BY LenProperties, ElementOfSeq DEF KeyType, Reports, ToSet
  <2>2. NoReport \in Reports
    BY EmptySeq DEF NoReport, Reports
  <2> QED
    BY <1>4, <2>1, <2>2 DEF TranslateEnd, KeyType
<1>5. ASSUME NEW k \in Keys, Press(k) PROVE KeyType'
  <2>1. down' \in Seq(Keys) /\ IsInjective(down')
    BY <1>5 DEF Press, KeyType, IsInjective, ToSet
  <2> QED
    BY <1>5, <2>1, <1>a DEF Press, KeyType
<1>6. ASSUME NEW i \in DOMAIN down, Release(i) PROVE KeyType'
  <2>1. down' \in Seq(Keys) /\ IsInjective(down')
    BY <1>6, RemoveOne DEF Release, KeyType
  <2> QED
    BY <1>6, <2>1, <1>a DEF Release, KeyType
<1>7. CASE Repeat
  BY <1>7, <1>a DEF Repeat, KeyType
<1>8. CASE \/ LinkLost \/ SendStart \/ \E d \in Devices : Collect(d)
           \/ \E i \in 1 .. MaxDevs : SendSelect(i)
  BY <1>8 DEF LinkLost, SendStart, Collect, SendSelect, SendCmd, KeyType, keyVars
<1>9. CASE UNCHANGED vars
  BY <1>9 DEF vars, keyVars, KeyType
<1> QED
  BY <1>1, <1>2, <1>3, <1>4, <1>5, <1>6, <1>7, <1>8, <1>9 DEF Next, Evt, World
-----------------------------------------------------------------------------
(* A key makes one event.                                                  *)

\* The keys that will be in s_prev_keys when report i is translated, as long as
\* none was translated too early.
Before(i) ==
    IF i > 1 THEN ToSet(reports[i - 1].keys)
    ELSE IF evt # NoReport THEN ToSet(evt.keys)
    ELSE IF kbd = "clear" THEN {} ELSE prev_keys

\* Each key of a report that waits, or is translated, was in the one before, or is
\* counted as new; and the keyboard remembers no key that its last report had not.
TwiceInv ==
    odd = {} =>
        /\ ~again
        /\ kbd = "clear" => evt = NoReport
        /\ last \subseteq Before(Len(reports) + 1)
        /\ \A i \in DOMAIN reports :
              /\ Len(reports[i].keys) < ReportKeys /\ IsInjective(reports[i].keys)
              /\ ToSet(reports[i].keys) \ Before(i) \subseteq reports[i].new
        /\ evt # NoReport =>
              /\ IsInjective(evt.keys)
              /\ \A j \in DOMAIN evt.keys :
                    j >= evt.at => evt.keys[j] \in prev_keys \cup evt.new

\* A new key of a report is one of its keys, and was not in the one before; while the
\* report is translated, it is among the keys to come.
MissInv ==
    odd \cap {"early", "full"} = {} =>
        /\ ~missed
        /\ kbd = "clear" => evt = NoReport
        /\ Before(Len(reports) + 1) \subseteq last \cup {"rollover"}
        /\ \A i \in DOMAIN reports :
              /\ reports[i].new \cap Before(i) = {}
              /\ reports[i].new # {} => /\ Len(reports[i].keys) < ReportKeys
                                        /\ reports[i].new \subseteq ToSet(reports[i].keys)
        /\ evt # NoReport =>
              /\ evt.new \cap prev_keys = {}
              /\ \A k \in evt.new : \E j \in DOMAIN evt.keys : j >= evt.at /\ evt.keys[j] = k

\* A report is put behind those that wait.
LEMMA SendKeeps ==
    ASSUME KeyType, TwiceInv, MissInv, NEW held \in Seq(Keys), IsInjective(held), Send(held),
           UNCHANGED <<prev_keys, evt, kbd, again, missed>>
    PROVE  TwiceInv' /\ MissInv'
<1> DEFINE fits == Len(held) <= ReportKeys
           n == Len(reports)
           new == [keys |-> ReportOf(held), at |-> 0,
                   new |-> IF fits THEN ToSet(held) \ last ELSE {}]
<1>1. CASE ~link /\ UNCHANGED <<reports, last, odd>>
  BY <1>1 DEF TwiceInv, MissInv, Before
<1>2. CASE /\ reports' = Append(reports, new)
           /\ last' = IF fits THEN ToSet(held) ELSE last
           /\ odd' = odd \cup IF Len(held) < ReportKeys THEN {}
                             ELSE IF fits THEN {"full"} ELSE {"rollover"}
  <2>1. /\ n \in Nat /\ DOMAIN reports = 1 .. n /\ Len(reports') = n + 1
        /\ DOMAIN reports' = 1 .. n + 1
        /\ \A i \in 1 .. n : reports'[i] = reports[i]
        /\ reports'[n + 1] = new
    BY <1>2, LenProperties DEF KeyType
  <2>2. \A i \in 1 .. n + 1 : Before(i)' = Before(i)
    BY <2>1 DEF Before
  <2>3. Before(Len(reports) + 1)' = ToSet(ReportOf(held))
    BY <2>1 DEF Before
  <2>4. Len(held) \in Nat /\ ToSet(held) \subseteq Keys
    BY LenProperties, ElementOfSeq DEF ToSet
  <2>5. TwiceInv'
    <3> SUFFICES ASSUME odd' = {} PROVE TwiceInv'
      BY DEF TwiceInv
    <3>1. odd = {} /\ Len(held) < ReportKeys /\ fits
      <4>1. odd = {} /\ Len(held) < ReportKeys
        BY <1>2, Zenon
      <4> QED
        BY <2>4, <4>1, InputAssumption
    <3>2. ReportOf(held) = held
      BY <3>1, ReportIsSeq
    <3>3. last' = ToSet(held) /\ new.keys = held /\ new.new = ToSet(held) \ last
      BY <1>2, <3>1, <3>2
    <3>4. ToSet(new.keys) \ Before(n + 1) \subseteq new.new
      BY <3>1, <3>3 DEF TwiceInv
    <3> HIDE DEF new
    <3> QED
      BY <2>1, <2>2, <2>3, <3>1, <3>2, <3>3, <3>4 DEF TwiceInv
  <2>6. MissInv'
    <3> SUFFICES ASSUME odd' \cap {"early", "full"} = {} PROVE MissInv'
      BY DEF MissInv
    <3>1. odd \cap {"early", "full"} = {} /\ (Len(held) < ReportKeys \/ ~fits)
      BY <1>2, <2>4, InputAssumption
    <3>2. CASE Len(held) < ReportKeys
      <4>1. fits /\ ReportOf(held) = held
        BY <2>4, <3>2, ReportIsSeq, InputAssumption
      <4>2. last' = ToSet(held) /\ new.keys = held /\ new.new = ToSet(held) \ last
        BY <1>2, <4>1
      <4>3. new.new \cap Before(n + 1) = {}
        BY <2>4, <3>1, <4>2, InputAssumption DEF MissInv
      <4> HIDE DEF new
      <4> QED
        BY <2>1, <2>2, <2>3, <3>1, <3>2, <4>1, <4>2, <4>3 DEF MissInv
    <3>3. CASE ~fits
      <4>1. ToSet(ReportOf(held)) = {"rollover"} /\ new.new = {} /\ last' = last
        BY <1>2, <2>4, <3>3, ReportIsSeq, InputAssumption
      <4> HIDE DEF new
      <4> QED
        BY <2>1, <2>2, <2>3, <3>1, <4>1 DEF MissInv
    <3> QED
      BY <3>1, <3>2, <3>3
  <2> QED
    BY <2>5, <2>6
<1> QED
  BY <1>1, <1>2 DEF Send

\* Taking a report from the queue repeats and misses no key.
LEMMA TakeKeeps ==
    ASSUME KeyType, TwiceInv, MissInv, TakeReport
    PROVE  TwiceInv' /\ MissInv'
<1> DEFINE n == Len(reports)
           r == reports[1]
<1>1. /\ n \in Nat \ {0} /\ DOMAIN reports = 1 .. n /\ r \in Reports /\ Head(reports) = r
      /\ Len(reports') = n - 1 /\ DOMAIN reports' = 1 .. n - 1
      /\ \A i \in 1 .. n - 1 : reports'[i] = reports[i + 1]
  BY EmptySeq, HeadTailProperties, LenProperties, ElementOfSeq DEF TakeReport, KeyType
<1>2. /\ evt'.keys = Seen(r.keys) /\ evt'.new = r.new /\ evt'.at = 1 /\ evt' # NoReport
      /\ evt = NoReport
  <2>1. evt' = [r EXCEPT !.keys = Seen(r.keys), !.at = 1] /\ evt = NoReport
    BY <1>1 DEF TakeReport
  <2>2. evt'.keys = Seen(r.keys) /\ evt'.new = r.new /\ evt'.at = 1
    BY <1>1, <2>1 DEF Reports
  <2>3. NoReport.at = 0
    BY DEF NoReport
  <2>4. evt' # NoReport
    BY <2>2, <2>3
  <2> QED
    BY <2>1, <2>2, <2>4, Zenon
<1>3. kbd # "clear" \/ "early" \in odd'
  BY DEF TakeReport
<1>4. odd \subseteq odd' /\ UNCHANGED <<prev_keys, kbd, again, missed, last>>
  BY DEF TakeReport, kbdVars
<1>5. /\ ToSet(Seen(r.keys)) \subseteq ToSet(r.keys)
      /\ Len(r.keys) < ReportKeys => Seen(r.keys) = r.keys
      /\ Seen(r.keys) \in Seq(Codes) /\ r.keys \in Seq(Codes)
  BY <1>1, SeenIsPart DEF Reports
<1>6. \A i \in 1 .. n : Before(i)' = IF i = 1 THEN ToSet(Seen(r.keys)) ELSE Before(i + 1)
  BY <1>1, <1>2 DEF Before
<1>7. Before(2) = ToSet(r.keys) /\ Before(1) = IF kbd = "clear" THEN {} ELSE prev_keys
  BY <1>1, <1>2 DEF Before
<1>8. DOMAIN evt'.keys = 1 .. Len(evt'.keys) /\ Len(evt'.keys) \in Nat
  BY <1>2, <1>5, LenProperties
<1> HIDE DEF r
<1>9. TwiceInv'
  <2> SUFFICES ASSUME odd' = {} PROVE TwiceInv'
    BY DEF TwiceInv
  <2>1. odd = {} /\ kbd # "clear"
    BY <1>3, <1>4
  <2>2. /\ Seen(r.keys) = r.keys /\ IsInjective(r.keys)
        /\ ToSet(r.keys) \ prev_keys \subseteq r.new
    BY <1>1, <1>5, <1>7, <2>1 DEF TwiceInv, r
  <2>3. \A j \in DOMAIN evt'.keys : evt'.keys[j] \in prev_keys \cup evt'.new
    BY <1>2, <2>2 DEF ToSet
  <2>4. \A i \in 1 .. n : Before(i)' = Before(i + 1)
    BY <1>6, <1>7, <2>2
  <2>5. last' \subseteq Before(Len(reports) + 1)'
    BY <1>1, <1>4, <2>1, <2>4 DEF TwiceInv
  <2>6. ASSUME NEW i \in DOMAIN reports'
        PROVE  /\ Len(reports'[i].keys) < ReportKeys /\ IsInjective(reports'[i].keys)
               /\ ToSet(reports'[i].keys) \ Before(i)' \subseteq reports'[i].new
    <3>1. i + 1 \in DOMAIN reports /\ reports'[i] = reports[i + 1] /\ i \in 1 .. n
      BY <1>1
    <3> QED
      BY <2>1, <2>4, <3>1 DEF TwiceInv
  <2>7. ~again' /\ kbd' # "clear" /\ IsInjective(evt'.keys)
    BY <1>2, <1>4, <2>1, <2>2 DEF TwiceInv
  <2> QED
    BY <1>2, <1>4, <2>3, <2>5, <2>6, <2>7 DEF TwiceInv
<1>10. MissInv'
  <2> SUFFICES ASSUME odd' \cap {"early", "full"} = {} PROVE MissInv'
    BY DEF MissInv
  <2>1. odd \cap {"early", "full"} = {} /\ kbd # "clear"
    BY <1>3, <1>4
  <2>2. /\ r.new \cap prev_keys = {}
        /\ r.new \subseteq ToSet(Seen(r.keys))
    BY <1>1, <1>5, <1>7, <2>1 DEF MissInv, r
  <2>3. \A k \in evt'.new : \E j \in DOMAIN evt'.keys : j >= evt'.at /\ evt'.keys[j] = k
    BY <1>2, <1>8, <2>2 DEF ToSet
  <2>4. \A i \in 1 .. n : Before(i)' \subseteq Before(i + 1)
    BY <1>5, <1>6, <1>7
  <2>5. Before(n + 1) \subseteq last \cup {"rollover"}
    BY <2>1 DEF MissInv
  <2>6. Before(Len(reports) + 1)' \subseteq Before(n + 1)
    BY <1>1, <2>4
  <2>7. ASSUME NEW i \in DOMAIN reports'
        PROVE  /\ reports'[i].new \cap Before(i)' = {}
               /\ reports'[i].new # {} =>
                     /\ Len(reports'[i].keys) < ReportKeys
                     /\ reports'[i].new \subseteq ToSet(reports'[i].keys)
    <3>1. i + 1 \in DOMAIN reports /\ reports'[i] = reports[i + 1] /\ i \in 1 .. n
      BY <1>1
    <3> QED
      BY <2>1, <2>4, <3>1 DEF MissInv
  <2>8. ~missed' /\ kbd' # "clear" /\ evt'.new \cap prev_keys' = {}
    BY <1>2, <1>4, <2>1, <2>2 DEF MissInv
  <2> QED
    BY <1>4, <2>3, <2>5, <2>6, <2>7, <2>8 DEF MissInv
<1> QED
  BY <1>9, <1>10

\* Nor does translating one key of it.
LEMMA TranslateKeeps ==
    ASSUME KeyType, TwiceInv, MissInv, TranslateKey
    PROVE  TwiceInv' /\ MissInv'
<1> DEFINE k == evt.keys[evt.at]
           event == k \notin prev_keys /\ k # "rollover"
<1>1. /\ evt.at \in DOMAIN evt.keys /\ DOMAIN evt.keys \subseteq Nat /\ evt.at \in Nat
      /\ evt # NoReport
  BY LenProperties DEF TranslateKey, KeyType, Reports, NoReport
<1>2. /\ evt'.keys = evt.keys /\ evt'.at = evt.at + 1
      /\ evt'.new = IF event THEN evt.new \ {k} ELSE evt.new
  BY DEF TranslateKey, KeyType, Reports
<1>3. again' = (again \/ (event /\ k \notin evt.new))
  BY DEF TranslateKey
<1>4. UNCHANGED <<prev_keys, kbd, reports, last, missed, odd>>
  BY DEF TranslateKey, kbdVars
<1>5. evt' # NoReport
  BY <1>1, <1>2 DEF NoReport
<1>6. \A i : Before(i)' = Before(i)
  BY <1>1, <1>2, <1>4, <1>5 DEF Before
<1>7. TwiceInv'
  <2> SUFFICES ASSUME odd = {} PROVE TwiceInv'
    BY <1>4 DEF TwiceInv
  <2>1. /\ ~again /\ IsInjective(evt.keys)
        /\ \A j \in DOMAIN evt.keys : j >= evt.at => evt.keys[j] \in prev_keys \cup evt.new
    BY <1>1 DEF TwiceInv
  <2>2. ~again'
    <3>1. event => k \in evt.new
      BY <1>1, <2>1
    <3> QED
      BY <1>3, <2>1, <3>1, Zenon
  <2>3. ASSUME NEW j \in DOMAIN evt.keys, j >= evt.at + 1
        PROVE  evt.keys[j] \in prev_keys \cup evt'.new
    <3>1. evt.keys[j] # k /\ j >= evt.at
      BY <1>1, <2>1, <2>3 DEF IsInjective
    <3> QED
      BY <1>2, <2>1, <3>1
  <2> QED
    BY <1>1, <1>2, <1>4, <1>5, <1>6, <2>1, <2>2, <2>3 DEF TwiceInv
<1>8. MissInv'
  <2> SUFFICES ASSUME odd \cap {"early", "full"} = {} PROVE MissInv'
    BY <1>4 DEF MissInv
  <2>1. /\ evt.new \cap prev_keys = {} /\ "rollover" \notin evt.new
        /\ \A x \in evt.new : \E j \in DOMAIN evt.keys : j >= evt.at /\ evt.keys[j] = x
    BY <1>1, InputAssumption DEF MissInv, KeyType, Reports
  <2>2. evt'.new \subseteq evt.new /\ k \notin evt'.new
    BY <1>2, <2>1
  <2>3. ASSUME NEW x \in evt'.new
        PROVE  \E j \in DOMAIN evt.keys : j >= evt.at + 1 /\ evt.keys[j] = x
    <3>1. PICK j \in DOMAIN evt.keys : j >= evt.at /\ evt.keys[j] = x
      BY <2>1, <2>2
    <3>2. j # evt.at
      BY <2>2, <3>1
    <3> QED
      BY <1>1, <3>1, <3>2
  <2> QED
    BY <1>1, <1>2, <1>4, <1>5, <1>6, <2>1, <2>2, <2>3 DEF MissInv
<1> QED
  BY <1>7, <1>8

\* Nor does the end of the translation, where prev_keys takes the report.
LEMMA EndKeeps ==
    ASSUME KeyType, TwiceInv, MissInv, TranslateEnd
    PROVE  TwiceInv' /\ MissInv'
<1>1. /\ evt # NoReport /\ evt' = NoReport /\ prev_keys' = ToSet(evt.keys)
      /\ evt.at = Len(evt.keys) + 1
      /\ UNCHANGED <<kbd, reports, last, again, odd>>
      /\ missed' = (missed \/ evt.new # {})
  BY DEF TranslateEnd, kbdVars
<1>2. kbd # "clear" => \A i : Before(i)' = Before(i)
  BY <1>1 DEF Before
<1>3. DOMAIN evt.keys = 1 .. Len(evt.keys) /\ Len(evt.keys) \in Nat
  BY LenProperties DEF KeyType, Reports
<1>4. TwiceInv'
  BY <1>1, <1>2 DEF TwiceInv
<1>5. MissInv'
  <2> SUFFICES ASSUME odd \cap {"early", "full"} = {} PROVE MissInv'
    BY <1>1 DEF MissInv
  <2>1. kbd # "clear" /\ ~missed
    BY <1>1 DEF MissInv
  <2>2. evt.new = {}
    BY <1>1, <1>3 DEF MissInv
  <2> QED
    BY <1>1, <1>2, <2>1, <2>2 DEF MissInv
<1> QED
  BY <1>4, <1>5

\* The inductive invariant of the keys.
KeyInv == KeyType /\ TwiceInv /\ MissInv

\* Each step keeps the invariant of the keys.
LEMMA KeyStep ==
    ASSUME KeyInv, [Next]_vars
    PROVE  KeyInv'
<1> USE DEF KeyInv
<1>1. KeyType'
  BY KeyTypeStep
<1>2. CASE Opened
  <2>1. /\ reports' = <<>> /\ evt' = NoReport /\ kbd' = "clear" /\ odd' = {}
        /\ last' = {} /\ again' = FALSE /\ missed' = FALSE
    BY <1>2 DEF Opened
  <2>2. Before(Len(reports) + 1)' = {} /\ DOMAIN reports' = {}
    BY <2>1 DEF Before
  <2> QED
    BY <1>1, <2>1, <2>2 DEF TwiceInv, MissInv
<1>3. CASE ClearKeys
  <2>1. UNCHANGED <<reports, evt, last, again, missed>> /\ prev_keys' = {} /\ kbd' = "connected"
        /\ kbd = "clear" /\ odd' = odd \cup IF evt = NoReport THEN {} ELSE {"early"}
    BY <1>3 DEF ClearKeys
  <2>2. \A i : Before(i)' = Before(i)
    BY <2>1 DEF Before
  <2>3. CASE evt = NoReport
    BY <1>1, <2>1, <2>2, <2>3 DEF TwiceInv, MissInv
  <2>4. CASE evt # NoReport
    BY <1>1, <2>1, <2>4 DEF TwiceInv, MissInv
  <2> QED
    BY <2>3, <2>4
<1>4. ASSUME NEW k \in Keys, Press(k) PROVE KeyInv'
  <2>1. down' \in Seq(Keys) /\ IsInjective(down')
    BY <1>1 DEF KeyType
  <2>2. Send(down') /\ UNCHANGED <<prev_keys, evt, kbd, again, missed>>
    BY <1>4 DEF Press, kbdVars
  <2> QED
    BY <1>1, <2>1, <2>2, SendKeeps
<1>5. ASSUME NEW i \in DOMAIN down, Release(i) PROVE KeyInv'
  <2>1. down' \in Seq(Keys) /\ IsInjective(down')
    BY <1>1 DEF KeyType
  <2>2. Send(down') /\ UNCHANGED <<prev_keys, evt, kbd, again, missed>>
    BY <1>5 DEF Release, kbdVars
  <2> QED
    BY <1>1, <2>1, <2>2, SendKeeps
<1>6. CASE Repeat
  <2>1. Send(down) /\ UNCHANGED <<prev_keys, evt, kbd, again, missed>>
    BY <1>6 DEF Repeat, kbdVars
  <2> QED
    BY <1>1, <2>1, SendKeeps DEF KeyType
<1>7. CASE Evt
  BY <1>1, <1>7, TakeKeeps, TranslateKeeps, EndKeeps DEF Evt
\* Nothing else touches the keys, or goes to "clear" or leaves it.
<1>8. ASSUME UNCHANGED <<prev_keys, evt, reports, last, again, missed, odd>>,
             kbd' = "clear" <=> kbd = "clear"
      PROVE  KeyInv'
  <2>1. \A i : Before(i)' = Before(i)
    BY <1>8 DEF Before
  <2> QED
    BY <1>1, <1>8, <2>1 DEF TwiceInv, MissInv
<1>9. CASE \/ StartScan \/ ShowDevs \/ TakeStart \/ TakeSelect \/ ScanTimeout \/ OpenSelected
           \/ Top \/ OpenFails \/ ReopenFails \/ SeeLost \/ Repair \/ LostDrop \/ LostStart
           \/ Reconnect
  BY <1>8, <1>9 DEF StartScan, ShowDevs, TakeStart, TakeSelect, ScanTimeout, OpenSelected, Top,
                    OpenFails, ReopenFails, SeeLost, Repair, LostDrop, LostStart, Reconnect,
                    keyVars, kbdVars
<1>10. CASE \/ LinkLost \/ SendStart \/ \E d \in Devices : Collect(d)
            \/ \E i \in 1 .. MaxDevs : SendSelect(i)
  BY <1>8, <1>10 DEF LinkLost, SendStart, Collect, SendSelect, SendCmd, keyVars, kbdVars
<1>11. CASE UNCHANGED vars
  BY <1>8, <1>11 DEF vars, keyVars, kbdVars
<1> QED
  BY <1>2, <1>3, <1>4, <1>5, <1>6, <1>7, <1>9, <1>10, <1>11 DEF Next, Kbd, World

\* The invariant of the keys holds.
LEMMA KeysKept == Spec => []KeyInv
<1>1. Init => KeyInv
  <2> SUFFICES ASSUME Init PROVE KeyInv
    OBVIOUS
  <2>1. KeyType
    BY EmptySeq DEF Init, KeyType, Reports, NoReport, IsInjective
  <2>2. DOMAIN reports = {} /\ Before(Len(reports) + 1) = {}
    BY DEF Init, Before
  <2> QED
    BY <2>1, <2>2 DEF Init, KeyInv, TwiceInv, MissInv
<1>2. KeyInv /\ [Next]_vars => KeyInv'
  BY KeyStep
<1> QED
  BY <1>1, <1>2, PTL DEF Spec

\* A key that is held makes one key event (bt_kbd.c:151-194), unless a report came
\* before s_prev_keys was cleared for its link, or too many keys were held.
THEOREM KeysOnce == Spec => []NoKeyTwice
<1>1. KeyInv => NoKeyTwice
  BY DEF KeyInv, TwiceInv, NoKeyTwice
<1> QED
  BY <1>1, KeysKept, PTL

\* A key that is pressed makes a key event, unless its report came early, or it is
\* the last key of a full report.
THEOREM KeysArrive == Spec => []NoKeyMissed
<1>1. KeyInv => NoKeyMissed
  BY DEF KeyInv, MissInv, NoKeyMissed
<1> QED
  BY <1>1, KeysKept, PTL
=============================================================================
