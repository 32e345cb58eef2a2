-------------------------- MODULE Discovery_proofs --------------------------
(***************************************************************************)
(* Proofs about Discovery, for keyboards with any attribute tables that    *)
(* fit and tables of any size: the first full open after a boot never      *)
(* leaves its tables and arrays (discovery_fits), keeps its read values    *)
(* apart unless the read of a PnP id could not be started (buffers_owned), *)
(* builds exactly the keyboard's list of reports (reports_exact) and goes  *)
(* through every input report on every link (every_key_arrives), whatever  *)
(* procedures fail or cannot be started.                                   *)
(*                                                                         *)
(* services_discovered is not reset between two full opens: a second one   *)
(* runs out of service_result (the run discovery_second).  So the theorems *)
(* are about opens <= 1.                                                   *)
(***************************************************************************)
EXTENDS Discovery, FiniteSetTheorems, SequenceTheorems, TLAPS

AtChar == {"read", "describe", "dscs", "descr", "ref"}
Describing == {"describe", "dscs", "descr", "ref"}
Attached == {"attach", "value", "ccc", "idle"}
PCs == InService \cup Attached \cup {"svcs", "service", "chrs", "aborted"}

Report == [handle : Nat \X Nat, proto : {"REPORT", "BOOT"},
           type : {"none", "INPUT", "OUTPUT", "FEATURE"}, notify : BOOLEAN,
           map : Nat, ccc : Nat]
Block == {"live", "freed", "twice"}
Listening == [handle : Nat \X Nat, ccc : Nat, listens : BOOLEAN]
Device == [maps_len : Nat, maps : Seq(Nat), modes : Seq({"undefined", "REPORT"}),
           strings : [Strings -> Nat], battery : Nat \X Nat, battery_ccc : Nat,
           reports : Seq(Report)]

\* The types of the variables, and the state a boot starts from.
CountType == opens \in Nat /\ (opens = 0 => Init)
ControlType ==
    /\ peer \in Peers \cup {<<>>} /\ pc \in PCs
    /\ status_ok \in BOOLEAN /\ cb_sem \in BOOLEAN
    /\ proc \in [kind : Kinds \cup {"none", "read", "value", "ccc"}, found : Nat]
TableType == /\ DOMAIN result = Kinds
             /\ \A k \in Kinds : result[k] \in [0 .. Room[k] - 1 -> Nat]
LoopType == /\ discovered \in [Kinds -> Nat] /\ at \in [Kinds -> Nat]
            /\ cur \in [Kinds -> Nat] /\ hidindex \in Nat
DataType ==
    /\ heap \in Seq(Block) /\ rdata \in 0 .. Len(heap)
    /\ dev \in Device /\ report \in Report
    /\ todo \in Seq(Listening)
Shape == CountType /\ ControlType /\ TableType /\ LoopType /\ DataType

\* A procedure is on the air only while K waits for it, and the semaphore is
\* given only to a K that waits.
WaitInv ==
    /\ proc.kind # "none" => /\ pc = proc.kind \/ (proc.kind = "read" /\ pc = "ref")
                             /\ ~cb_sem
    /\ cb_sem => pc \in Kinds \cup {"read", "ref", "value", "ccc"}
    /\ pc \in {"value", "ccc"} => todo # <<>>
    /\ pc = "idle" => todo = <<>>

\* The first discovered[k] entries of table k are the keyboard's.
Partial(k) == /\ discovered[k] <= Total(k)
              /\ \A i \in 1 .. discovered[k] : result[k][i - 1] = i

\* Where K goes through table k.
Loop(k) == CASE k = "svcs" -> PCs \ {"svcs", "aborted"}
             [] k = "chrs" -> InService
             [] k = "dscs" -> {"descr", "ref"}

\* What table k holds: a search in progress has written the part it counts, a
\* finished one everything, and the counter is back at 0 outside the loop.
TableOK(k) ==
    /\ discovered[k] <= Room[k]
    /\ pc = k => /\ Partial(k)
                 /\ proc.kind = k => proc.found = discovered[k]
                 /\ cb_sem /\ status_ok => discovered[k] = Total(k)
    /\ pc \in Loop(k) => Exact(k)
    /\ pc \notin Loop(k) \cup {k, "aborted"} => discovered[k] = 0
TableInv == \A k \in Kinds : TableOK(k)

\* Where the three loops are, and what selected the branch K is in.
LoopInv ==
    /\ pc = "svcs" => at["svcs"] = 0
    /\ pc \notin {"svcs", "aborted"} => at["svcs"] <= Len(peer)
    /\ pc \in Attached => at["svcs"] = Len(peer)
    /\ pc \in InService \cup {"chrs"} =>
          /\ cur["svcs"] = at["svcs"] + 1 /\ cur["svcs"] <= Len(peer)
          /\ Svc.uuid # "other"
    /\ pc \in InService => at["chrs"] <= Len(Svc.chars)
    /\ pc \in AtChar => cur["chrs"] = at["chrs"] + 1 /\ cur["chrs"] <= Len(Svc.chars)
    /\ pc = "read" =>
          \/ Svc.uuid = "GAP" /\ Chr.uuid = "NAME"
          \/ Svc.uuid = "DIS" /\ Chr.uuid \in {"PNP_ID", "MANUFACTURER", "SERIAL"}
          \/ Svc.uuid = "HID" /\ Chr.read /\ Chr.uuid \in {"PROTOCOL_MODE", "REPORT_MAP"}
    /\ pc \in Describing /\ Svc.uuid = "HID" => Chr.uuid \in ReportKinds
    /\ pc = "descr" => at["dscs"] <= Len(DescrsFound)
    /\ pc = "ref" => /\ Svc.uuid = "HID"
                     /\ cur["dscs"] = at["dscs"] + 1
                     /\ cur["dscs"] <= Len(DescrsFound)
                     /\ DescrsFound[cur["dscs"]] = "RPT_REF"

\* The number of HID services before service i of p.
HidIn(p, i) == Cardinality({k \in 1 .. i - 1 : p[k].uuid = "HID"})

\* hidindex is the number of HID services before the current one, and the
\* arrays have room for all of them.
HidInv ==
    /\ pc = "svcs" => dev.maps_len = HidIn(peer, discovered["svcs"] + 1) /\ hidindex = 0
    /\ pc \notin {"svcs", "aborted"} =>
          /\ dev.maps_len = HidIn(peer, Len(peer) + 1)
          /\ Len(dev.maps) = dev.maps_len /\ Len(dev.modes) = dev.maps_len
    /\ pc \in InService \cup {"chrs", "service"} => hidindex = HidIn(peer, at["svcs"] + 1)

\* The inductive invariant of the first open, whatever can fail.
FitInv == opens <= 1 => Shape /\ WaitInv /\ TableInv /\ LoopInv /\ HidInv
-----------------------------------------------------------------------------
\* A read has put its value into the last block.
Fetched == pc \in {"read", "ref"} /\ (cb_sem \/ (proc.kind = "read" /\ proc.found = 1))

\* The pointers of the device name different live blocks, none of them the
\* block of a read that has not returned.
HeapInv ==
    /\ \A b \in DOMAIN heap : heap[b] # "twice"
    /\ \A n \in Strings : dev.strings[n] # 0 =>
          dev.strings[n] \in DOMAIN heap /\ heap[dev.strings[n]] = "live"
    /\ \A i \in DOMAIN dev.maps : dev.maps[i] # 0 =>
          dev.maps[i] \in DOMAIN heap /\ heap[dev.maps[i]] = "live"
    /\ \A n, m \in Strings :
          dev.strings[n] # 0 /\ dev.strings[n] = dev.strings[m] => n = m
    /\ \A i, j \in DOMAIN dev.maps : dev.maps[i] # 0 /\ dev.maps[i] = dev.maps[j] => i = j
    /\ \A n \in Strings : \A i \in DOMAIN dev.maps :
          dev.strings[n] # 0 => dev.strings[n] # dev.maps[i]
    /\ Fetched => /\ heap # <<>> /\ heap[Len(heap)] = "live"
                  /\ \A n \in Strings : dev.strings[n] # Len(heap)
                  /\ \A i \in DOMAIN dev.maps : dev.maps[i] # Len(heap)

\* Characteristic j of service i is behind the loops.
Done(i, j) == \/ i <= at["svcs"]
              \/ i = at["svcs"] + 1 /\ pc \in InService /\ j <= at["chrs"]

\* Characteristic j of service i of p is one of HID service i.
IsHidChar(p, i, j) == i \in DOMAIN p /\ p[i].uuid = "HID" /\ j \in DOMAIN p[i].chars
IsReportOf(p, i, j) == IsHidChar(p, i, j) /\ p[i].chars[j].uuid \in ReportKinds

\* v is the last position of x among the first n of seq, 0 if there is none.
IsLast(seq, x, n, v) == /\ v \in 0 .. n /\ (v # 0 => seq[v] = x)
                        /\ \A i \in 1 .. n : seq[i] = x => i <= v

\* Report j of service i of p, as the keyboard describes it to an open whose
\* reads U could not be started.
IsReportIn(p, U, i, j, r) ==
    LET ch == p[i].chars[j] IN
    /\ r.handle = <<i, j>> /\ r.proto = (IF ch.uuid = "RPT" THEN "REPORT" ELSE "BOOT")
    /\ r.type = (IF \E d \in DOMAIN ch.descrs : ch.descrs[d] = "RPT_REF"
                                                /\ <<i, j, d>> \notin U
                 THEN ch.type ELSE BootType(ch.uuid))
    /\ r.notify = ch.notify /\ r.map = HidIn(p, i)
    /\ IF ch.notify THEN IsLast(ch.descrs, "CCC", Len(ch.descrs), r.ccc) ELSE r.ccc = 0

\* The list holds the reports that are behind the loops, each once.
ListInv ==
    pc # "aborted" =>
        /\ \A a \in DOMAIN dev.reports : \E i, j \in Nat :
              /\ IsReportOf(peer, i, j) /\ Done(i, j)
              /\ IsReportIn(peer, unread, i, j, dev.reports[a])
        /\ \A i, j \in Nat : IsReportOf(peer, i, j) /\ Done(i, j) =>
              \E a \in DOMAIN dev.reports : dev.reports[a].handle = <<i, j>>
        /\ \A a, b \in DOMAIN dev.reports :
              dev.reports[a].handle = dev.reports[b].handle => a = b

\* The reads of descriptors that could not be started are behind K.
UnreadInv ==
    pc # "aborted" => \A i, j, d \in Nat :
        IsHidChar(peer, i, j) /\ d # 0 /\ <<i, j, d>> \in unread =>
            \/ Done(i, j)
            \/ /\ i = at["svcs"] + 1 /\ j = at["chrs"] + 1
               /\ pc \in {"descr", "ref"} /\ d <= at["dscs"]

\* The report K is about to add, of which the first descriptors are known.
RefKnown(d) == DescrsFound[d] = "RPT_REF" /\ <<cur["svcs"], cur["chrs"], d>> \notin unread
Described == IF pc \in {"descr", "ref"} THEN at["dscs"] ELSE 0
ReportInv ==
    pc \in Describing /\ Svc.uuid = "HID" =>
        /\ report.handle = <<cur["svcs"], cur["chrs"]>>
        /\ report.proto = (IF Chr.uuid = "RPT" THEN "REPORT" ELSE "BOOT")
        /\ report.notify = Chr.notify /\ report.map = hidindex
        /\ report.type = (IF \E d \in 1 .. Described : RefKnown(d)
                          THEN Chr.type ELSE BootType(Chr.uuid))
        /\ IF Chr.notify THEN IsLast(DescrsFound, "CCC", Described, report.ccc)
           ELSE report.ccc = 0

\* A HID service whose protocol mode was read is in report mode.
IsModeOf(p, i, m) == /\ IsHidChar(p, i, m) /\ p[i].chars[m].uuid = "PROTOCOL_MODE"
                     /\ p[i].chars[m].read
ModeInv ==
    pc # "aborted" => \A i, m \in Nat :
        IsModeOf(peer, i, m) /\ Done(i, m) /\ <<i, m, 0>> \notin unread =>
            dev.modes[HidIn(peer, i) + 1] = "REPORT"

\* The battery level is a characteristic of a battery service.
BatteryInv ==
    dev.battery = NoHandle \/ \E i \in DOMAIN peer, j \in Nat :
                                 dev.battery = <<i, j>> /\ peer[i].uuid = "BAS"

\* What has to be subscribed to has been tried or is still to be gone through.
Tried == subscribed \cup refused
IsAwaited(r) == \E t \in DOMAIN todo : todo[t] = Listener(r.handle, r.ccc, TRUE)
SubInv ==
    /\ pc \in Attached =>
          \A a \in DOMAIN dev.reports :
             Listens(dev.reports[a]) /\ dev.reports[a].ccc # 0 =>
                dev.reports[a].handle \in Tried \/ IsAwaited(dev.reports[a])
    /\ pc = "ccc" /\ cb_sem => Head(todo).handle \in Tried

\* The inductive invariant of what the first open learns.
ValuesInv == PnpUnread \/ HeapInv
OpenParts == /\ ValuesInv /\ ListInv /\ ReportInv /\ UnreadInv /\ ModeInv
             /\ BatteryInv /\ SubInv
OpenInv == opens <= 1 => OpenParts
-----------------------------------------------------------------------------
(* The keyboard's tables and the operators over them.                      *)

\* The attribute table of a keyboard, and how it fits the tables.
LEMMA PeerFits ==
    ASSUME NEW p \in Peers \cup {<<>>}
    PROVE  /\ p \in Seq(Service) /\ Len(p) \in Nat /\ Len(p) <= MaxServices
           /\ \A i \in DOMAIN p :
                 /\ i \in 1 .. Len(p) /\ p[i] \in Service
                 /\ p[i].chars \in Seq(Char) /\ Len(p[i].chars) \in Nat
                 /\ Len(p[i].chars) <= MaxChars
                 /\ \A j \in DOMAIN p[i].chars :
                       /\ j \in 1 .. Len(p[i].chars) /\ p[i].chars[j] \in Char
                       /\ Len(p[i].chars[j].descrs) \in Nat
                       /\ Len(p[i].chars[j].descrs) < MaxDescrs
<1>1. p \in Seq(Service) /\ (p # <<>> => p \in Peers)
  <2>1. CASE p = <<>>
    BY <2>1
  <2>2. CASE p \in Peers
    BY <2>2, PeersAssumption
  <2> QED BY <2>1, <2>2
<1>2. Len(p) <= MaxServices
  BY <1>1, PeersFit, RoomAssumption
<1>3. ASSUME NEW i \in DOMAIN p
      PROVE  /\ i \in 1 .. Len(p) /\ p[i] \in Service
             /\ p[i].chars \in Seq(Char) /\ Len(p[i].chars) \in Nat
             /\ Len(p[i].chars) <= MaxChars
  <2>1. i \in 1 .. Len(p) /\ p[i] \in Service /\ p \in Peers
    BY <1>1, <1>3
  <2>2. p[i].chars \in Seq(Char)
    BY <2>1 DEF Service
  <2>3. Len(p[i].chars) <= MaxChars
    BY <2>1, PeersFit, <1>3
  <2> QED BY <2>1, <2>2, <2>3
<1>4. ASSUME NEW i \in DOMAIN p, NEW j \in DOMAIN p[i].chars
      PROVE  /\ j \in 1 .. Len(p[i].chars) /\ p[i].chars[j] \in Char
             /\ Len(p[i].chars[j].descrs) \in Nat
             /\ Len(p[i].chars[j].descrs) < MaxDescrs
  <2>1. j \in 1 .. Len(p[i].chars) /\ p[i].chars[j] \in Char /\ p \in Peers
    BY <1>1, <1>3, <1>4
  <2>2. Len(p[i].chars[j].descrs) < MaxDescrs
    BY <2>1, PeersFit, <1>4
  <2>3. Len(p[i].chars[j].descrs) \in Nat
    BY <2>1 DEF Char
  <2> QED BY <2>1, <2>2, <2>3
<1> QED BY <1>1, <1>2, <1>3, <1>4

\* It grows by one at every HID service.
LEMMA HidCounts ==
    ASSUME NEW p \in Seq(Service)
    PROVE  /\ HidIn(p, 1) = 0
           /\ \A i \in Nat : HidIn(p, i + 1) \in Nat
           /\ \A i \in Nat : HidIn(p, i + 1 + 1) = HidIn(p, i + 1)
                                 + (IF p[i + 1].uuid = "HID" THEN 1 ELSE 0)
           /\ \A i, j \in Nat \ {0} : i <= j => HidIn(p, i) <= HidIn(p, j)
<1> DEFINE H(i) == {k \in 1 .. i - 1 : p[k].uuid = "HID"}
<1>1. \A i \in Nat : IsFiniteSet(H(i)) /\ Cardinality(H(i)) \in Nat
  <2> SUFFICES ASSUME NEW i \in Nat PROVE IsFiniteSet(H(i))
    BY FS_CardinalityType
  <2>1. IsFiniteSet(1 .. i - 1)
    BY FS_Interval
  <2> QED BY <2>1, FS_Subset
<1>2. HidIn(p, 1) = 0
  <2>1. H(1) = {}
    OBVIOUS
  <2> QED BY <2>1, FS_EmptySet DEF HidIn
<1>3. ASSUME NEW i \in Nat \ {0}
      PROVE  HidIn(p, i + 1) = HidIn(p, i) + (IF p[i].uuid = "HID" THEN 1 ELSE 0)
  <2>1. CASE p[i].uuid = "HID"
    <3>1. H(i + 1) = H(i) \cup {i} /\ i \notin H(i)
      BY <2>1
    <3> QED BY <2>1, <3>1, <1>1, FS_AddElement DEF HidIn
  <2>2. CASE p[i].uuid # "HID"
    <3>1. H(i + 1) = H(i)
      BY <2>2
    <3>2. HidIn(p, i + 1) = HidIn(p, i) /\ HidIn(p, i) \in Nat
      BY <3>1, <1>1 DEF HidIn
    <3> QED BY <2>2, <3>2
  <2> QED BY <2>1, <2>2
<1>4. ASSUME NEW i \in Nat \ {0}, NEW j \in Nat \ {0}, i <= j
      PROVE  HidIn(p, i) <= HidIn(p, j)
  <2>1. H(i) \subseteq H(j)
    BY <1>4
  <2> QED BY <2>1, <1>1, FS_Subset DEF HidIn
<1>5. ASSUME NEW i \in Nat
      PROVE  HidIn(p, i + 1 + 1) = HidIn(p, i + 1) + (IF p[i + 1].uuid = "HID" THEN 1 ELSE 0)
  <2> DEFINE n == i + 1
  <2>1. n \in Nat \ {0}
    OBVIOUS
  <2> HIDE DEF n
  <2>2. HidIn(p, n + 1) = HidIn(p, n) + (IF p[n].uuid = "HID" THEN 1 ELSE 0)
    BY <2>1, <1>3
  <2> QED BY <2>2 DEF n
<1>6. ASSUME NEW i \in Nat PROVE HidIn(p, i + 1) \in Nat
  <2>1. i + 1 \in Nat
    OBVIOUS
  <2>2. Cardinality(H(i + 1)) \in Nat
    BY <1>1, <2>1
  <2> QED BY <2>2 DEF HidIn
<1> QED BY <1>2, <1>4, <1>5, <1>6

\* Every HID service has a place in arrays of the length that was counted.
LEMMA HidSlot ==
    ASSUME NEW p \in Seq(Service), NEW i \in DOMAIN p, p[i].uuid = "HID"
    PROVE  HidIn(p, i) \in Nat /\ HidIn(p, i) < HidIn(p, Len(p) + 1)
           /\ HidIn(p, Len(p) + 1) \in Nat
<1>1. PICK k \in Nat : i = k + 1 /\ k + 1 <= Len(p)
  <2>1. i \in 1 .. Len(p)
    OBVIOUS
  <2>2. i - 1 \in Nat /\ i = (i - 1) + 1
    BY <2>1
  <2> QED BY <2>1, <2>2
<1>2. HidIn(p, k + 1) \in Nat /\ HidIn(p, k + 1 + 1) = HidIn(p, k + 1) + 1
  BY <1>1, HidCounts
<1>3. k + 1 + 1 \in Nat \ {0} /\ Len(p) + 1 \in Nat \ {0} /\ k + 1 + 1 <= Len(p) + 1
  BY <1>1
<1>4. HidIn(p, k + 1 + 1) <= HidIn(p, Len(p) + 1) /\ HidIn(p, Len(p) + 1) \in Nat
  BY <1>3, HidCounts
<1> QED BY <1>1, <1>2, <1>4

\* An entry of a finished table is the one K expects.
LEMMA EntryExact ==
    ASSUME NEW k \in Kinds, Shape, Exact(k), at[k] < discovered[k],
           discovered[k] <= Room[k]
    PROVE  Entries(k) = {at[k] + 1} /\ at[k] + 1 <= Total(k)
<1>1. discovered[k] = Total(k) /\ Total(k) \in Nat /\ at[k] \in Nat
  BY DEF Exact, Shape, TableType, LoopType
<1>2. result[k][(at[k] + 1) - 1] = at[k] + 1
  BY <1>1 DEF Exact
<1>3. at[k] \in DOMAIN result[k]
  <2>1. Room[k] \in Nat /\ discovered[k] \in Nat
    BY RoomAssumption DEF Shape, ControlType, TableType, LoopType, Room, Kinds
  <2>2. DOMAIN result[k] = 0 .. Room[k] - 1
    BY DEF Shape, ControlType, TableType, LoopType
  <2> QED BY <1>1, <2>1, <2>2
<1> QED BY <1>1, <1>2, <1>3 DEF Entries
-----------------------------------------------------------------------------
(* The first open never leaves its tables, whatever can fail.              *)

FitParts == Shape /\ WaitInv /\ TableInv /\ LoopInv /\ HidInv

\* In the first open the entry that K takes is the next one, always.
LEMMA NextServiceIs ==
    ASSUME FitParts, NextService
    PROVE  LET e == at["svcs"] + 1 IN
           /\ e \in 1 .. Len(peer) /\ e \in DOMAIN peer
           /\ cur' = [cur EXCEPT !["svcs"] = e]
           /\ \/ /\ peer[e].uuid = "other"
                 /\ Advance("svcs") /\ UNCHANGED <<result, proc, pc>>
              \/ /\ peer[e].uuid # "other"
                 /\ Start("chrs") /\ pc' = "chrs"
                 /\ result' = [result EXCEPT !["chrs"] = Fresh("chrs")]
                 /\ UNCHANGED at
<1> USE DEF FitParts
<1>1. Exact("svcs") /\ at["svcs"] < discovered["svcs"] /\ at["svcs"] \in Nat
  BY DEF NextService, TableInv, TableOK, Loop, PCs, Shape, ControlType, TableType, LoopType, Kinds
<1>2. Entries("svcs") = {at["svcs"] + 1} /\ at["svcs"] + 1 <= Total("svcs")
  BY <1>1, EntryExact DEF Kinds, TableInv, TableOK
<1>3. peer \in Seq(Service)
  BY PeerFits DEF Shape, ControlType, TableType, LoopType
<1> DEFINE e == at["svcs"] + 1
<1>4. e \in 1 .. Len(peer) /\ e \in DOMAIN peer /\ e # 0
  BY <1>1, <1>2, <1>3 DEF Total
<1> HIDE DEF e
<1>5. cur' = [cur EXCEPT !["svcs"] = e]
  BY <1>2 DEF NextService, e
<1>6. IF e = 0 \/ peer[e].uuid = "other"
      THEN Advance("svcs") /\ UNCHANGED <<result, proc, pc>>
      ELSE /\ Start("chrs") /\ pc' = "chrs"
           /\ result' = [result EXCEPT !["chrs"] = Fresh("chrs")]
           /\ UNCHANGED at
  <2>1. Entries("svcs") = {e}
    BY <1>2 DEF e
  <2> QED BY <2>1 DEF NextService
<1> QED BY <1>4, <1>5, <1>6 DEF e

\* K takes the next characteristic of the service, with one of the branches.
LEMMA NextCharIs ==
    ASSUME FitParts, NextChar
    PROVE  LET e == at["chrs"] + 1 IN
           /\ e \in 1 .. Len(Svc.chars) /\ e \in DOMAIN Svc.chars
           /\ cur' = [cur EXCEPT !["chrs"] = e]
           /\ SkipChar(e) \/ ReadChar(e) \/ ReadCharFails(e) \/ BatteryChar(e)
              \/ ReportChar(e)
<1> USE DEF FitParts
<1>1. Exact("chrs") /\ at["chrs"] < discovered["chrs"] /\ at["chrs"] \in Nat
  BY DEF NextChar, TableInv, TableOK, Loop, Shape, ControlType, TableType, LoopType, Kinds,
     InService
<1>2. Entries("chrs") = {at["chrs"] + 1} /\ at["chrs"] + 1 <= Total("chrs")
  BY <1>1, EntryExact DEF Kinds, TableInv, TableOK
<1>3. Svc.chars \in Seq(Char)
  <2>1. cur["svcs"] \in DOMAIN peer
    BY PeerFits DEF LoopInv, Shape, ControlType, TableType, LoopType, NextChar, InService, Kinds
  <2> QED BY <2>1, PeerFits DEF Shape, ControlType, TableType, LoopType, Svc
<1> DEFINE e == at["chrs"] + 1
<1>4. e \in 1 .. Len(Svc.chars) /\ e \in DOMAIN Svc.chars
  BY <1>1, <1>2, <1>3 DEF Total
<1>5. Entries("chrs") = {e}
  BY <1>2
<1> HIDE DEF e
<1>6. /\ cur' = [cur EXCEPT !["chrs"] = e]
      /\ SkipChar(e) \/ ReadChar(e) \/ ReadCharFails(e) \/ BatteryChar(e)
         \/ ReportChar(e)
  BY <1>5 DEF NextChar
<1> QED BY <1>4, <1>6 DEF e

\* K takes the next descriptor of the characteristic.
LEMMA NextDescrIs ==
    ASSUME FitParts, NextDescr
    PROVE  LET e == at["dscs"] + 1 IN
           /\ e \in 1 .. Len(DescrsFound)
           /\ cur' = [cur EXCEPT !["dscs"] = e]
           /\ dev' = IF Svc.uuid = "BAS" /\ Chr.notify /\ DescrsFound[e] = "CCC"
                     THEN [dev EXCEPT !.battery_ccc = e] ELSE dev
           /\ report' = IF Svc.uuid = "HID" /\ report.notify /\ DescrsFound[e] = "CCC"
                        THEN [report EXCEPT !.ccc = e] ELSE report
           /\ IF Svc.uuid = "HID" /\ DescrsFound[e] = "RPT_REF"
              THEN \/ ReadStarts /\ pc' = "ref" /\ UNCHANGED <<at, unread>>
                   \/ /\ ReadFails /\ Advance("dscs") /\ UNCHANGED pc
                      /\ unread' = unread \cup {<<cur["svcs"], cur["chrs"], e>>}
              ELSE Advance("dscs") /\ UNCHANGED <<proc, pc, unread>>
<1> USE DEF FitParts
<1>1. Exact("dscs") /\ at["dscs"] < discovered["dscs"] /\ at["dscs"] \in Nat
  BY DEF NextDescr, TableInv, TableOK, Loop, Shape, ControlType, TableType, LoopType, Kinds
<1>2. Entries("dscs") = {at["dscs"] + 1} /\ at["dscs"] + 1 <= Total("dscs")
  BY <1>1, EntryExact DEF Kinds, TableInv, TableOK
<1> DEFINE e == at["dscs"] + 1
<1>3. e \in 1 .. Len(DescrsFound) /\ e # 0
  BY <1>1, <1>2 DEF Total, Exact
<1>4. Entries("dscs") = {e}
  BY <1>2
<1> HIDE DEF e
<1>5. IsDescr(e, "CCC") = (DescrsFound[e] = "CCC")
      /\ IsDescr(e, "RPT_REF") = (DescrsFound[e] = "RPT_REF")
  BY <1>3 DEF IsDescr
<1>6. /\ cur' = [cur EXCEPT !["dscs"] = e]
      /\ dev' = IF Svc.uuid = "BAS" /\ Chr.notify /\ IsDescr(e, "CCC")
                THEN [dev EXCEPT !.battery_ccc = e] ELSE dev
      /\ report' = IF Svc.uuid = "HID" /\ report.notify /\ IsDescr(e, "CCC")
                   THEN [report EXCEPT !.ccc = e] ELSE report
      /\ IF Svc.uuid = "HID" /\ IsDescr(e, "RPT_REF")
         THEN \/ ReadStarts /\ pc' = "ref" /\ UNCHANGED <<at, unread>>
              \/ /\ ReadFails /\ Advance("dscs") /\ UNCHANGED pc
                 /\ unread' = unread \cup {<<cur["svcs"], cur["chrs"], e>>}
         ELSE Advance("dscs") /\ UNCHANGED <<proc, pc, unread>>
  BY <1>4 DEF NextDescr
<1> QED BY <1>3, <1>5, <1>6 DEF e

\* The service and the characteristic K works on are the keyboard's.
LEMMA CurrentIs ==
    ASSUME FitParts
    PROVE  /\ pc \in InService \cup {"chrs"} =>
                 /\ cur["svcs"] \in DOMAIN peer /\ Svc \in Service
                 /\ Svc.chars \in Seq(Char) /\ Len(Svc.chars) <= MaxChars
           /\ pc \in AtChar =>
                 /\ cur["chrs"] \in DOMAIN Svc.chars /\ Chr \in Char
                 /\ Len(DescrsFound) \in Nat /\ Len(DescrsFound) <= MaxDescrs
<1> USE DEF FitParts
<1>1. ASSUME pc \in InService \cup {"chrs"}
      PROVE  /\ cur["svcs"] \in DOMAIN peer /\ Svc \in Service
             /\ Svc.chars \in Seq(Char) /\ Len(Svc.chars) <= MaxChars
  <2>1. cur["svcs"] \in DOMAIN peer
    BY <1>1, PeerFits DEF LoopInv, Shape, ControlType, TableType, LoopType, Kinds
  <2> QED BY <2>1, PeerFits DEF Shape, ControlType, TableType, LoopType, Svc
<1>2. ASSUME pc \in AtChar
      PROVE  /\ cur["chrs"] \in DOMAIN Svc.chars /\ Chr \in Char
             /\ Len(DescrsFound) \in Nat /\ Len(DescrsFound) <= MaxDescrs
  <2>1. cur["chrs"] \in DOMAIN Svc.chars
    BY <1>1, <1>2 DEF LoopInv, Shape, ControlType, TableType, LoopType, Kinds, AtChar, InService
  <2>2. Chr \in Char /\ Len(Chr.descrs) \in Nat /\ Len(Chr.descrs) < MaxDescrs
    BY <1>1, <1>2, <2>1, PeerFits
       DEF Shape, ControlType, TableType, LoopType, Svc, Chr, AtChar, InService
  <2>3. Chr.descrs \in Seq({"CCC", "RPT_REF", "other"})
    BY <2>2 DEF Char
  <2>4. Len(DescrsFound) \in {Len(Chr.descrs), Len(Chr.descrs) + 1}
    <3> HIDE DEF FitParts
    <3>1. Len(Chr.descrs \o <<"other">>) = Len(Chr.descrs) + 1
      BY <2>3
    <3>2. Len(Chr.descrs \o <<>>) = Len(Chr.descrs)
      BY <2>3
    <3> QED BY <3>1, <3>2 DEF DescrsFound
  <2>5. Len(DescrsFound) \in Nat /\ Len(DescrsFound) <= MaxDescrs
    <3> HIDE DEF FitParts
    <3>1. MaxDescrs \in Nat
      BY RoomAssumption
    <3> QED BY <2>2, <2>4, <3>1
  <2> QED BY <2>1, <2>2, <2>5
<1> QED BY <1>1, <1>2
\* Only the first open of a boot counts from 0, only a reboot counts back.
LEMMA OpensStays ==
    ASSUME CountType, ControlType, [Next]_vars
    PROVE  \/ opens' = opens /\ opens # 0
           \/ Init' /\ opens' = 0
           \/ UNCHANGED vars
           \/ \E p \in Peers : Open(p)
<1> USE DEF CountType, procVars, tabVars, loopVars, devVars, subVars
<1>1. ASSUME Found("svcs", "service") PROVE opens' = opens /\ opens # 0
  BY <1>1 DEF Found, Init, NoProc, Kinds
<1>2. ASSUME Found("chrs", "char") PROVE opens' = opens /\ opens # 0
  BY <1>2 DEF Found, Init, NoProc, Kinds
<1>3. ASSUME Found("dscs", "descr") PROVE opens' = opens /\ opens # 0
  BY <1>3 DEF Found, Init, NoProc, Kinds
<1>4. ASSUME NextService PROVE opens' = opens /\ opens # 0
  BY <1>4 DEF NextService, Init, NoProc, Kinds
<1>5. ASSUME LastService PROVE opens' = opens /\ opens # 0
  BY <1>5 DEF LastService, Init, NoProc, Kinds
<1>6. ASSUME NextChar PROVE opens' = opens /\ opens # 0
  BY <1>6 DEF NextChar, Init, NoProc, Kinds
<1>7. ASSUME LastChar PROVE opens' = opens /\ opens # 0
  BY <1>7 DEF LastChar, LeaveService, Init, NoProc, Kinds
<1>8. ASSUME ReadReturn PROVE opens' = opens /\ opens # 0
  BY <1>8 DEF ReadReturn, StoreRead, Init, NoProc, Kinds
<1>9. ASSUME Describe PROVE opens' = opens /\ opens # 0
  BY <1>9 DEF Describe, Init, NoProc, Kinds
<1>10. ASSUME NextDescr PROVE opens' = opens /\ opens # 0
  BY <1>10 DEF NextDescr, Init, NoProc, Kinds
<1>11. ASSUME RefReturn PROVE opens' = opens /\ opens # 0
  BY <1>11 DEF RefReturn, Init, NoProc, Kinds
<1>12. ASSUME LastDescr PROVE opens' = opens /\ opens # 0
  BY <1>12 DEF LastDescr, LeaveChar, Init, NoProc, Kinds
<1>13. ASSUME Reconnect PROVE opens' = opens /\ opens # 0
  BY <1>13 DEF Reconnect, Init, NoProc, Kinds
<1>14. ASSUME AttachNext PROVE opens' = opens /\ opens # 0
  BY <1>14 DEF AttachNext, Init, NoProc, Kinds
<1>15. ASSUME ValueReturn PROVE opens' = opens /\ opens # 0
  BY <1>15 DEF ValueReturn, Init, NoProc, Kinds
<1>16. ASSUME CccReturn PROVE opens' = opens /\ opens # 0
  BY <1>16 DEF CccReturn, Init, NoProc, Kinds
<1>17. ASSUME NEW k \in Kinds, Discovered(k) PROVE opens' = opens /\ opens # 0
  BY <1>17 DEF Discovered, Init, NoProc, Kinds
<1>18. ASSUME ReadData PROVE opens' = opens /\ opens # 0
  BY <1>18 DEF ReadData, Init, NoProc, Kinds
<1>19. ASSUME ProcDone PROVE opens' = opens /\ opens # 0
  BY <1>19 DEF ProcDone, Init, NoProc, Kinds
<1>20. ASSUME ProcError PROVE opens' = opens /\ opens # 0
  BY <1>20 DEF ProcError, Init, NoProc, Kinds
<1>21. ASSUME Reboot PROVE Init' /\ opens' = 0
  BY <1>21 DEF Reboot, Init, NoProc, Fresh, Kinds
<1> QED BY <1>1, <1>2, <1>3, <1>4, <1>5, <1>6, <1>7, <1>8, <1>9, <1>10, <1>11, <1>12, <1>13,
   <1>14, <1>15, <1>16, <1>17, <1>18, <1>19, <1>20, <1>21 DEF Next, HostNext, vars

\* Only Open counts the opens, only Reboot counts back.
LEMMA CountStep ==
    ASSUME CountType, ControlType, [Next]_vars
    PROVE  CountType'
<1>1. CASE opens' = opens /\ opens # 0
  BY <1>1 DEF CountType
<1>2. CASE Init' /\ opens' = 0
  BY <1>2 DEF CountType
<1>3. CASE UNCHANGED vars
  BY <1>3 DEF CountType, Init, vars, procVars, tabVars, loopVars, devVars, subVars
<1>4. ASSUME NEW p \in Peers, Open(p) PROVE CountType'
  BY <1>4 DEF CountType, Open
<1> QED BY <1>1, <1>2, <1>3, <1>4, OpensStays

\* The peer, the program counter and the procedure keep their types.
LEMMA ControlStep ==
    ASSUME FitParts, [Next]_vars
    PROVE  ControlType'
<1> USE
   DEF procVars, tabVars, loopVars, devVars, subVars, FitParts, Shape, ControlType, PCs,
       InService, Attached, Kinds
<1>1. ASSUME NEW p \in Peers, Open(p) PROVE ControlType'
  BY <1>1 DEF Open, Start
<1>2. CASE Found("svcs", "service")
  BY <1>2 DEF Found
<1>3. CASE Found("chrs", "char")
  BY <1>3 DEF Found
<1>4. CASE Found("dscs", "descr")
  BY <1>4 DEF Found
<1>5. CASE NextService
  BY <1>5, NextServiceIs DEF NextService, Start, Advance, FitParts, Shape
<1>6. CASE LastService
  BY <1>6 DEF LastService
<1>7. CASE NextChar
  BY <1>7, NextCharIs
     DEF NextChar, SkipChar, ReadChar, ReadCharFails, BatteryChar, ReportChar, AfterRead,
         ReadStarts, ReadFails
<1>8. CASE LastChar
  BY <1>8 DEF LastChar, LeaveService, Advance
<1>9. CASE ReadReturn
  BY <1>9 DEF ReadReturn, StoreRead, FreeBlock, AfterRead, Advance
<1>10. CASE Describe
  BY <1>10 DEF Describe, Start
<1>11. CASE NextDescr
  BY <1>11, NextDescrIs DEF NextDescr, ReadStarts, ReadFails
<1>12. CASE RefReturn
  BY <1>12 DEF RefReturn, FreeBlock, Advance
<1>13. CASE LastDescr
  BY <1>13 DEF LastDescr, LeaveChar, Advance
<1>14. CASE Reconnect
  BY <1>14 DEF Reconnect
<1>15. CASE AttachNext
  BY <1>15 DEF AttachNext, Start
<1>16. CASE ValueReturn
  <2>1. proc' = proc \/ proc' = [kind |-> "ccc", found |-> 0]
    BY <1>16 DEF ValueReturn, Start
  <2>2. pc' \in {"ccc", "attach"} /\ cb_sem' = FALSE
    BY <1>16 DEF ValueReturn
  <2>3. UNCHANGED <<peer, status_ok>>
    BY <1>16 DEF ValueReturn
  <2>4. proc' \in [kind : Kinds \cup {"none", "read", "value", "ccc"}, found : Nat]
    BY <2>1
  <2> QED BY <2>2, <2>3, <2>4
<1>17. CASE CccReturn
  BY <1>17 DEF CccReturn
<1>18. ASSUME NEW k \in Kinds, Discovered(k) PROVE ControlType'
  BY <1>18 DEF Discovered
<1>19. CASE ReadData
  BY <1>19 DEF ReadData
<1>20. CASE ProcDone
  BY <1>20 DEF ProcDone, NoProc
<1>21. CASE ProcError
  BY <1>21 DEF ProcError, NoProc
<1>22. CASE Reboot
  BY <1>22 DEF Reboot, NoProc
<1>23. CASE UNCHANGED vars
  BY <1>23 DEF vars
<1> QED BY <1>1, <1>2, <1>3, <1>4, <1>5, <1>6, <1>7, <1>8, <1>9, <1>10, <1>11, <1>12, <1>13,
   <1>14, <1>15, <1>16, <1>17, <1>18, <1>19, <1>20, <1>21, <1>22, <1>23 DEF Next, HostNext

\* The loop counters and the counters of the tables stay natural numbers.
LEMMA LoopStep ==
    ASSUME FitParts, [Next]_vars
    PROVE  LoopType'
<1> USE DEF procVars, tabVars, loopVars, devVars, subVars, FitParts, Shape, LoopType, Kinds
<1>1. ASSUME NEW p \in Peers, Open(p) PROVE LoopType'
  BY <1>1 DEF Open, Start
<1>2. CASE Found("svcs", "service")
  BY <1>2 DEF Found
<1>3. CASE Found("chrs", "char")
  BY <1>3 DEF Found
<1>4. CASE Found("dscs", "descr")
  BY <1>4 DEF Found
<1>5. CASE NextService
  <2>1. \/ UNCHANGED at \/ Advance("svcs")
    BY <1>5, NextServiceIs
  <2>2. cur' = [cur EXCEPT !["svcs"] = at["svcs"] + 1]
    BY <1>5, NextServiceIs
  <2> QED BY <1>5, <2>1, <2>2 DEF NextService, Advance
<1>6. CASE LastService
  BY <1>6 DEF LastService
<1>7. CASE NextChar
  <2>1. \/ UNCHANGED at \/ Advance("chrs")
    BY <1>7, NextCharIs DEF SkipChar, ReadChar, ReadCharFails, BatteryChar, ReportChar, AfterRead
  <2>2. cur' = [cur EXCEPT !["chrs"] = at["chrs"] + 1]
    BY <1>7, NextCharIs
  <2> QED BY <1>7, <2>1, <2>2 DEF NextChar, Advance
<1>8. CASE LastChar
  BY <1>8 DEF LastChar, LeaveService, Advance, NextHid
<1>9. CASE ReadReturn
  <2>1. \/ UNCHANGED at \/ Advance("chrs")
    BY <1>9 DEF ReadReturn, StoreRead, AfterRead
  <2> QED BY <1>9, <2>1 DEF ReadReturn, StoreRead, Advance
<1>10. CASE Describe
  BY <1>10 DEF Describe, Start
<1>11. CASE NextDescr
  <2>1. \/ UNCHANGED at \/ Advance("dscs")
    BY <1>11, NextDescrIs
  <2>2. cur' = [cur EXCEPT !["dscs"] = at["dscs"] + 1]
    BY <1>11, NextDescrIs
  <2> QED BY <1>11, <2>1, <2>2 DEF NextDescr, Advance
<1>12. CASE RefReturn
  BY <1>12 DEF RefReturn, FreeBlock, Advance
<1>13. CASE LastDescr
  BY <1>13 DEF LastDescr, LeaveChar, Advance
<1>14. CASE Reconnect
  BY <1>14 DEF Reconnect
<1>15. CASE AttachNext
  BY <1>15 DEF AttachNext, Start
<1>16. CASE ValueReturn
  BY <1>16 DEF ValueReturn, Start
<1>17. CASE CccReturn
  BY <1>17 DEF CccReturn
<1>18. ASSUME NEW k \in Kinds, Discovered(k) PROVE LoopType'
  BY <1>18 DEF Discovered
<1>19. CASE ReadData
  BY <1>19 DEF ReadData
<1>20. CASE ProcDone
  BY <1>20 DEF ProcDone
<1>21. CASE ProcError
  BY <1>21 DEF ProcError
<1>22. CASE Reboot
  BY <1>22 DEF Reboot
<1>23. CASE UNCHANGED vars
  BY <1>23 DEF vars
<1> QED BY <1>1, <1>2, <1>3, <1>4, <1>5, <1>6, <1>7, <1>8, <1>9, <1>10, <1>11, <1>12, <1>13,
   <1>14, <1>15, <1>16, <1>17, <1>18, <1>19, <1>20, <1>21, <1>22, <1>23 DEF Next, HostNext

\* The tables keep their sizes.
LEMMA TableStep ==
    ASSUME FitParts, [Next]_vars
    PROVE  TableType'
<1> USE DEF procVars, tabVars, loopVars, devVars, subVars, FitParts, Shape, TableType
<1>1. ASSUME NEW p \in Peers, Open(p) PROVE TableType'
  <2>1. result' = [result EXCEPT !["svcs"] = Fresh("svcs")]
    BY <1>1 DEF Open
  <2>2. Fresh("svcs") \in [0 .. Room["svcs"] - 1 -> Nat]
    BY DEF Fresh
  <2> QED BY <2>1, <2>2
<1>2. CASE Found("svcs", "service")
  BY <1>2 DEF Found
<1>3. CASE Found("chrs", "char")
  BY <1>3 DEF Found
<1>4. CASE Found("dscs", "descr")
  BY <1>4 DEF Found
<1>5. CASE NextService
  <2>1. result' = [result EXCEPT !["chrs"] = Fresh("chrs")] \/ UNCHANGED result
    BY <1>5, NextServiceIs DEF NextService
  <2>2. Fresh("chrs") \in [0 .. Room["chrs"] - 1 -> Nat]
    BY DEF Fresh
  <2> QED BY <2>1, <2>2
<1>6. CASE LastService
  BY <1>6 DEF LastService
<1>7. CASE NextChar
  BY <1>7 DEF NextChar
<1>8. CASE LastChar
  BY <1>8 DEF LastChar, LeaveService
<1>9. CASE ReadReturn
  BY <1>9 DEF ReadReturn, StoreRead
<1>10. CASE Describe
  <2>1. result' = [result EXCEPT !["dscs"] = Fresh("dscs")]
    BY <1>10 DEF Describe
  <2>2. Fresh("dscs") \in [0 .. Room["dscs"] - 1 -> Nat]
    BY DEF Fresh
  <2> QED BY <2>1, <2>2
<1>11. CASE NextDescr
  BY <1>11 DEF NextDescr
<1>12. CASE RefReturn
  BY <1>12 DEF RefReturn, FreeBlock, Advance
<1>13. CASE LastDescr
  BY <1>13 DEF LastDescr, LeaveChar
<1>14. CASE Reconnect
  BY <1>14 DEF Reconnect
<1>15. CASE AttachNext
  BY <1>15 DEF AttachNext, Start
<1>16. CASE ValueReturn
  BY <1>16 DEF ValueReturn, Start
<1>17. CASE CccReturn
  BY <1>17 DEF CccReturn
<1>18. ASSUME NEW k \in Kinds, Discovered(k) PROVE TableType'
  <2>1. \A m \in Kinds \ {k} : result'[m] = result[m]
    BY <1>18 DEF Discovered
  <2>2. DOMAIN result' = Kinds
    BY <1>18 DEF Discovered
  <2>3. result'[k] = [i \in DOMAIN result[k] |-> IF i = discovered[k] THEN proc.found + 1
                                               ELSE result[k][i]]
    BY <1>18 DEF Discovered
  <2>4. result'[k] \in [0 .. Room[k] - 1 -> Nat]
    <3>1. proc.found + 1 \in Nat
      BY DEF ControlType
    <3>2. result[k] \in [0 .. Room[k] - 1 -> Nat]
      OBVIOUS
    <3> HIDE DEF FitParts, TableType
    <3> QED BY <2>3, <3>1, <3>2
  <2> QED BY <2>1, <2>2, <2>4
<1>19. CASE ReadData
  BY <1>19 DEF ReadData
<1>20. CASE ProcDone
  BY <1>20 DEF ProcDone
<1>21. CASE ProcError
  BY <1>21 DEF ProcError
<1>22. CASE Reboot
  <2>1. result' = [m \in Kinds |-> Fresh(m)]
    BY <1>22 DEF Reboot
  <2> QED BY <2>1 DEF Fresh
<1>23. CASE UNCHANGED vars
  BY <1>23 DEF vars
<1> QED BY <1>1, <1>2, <1>3, <1>4, <1>5, <1>6, <1>7, <1>8, <1>9, <1>10, <1>11, <1>12, <1>13,
   <1>14, <1>15, <1>16, <1>17, <1>18, <1>19, <1>20, <1>21, <1>22, <1>23 DEF Next, HostNext

\* Freeing a block changes this block only.
LEMMA FreeBlockIs ==
    ASSUME heap \in Seq(Block), NEW b, FreeBlock(b)
    PROVE  /\ heap' \in Seq(Block) /\ Len(heap') = Len(heap)
           /\ \A i \in DOMAIN heap : i # b => heap'[i] = heap[i]
           /\ b \in DOMAIN heap /\ heap[b] = "live" => heap'[b] = "freed"
<1>1. heap' = [i \in 1 .. Len(heap) |-> IF i # b THEN heap[i]
                     ELSE IF heap[i] = "live" THEN "freed" ELSE "twice"]
  BY DEF FreeBlock
<1>2. \A i \in 1 .. Len(heap) : heap'[i] \in Block
  BY <1>1 DEF Block
<1>3. heap' \in [1 .. Len(heap) -> Block]
  BY <1>1, <1>2
<1> QED BY <1>1, <1>3

\* The types of the fields of the device, and of the device with one of them
\* changed.
LEMMA DeviceIs ==
    ASSUME NEW d \in Device
    PROVE  /\ d.maps_len \in Nat /\ d.maps \in Seq(Nat)
           /\ d.modes \in Seq({"undefined", "REPORT"}) /\ d.strings \in [Strings -> Nat]
           /\ d.battery \in Nat \X Nat /\ d.battery_ccc \in Nat
           /\ d.reports \in Seq(Report)
           /\ \A x \in Nat : [d EXCEPT !.maps_len = x] \in Device
           /\ \A x \in Seq(Nat) : [d EXCEPT !.maps = x] \in Device
           /\ \A x \in Seq({"undefined", "REPORT"}) : [d EXCEPT !.modes = x] \in Device
           /\ \A x \in [Strings -> Nat] : [d EXCEPT !.strings = x] \in Device
           /\ \A x \in Nat \X Nat : [d EXCEPT !.battery = x] \in Device
           /\ \A x \in Nat : [d EXCEPT !.battery_ccc = x] \in Device
           /\ \A x \in Seq(Report) : [d EXCEPT !.reports = x] \in Device
  BY DEF Device

\* A sequence with one element replaced, if there is one at that place.
LEMMA SeqExcept ==
    ASSUME NEW S, NEW s \in Seq(S), NEW i, NEW v \in S
    PROVE  [s EXCEPT ![i] = v] \in Seq(S) /\ Len([s EXCEPT ![i] = v]) = Len(s)
<1>1. [s EXCEPT ![i] = v] \in [1 .. Len(s) -> S]
  <2>1. s \in [1 .. Len(s) -> S]
    OBVIOUS
  <2> QED BY <2>1
<1> QED BY <1>1

\* Listeners goes through the battery level and every report of the list.
LEMMA ListenersIs ==
    ASSUME dev \in Device
    PROVE  /\ Listeners \in Seq(Listening)
           /\ \A a \in DOMAIN dev.reports : \E t \in DOMAIN Listeners :
                 Listeners[t] = Listener(dev.reports[a].handle, dev.reports[a].ccc,
                                         Listens(dev.reports[a]))
<1> DEFINE rs == dev.reports
<1>1. rs \in Seq(Report) /\ dev.battery \in Nat \X Nat /\ dev.battery_ccc \in Nat
  BY DeviceIs
<1>2. BatteryListeners \in Seq(Listening)
  <2>1. Listener(dev.battery, dev.battery_ccc, TRUE) \in Listening
    BY <1>1 DEF Listener, Listening
  <2>2. \A x \in Listening : <<x>> \in Seq(Listening)
    OBVIOUS
  <2>3. << >> \in Seq(Listening)
    OBVIOUS
  <2> QED BY <2>1, <2>2, <2>3 DEF BatteryListeners
<1>3. ReportListeners = [a \in 1 .. Len(rs) |->
                            Listener(rs[a].handle, rs[a].ccc, Listens(rs[a]))]
  BY <1>1 DEF ReportListeners
<1>4. \A a \in 1 .. Len(rs) : Listener(rs[a].handle, rs[a].ccc, Listens(rs[a])) \in Listening
  <2> SUFFICES ASSUME NEW a \in 1 .. Len(rs)
               PROVE  Listener(rs[a].handle, rs[a].ccc, Listens(rs[a])) \in Listening
    OBVIOUS
  <2>1. rs[a] \in Report
    BY <1>1
  <2>2. Listens(rs[a]) \in BOOLEAN
    BY DEF Listens
  <2> QED BY <2>1, <2>2 DEF Report, Listening, Listener
<1>5. ReportListeners \in Seq(Listening) /\ Len(ReportListeners) = Len(rs)
  <2>1. ReportListeners \in [1 .. Len(rs) -> Listening]
    BY <1>3, <1>4
  <2>2. Len(rs) \in Nat
    BY <1>1
  <2> QED BY <2>1, <2>2
<1>6. ASSUME NEW a \in DOMAIN rs
      PROVE  \E t \in DOMAIN Listeners :
                Listeners[t] = Listener(rs[a].handle, rs[a].ccc, Listens(rs[a]))
  <2> DEFINE t == Len(BatteryListeners) + a
  <2>1. a \in 1 .. Len(rs)
    BY <1>1
  <2>2. ReportListeners[a] = Listener(rs[a].handle, rs[a].ccc, Listens(rs[a]))
    BY <2>1, <1>3
  <2>3. t \in DOMAIN Listeners /\ Listeners[t] = ReportListeners[a]
    BY <2>1, <1>2, <1>5 DEF Listeners
  <2> QED BY <2>2, <2>3
<1> QED BY <1>2, <1>5, <1>6 DEF Listeners

\* The device, its heap blocks and the lists keep their types.
LEMMA DataStep ==
    ASSUME FitParts, [Next]_vars
    PROVE  DataType'
<1> USE DEF procVars, tabVars, loopVars, devVars, subVars, FitParts, Shape, DataType
<1>1. ASSUME NEW p \in Peers, Open(p) PROVE DataType'
  <2>1. NewDev \in Device
    BY DEF NewDev, Device, NoHandle
  <2>2. NoReport \in Report
    BY DEF NoReport, Report, NoHandle
  <2> QED BY <1>1, <2>1, <2>2 DEF Open
<1>2. CASE Found("svcs", "service")
  <2>1. dev.maps_len \in Nat
    BY DeviceIs
  <2>2. [i \in 1 .. dev.maps_len |-> 0] \in Seq(Nat)
    BY <2>1
  <2>3. [i \in 1 .. dev.maps_len |-> "undefined"] \in Seq({"undefined", "REPORT"})
    BY <2>1
  <2>4. dev' = [[dev EXCEPT !.maps = [i \in 1 .. dev.maps_len |-> 0]]
                   EXCEPT !.modes = [i \in 1 .. dev.maps_len |-> "undefined"]]
    BY <1>2 DEF Found, Device
  <2>5. dev' \in Device
    BY <2>2, <2>3, <2>4, DeviceIs
  <2> QED BY <1>2, <2>5 DEF Found
<1>3. CASE Found("chrs", "char")
  BY <1>3 DEF Found
<1>4. CASE Found("dscs", "descr")
  BY <1>4 DEF Found
<1>5. CASE NextService
  BY <1>5 DEF NextService
<1>6. CASE LastService
  BY <1>6, ListenersIs DEF LastService
<1>7. CASE NextChar
  <2> DEFINE e == at["chrs"] + 1
  <2>1. heap' \in Seq(Block) /\ Len(heap') = Len(heap)
    <3>1. UNCHANGED heap \/ FreeBlock(rdata)
      BY <1>7, NextCharIs DEF SkipChar, ReadChar, ReadCharFails, BatteryChar, ReportChar
    <3> QED BY <3>1, FreeBlockIs
  <2>2. dev' \in Device
    <3>1. UNCHANGED dev \/ dev' = [dev EXCEPT !.battery = <<cur["svcs"], e>>]
      BY <1>7, NextCharIs DEF SkipChar, ReadChar, ReadCharFails, BatteryChar, ReportChar
    <3>2. cur["svcs"] \in Nat /\ e \in Nat
      BY DEF Shape, LoopType, Kinds
    <3> QED BY <3>1, <3>2, DeviceIs
  <2>3. report' \in Report
    <3>1. UNCHANGED report \/ report' = NewReport(cur["svcs"], e)
      BY <1>7, NextCharIs DEF SkipChar, ReadChar, ReadCharFails, BatteryChar, ReportChar
    <3>2. cur["svcs"] \in Nat /\ e \in Nat /\ hidindex \in Nat
      BY DEF Shape, LoopType, Kinds
    <3>3. Svc.chars[e] \in Char
      <4>1. e \in DOMAIN Svc.chars
        BY <1>7, NextCharIs
      <4>2. Svc.chars \in Seq(Char)
        BY <1>7, CurrentIs DEF NextChar, InService
      <4> HIDE DEF e
      <4> QED BY <4>1, <4>2
    <3>4. NewReport(cur["svcs"], e) \in Report
      BY <3>2, <3>3 DEF NewReport, Report, BootType, Char, Svc
    <3> QED BY <3>1, <3>4
  <2> QED BY <1>7, <2>1, <2>2, <2>3 DEF NextChar
<1>8. CASE LastChar
  BY <1>8 DEF LastChar, LeaveService
<1>9. CASE ReadReturn
  <2>1. heap' \in Seq(Block) /\ Len(heap') = Len(heap)
    <3>1. UNCHANGED heap \/ FreeBlock(rdata')
      BY <1>9 DEF ReadReturn, StoreRead
    <3> QED BY <3>1, FreeBlockIs
  <2>2. rdata' = Len(heap) /\ Len(heap) \in Nat
    BY <1>9 DEF ReadReturn, StoreRead
  <2>3. dev' \in Device
    <3>1. dev.strings \in [Strings -> Nat] /\ dev.maps \in Seq(Nat)
          /\ dev.modes \in Seq({"undefined", "REPORT"})
      BY DeviceIs
    <3>2. [dev.strings EXCEPT ![Chr.uuid] = rdata'] \in [Strings -> Nat]
      BY <2>2, <3>1
    <3>3. [dev.maps EXCEPT ![hidindex + 1] = rdata'] \in Seq(Nat)
      BY <2>2, <3>1, SeqExcept
    <3>4. [dev.modes EXCEPT ![hidindex + 1] = "REPORT"] \in Seq({"undefined", "REPORT"})
      BY <3>1, SeqExcept
    <3>5. \/ dev' = [dev EXCEPT !.strings = [dev.strings EXCEPT ![Chr.uuid] = rdata']]
          \/ dev' = [dev EXCEPT !.maps = [dev.maps EXCEPT ![hidindex + 1] = rdata']]
          \/ dev' = [dev EXCEPT !.modes = [dev.modes EXCEPT ![hidindex + 1] = "REPORT"]]
          \/ dev' = dev
      BY <1>9 DEF ReadReturn, StoreRead
    <3>6. [dev EXCEPT !.strings = [dev.strings EXCEPT ![Chr.uuid] = rdata']] \in Device
      BY <3>2, DeviceIs
    <3>7. [dev EXCEPT !.maps = [dev.maps EXCEPT ![hidindex + 1] = rdata']] \in Device
      BY <3>3, DeviceIs
    <3>8. [dev EXCEPT !.modes = [dev.modes EXCEPT ![hidindex + 1] = "REPORT"]] \in Device
      BY <3>4, DeviceIs
    <3> QED BY <3>5, <3>6, <3>7, <3>8
  <2> QED BY <1>9, <2>1, <2>2, <2>3 DEF ReadReturn, StoreRead
<1>10. CASE Describe
  BY <1>10 DEF Describe, Start
<1>11. CASE NextDescr
  <2>1. at["dscs"] + 1 \in Nat
    BY DEF Shape, LoopType, Kinds
  <2>2. dev' \in {dev, [dev EXCEPT !.battery_ccc = at["dscs"] + 1]}
        /\ report' \in {report, [report EXCEPT !.ccc = at["dscs"] + 1]}
    BY <1>11, NextDescrIs
  <2>3. dev' \in Device /\ report' \in Report
    <3>1. PICK x \in Nat : x = at["dscs"] + 1
      BY <2>1
    <3>2. dev' \in Device
      BY <2>2, <3>1, DeviceIs
    <3>3. [report EXCEPT !.ccc = x] \in Report
      BY DEF Report
    <3> QED BY <2>2, <3>1, <3>2, <3>3
  <2> QED BY <1>11, <2>3 DEF NextDescr
<1>12. CASE RefReturn
  <2>1. heap' \in Seq(Block) /\ Len(heap') = Len(heap)
    BY <1>12, FreeBlockIs DEF RefReturn
  <2>2. report' \in Report
    <3>1. Chr.type \in {"INPUT", "OUTPUT", "FEATURE"}
      BY <1>12, CurrentIs DEF RefReturn, AtChar, Char
    <3> QED BY <1>12, <3>1 DEF RefReturn, Report
  <2> QED BY <1>12, <2>1, <2>2 DEF RefReturn
<1>13. CASE LastDescr
  <2>1. <<report>> \o dev.reports \in Seq(Report)
    BY DeviceIs
  <2>2. dev' \in {dev, [dev EXCEPT !.reports = <<report>> \o dev.reports]}
    BY <1>13 DEF LastDescr, LeaveChar
  <2>3. dev' \in Device
    BY <2>1, <2>2, DeviceIs
  <2> QED BY <1>13, <2>3 DEF LastDescr, LeaveChar
<1>14. CASE Reconnect
  BY <1>14, ListenersIs DEF Reconnect
<1>15. CASE AttachNext
  <2>1. todo # <<>> => Tail(todo) \in Seq(Listening)
    OBVIOUS
  <2> QED BY <1>15, <2>1 DEF AttachNext
<1>16. CASE ValueReturn
  <2>1. todo # <<>>
    BY <1>16 DEF ValueReturn, FitParts, WaitInv
  <2>2. Tail(todo) \in Seq(Listening)
    BY <2>1
  <2> QED BY <1>16, <2>2 DEF ValueReturn
<1>17. CASE CccReturn
  <2>1. todo # <<>>
    BY <1>17 DEF CccReturn, FitParts, WaitInv
  <2>2. Tail(todo) \in Seq(Listening)
    BY <2>1
  <2> QED BY <1>17, <2>2 DEF CccReturn
<1>18. ASSUME NEW k \in Kinds, Discovered(k) PROVE DataType'
  <2>1. dev' \in {dev, [dev EXCEPT !.maps_len = dev.maps_len + 1]}
    BY <1>18 DEF Discovered
  <2>2. dev' \in Device
    <3>1. dev.maps_len + 1 \in Nat
      BY DeviceIs
    <3>2. [dev EXCEPT !.maps_len = dev.maps_len + 1] \in Device
      BY <3>1, DeviceIs
    <3> QED BY <2>1, <3>2
  <2> QED BY <1>18, <2>2 DEF Discovered
<1>19. CASE ReadData
  <2>1. heap' \in Seq(Block) /\ Len(heap') = Len(heap) + 1
    BY <1>19 DEF ReadData, Block
  <2> QED BY <1>19, <2>1 DEF ReadData
<1>20. CASE ProcDone
  BY <1>20 DEF ProcDone
<1>21. CASE ProcError
  BY <1>21 DEF ProcError
<1>22. CASE Reboot
  <2>1. NewDev \in Device
    BY DEF NewDev, Device, NoHandle
  <2>2. NoReport \in Report
    BY DEF NoReport, Report, NoHandle
  <2> QED BY <1>22, <2>1, <2>2 DEF Reboot
<1>23. CASE UNCHANGED vars
  BY <1>23 DEF vars
<1> QED BY <1>1, <1>2, <1>3, <1>4, <1>5, <1>6, <1>7, <1>8, <1>9, <1>10, <1>11, <1>12, <1>13,
   <1>14, <1>15, <1>16, <1>17, <1>18, <1>19, <1>20, <1>21, <1>22, <1>23 DEF Next, HostNext

\* Who waits for what after every step.
LEMMA WaitStep ==
    ASSUME FitParts, [Next]_vars
    PROVE  WaitInv'
<1> USE
   DEF procVars, tabVars, loopVars, devVars, subVars, FitParts, Shape, ControlType, DataType,
       WaitInv, NoProc, Kinds
<1>1. ASSUME NEW p \in Peers, Open(p) PROVE WaitInv'
  BY <1>1 DEF Open, Start
<1>2. CASE Found("svcs", "service")
  BY <1>2 DEF Found
<1>3. CASE Found("chrs", "char")
  BY <1>3 DEF Found
<1>4. CASE Found("dscs", "descr")
  BY <1>4 DEF Found
<1>5. CASE NextService
  BY <1>5, NextServiceIs DEF NextService, Start
<1>6. CASE LastService
  BY <1>6 DEF LastService
<1>7. CASE NextChar
  BY <1>7, NextCharIs DEF NextChar, SkipChar, ReadChar, ReadCharFails, BatteryChar, ReportChar,
                      AfterRead, ReadStarts, ReadFails
<1>8. CASE LastChar
  BY <1>8 DEF LastChar, LeaveService
<1>9. CASE ReadReturn
  BY <1>9 DEF ReadReturn, StoreRead, AfterRead
<1>10. CASE Describe
  BY <1>10 DEF Describe, Start
<1>11. CASE NextDescr
  BY <1>11, NextDescrIs DEF NextDescr, ReadStarts, ReadFails
<1>12. CASE RefReturn
  BY <1>12 DEF RefReturn, FreeBlock, Advance
<1>13. CASE LastDescr
  BY <1>13 DEF LastDescr, LeaveChar
<1>14. CASE Reconnect
  BY <1>14 DEF Reconnect
<1>15. CASE AttachNext
  BY <1>15 DEF AttachNext, Start
<1>16. CASE ValueReturn
  BY <1>16 DEF ValueReturn, Start
<1>17. CASE CccReturn
  BY <1>17 DEF CccReturn
<1>18. ASSUME NEW k \in Kinds, Discovered(k) PROVE WaitInv'
  BY <1>18 DEF Discovered
<1>19. CASE ReadData
  BY <1>19 DEF ReadData
<1>20. CASE ProcDone
  BY <1>20 DEF ProcDone
<1>21. CASE ProcError
  BY <1>21 DEF ProcError
<1>22. CASE Reboot
  BY <1>22 DEF Reboot
<1>23. CASE UNCHANGED vars
  BY <1>23 DEF vars
<1> QED BY <1>1, <1>2, <1>3, <1>4, <1>5, <1>6, <1>7, <1>8, <1>9, <1>10, <1>11, <1>12, <1>13,
   <1>14, <1>15, <1>16, <1>17, <1>18, <1>19, <1>20, <1>21, <1>22, <1>23 DEF Next, HostNext

\* A table that a step leaves alone, and one whose loop is over.
LEMMA TableKept ==
    ASSUME NEW k \in Kinds, TableOK(k), discovered'[k] = discovered[k],
           pc' \in Loop(k) \cup {k} =>
              /\ peer' = peer /\ result'[k] = result[k]
              /\ k # "svcs" => cur'["svcs"] = cur["svcs"]
              /\ k = "dscs" => cur'["chrs"] = cur["chrs"],
           pc' = k => pc = k /\ UNCHANGED <<proc, cb_sem, status_ok>>,
           pc' \in Loop(k) => pc \in Loop(k),
           pc' \notin Loop(k) \cup {k, "aborted"} => pc \notin Loop(k) \cup {k, "aborted"}
    PROVE  TableOK(k)'
<1>1. ASSUME pc' \in Loop(k) \cup {k}
      PROVE  Total(k)' = Total(k) /\ Exact(k)' = Exact(k) /\ Partial(k)' = Partial(k)
  <2>1. Total(k)' = Total(k)
    BY <1>1 DEF Kinds, Total, Svc, Chr, DescrsFound
  <2>2. discovered'[k] = discovered[k] /\ result'[k] = result[k]
    BY <1>1
  <2> QED BY <2>1, <2>2 DEF Exact, Partial
<1> QED BY <1>1 DEF TableOK

\* A table of which nothing is used.
LEMMA TableZero ==
    ASSUME NEW k \in Kinds, discovered'[k] = 0, pc' \notin Loop(k) \cup {k}
    PROVE  TableOK(k)'
<1>1. 0 <= Room[k]
  BY RoomAssumption DEF Kinds, Room
<1> QED BY <1>1 DEF TableOK

\* What there is to be found fits the table.
LEMMA TotalFits ==
    ASSUME FitParts, NEW k \in Kinds, pc \in Loop(k) \cup {k}
    PROVE  Total(k) \in Nat /\ Total(k) <= Room[k]
<1>1. CASE k = "svcs"
  BY <1>1, PeerFits DEF Total, Room, FitParts, Shape, ControlType
<1>2. CASE k = "chrs"
  BY <1>2, CurrentIs DEF Total, Room, Loop
<1>3. CASE k = "dscs"
  BY <1>3, CurrentIs DEF Total, Room, Loop, AtChar
<1> QED BY <1>1, <1>2, <1>3 DEF Kinds

\* What the tables hold after every step.
LEMMA TablesStep ==
    ASSUME FitParts, opens' <= 1, [Next]_vars
    PROVE  TableInv'
<1> USE
   DEF procVars, tabVars, loopVars, devVars, subVars, FitParts, Shape, TableInv, Kinds,
       InService, LoopType, Loop, PCs, Attached
<1>1. ASSUME NEW p \in Peers, Open(p) PROVE TableInv'
  <2> SUFFICES ASSUME NEW m \in Kinds PROVE TableOK(m)'
    BY DEF TableInv
  <2>1. opens = 0 /\ Init
    BY <1>1 DEF Open, CountType
  <2>2. \A j \in Kinds : discovered'[j] = 0
    BY <1>1, <2>1 DEF Open, Init
  <2>3. CASE m # "svcs"
    BY <1>1, <2>2, <2>3, TableZero DEF Open
  <2>4. CASE m = "svcs"
    <3>1. pc' = "svcs" /\ ~cb_sem' /\ (proc'.kind = "svcs" => proc'.found = 0)
      BY <1>1, <2>1 DEF Open, Start, Init, NoProc
    <3>2. Total("svcs")' \in Nat
      BY <1>1, PeerFits DEF Open, Total
    <3>3. Partial("svcs")'
      BY <2>2, <3>2 DEF Partial
    <3> QED BY <2>2, <2>4, <3>1, <3>3, RoomAssumption DEF TableOK, Room
  <2> QED BY <2>3, <2>4
<1>2. CASE Found("svcs", "service")
  <2> SUFFICES ASSUME NEW m \in Kinds PROVE TableOK(m)'
    BY DEF TableInv
  <2>1. CASE m # "svcs"
    BY <1>2, <2>1, TableKept DEF Found
  <2>2. CASE m = "svcs"
    <3>1. Total(m)' = Total(m) /\ UNCHANGED <<discovered, result>>
      BY <1>2, <2>2 DEF Found, Total, Svc, Chr, DescrsFound
    <3>2. Partial(m) /\ discovered[m] <= Room[m] /\ (status_ok => discovered[m] = Total(m))
      BY <1>2, <2>2 DEF Found, TableOK
    <3>3. status_ok => Exact(m)'
      BY <3>1, <3>2 DEF Partial, Exact
    <3>4. pc' \in Loop(m) \cup {"aborted"} /\ pc' # m /\ (pc' # "aborted" => status_ok)
      BY <1>2, <2>2 DEF Found
    <3> QED BY <3>1, <3>2, <3>3, <3>4 DEF TableOK
  <2> QED BY <2>1, <2>2
<1>3. CASE Found("chrs", "char")
  <2> SUFFICES ASSUME NEW m \in Kinds PROVE TableOK(m)'
    BY DEF TableInv
  <2>1. CASE m # "chrs"
    BY <1>3, <2>1, TableKept DEF Found
  <2>2. CASE m = "chrs"
    <3>1. Total(m)' = Total(m) /\ UNCHANGED <<discovered, result>>
      BY <1>3, <2>2 DEF Found, Total, Svc, Chr, DescrsFound
    <3>2. Partial(m) /\ discovered[m] <= Room[m] /\ (status_ok => discovered[m] = Total(m))
      BY <1>3, <2>2 DEF Found, TableOK
    <3>3. status_ok => Exact(m)'
      BY <3>1, <3>2 DEF Partial, Exact
    <3>4. pc' \in Loop(m) \cup {"aborted"} /\ pc' # m /\ (pc' # "aborted" => status_ok)
      BY <1>3, <2>2 DEF Found
    <3> QED BY <3>1, <3>2, <3>3, <3>4 DEF TableOK
  <2> QED BY <2>1, <2>2
<1>4. CASE Found("dscs", "descr")
  <2> SUFFICES ASSUME NEW m \in Kinds PROVE TableOK(m)'
    BY DEF TableInv
  <2>1. CASE m # "dscs"
    BY <1>4, <2>1, TableKept DEF Found
  <2>2. CASE m = "dscs"
    <3>1. Total(m)' = Total(m) /\ UNCHANGED <<discovered, result>>
      BY <1>4, <2>2 DEF Found, Total, Svc, Chr, DescrsFound
    <3>2. Partial(m) /\ discovered[m] <= Room[m] /\ (status_ok => discovered[m] = Total(m))
      BY <1>4, <2>2 DEF Found, TableOK
    <3>3. status_ok => Exact(m)'
      BY <3>1, <3>2 DEF Partial, Exact
    <3>4. pc' \in Loop(m) \cup {"aborted"} /\ pc' # m /\ (pc' # "aborted" => status_ok)
      BY <1>4, <2>2 DEF Found
    <3> QED BY <3>1, <3>2, <3>3, <3>4 DEF TableOK
  <2> QED BY <2>1, <2>2
<1>5. CASE NextService
  <2> SUFFICES ASSUME NEW m \in Kinds PROVE TableOK(m)'
    BY DEF TableInv
  <2>1. CASE m # "chrs" \/ peer[at["svcs"] + 1].uuid = "other"
    <3>1. pc' \in {"service", "chrs"} /\ (pc' = "chrs" => m # "chrs")
      <4>1. pc = "service"
        BY <1>5 DEF NextService
      <4>2. \/ peer[at["svcs"] + 1].uuid = "other" /\ pc' = pc
            \/ peer[at["svcs"] + 1].uuid # "other" /\ pc' = "chrs"
        BY <1>5, NextServiceIs
      <4> HIDE DEF FitParts
      <4> QED BY <2>1, <4>1, <4>2
    <3>2. m # "chrs" => result'[m] = result[m]
      <4>1. result' = result \/ result' = [result EXCEPT !["chrs"] = Fresh("chrs")]
        BY <1>5, NextServiceIs
      <4> QED BY <4>1 DEF TableType
    <3>3. UNCHANGED <<peer, discovered>> /\ pc = "service"
      BY <1>5 DEF NextService
    <3> QED BY <2>1, <3>1, <3>2, <3>3, TableKept
  <2>2. CASE m = "chrs" /\ peer[at["svcs"] + 1].uuid # "other"
    <3>1. pc' = "chrs" /\ pc = "service" /\ cb_sem' = cb_sem /\ discovered' = discovered
      BY <1>5, <2>2, NextServiceIs DEF NextService
    <3>2. discovered["chrs"] = 0 /\ ~cb_sem
      BY <2>2, <3>1 DEF TableOK, WaitInv
    <3>3. proc'.kind = "chrs" => proc'.found = 0
      BY <1>5, <2>2, <3>1, NextServiceIs DEF Start, WaitInv
    <3>4. Total("chrs")' \in Nat
      <4>1. cur'["svcs"] \in DOMAIN peer /\ peer' = peer
        BY <1>5, NextServiceIs DEF NextService, LoopType
      <4> QED BY <4>1, PeerFits DEF Total, Svc, ControlType
    <3>5. Partial("chrs")'
      BY <3>1, <3>2, <3>4 DEF Partial
    <3> QED BY <2>2, <3>1, <3>2, <3>3, <3>5, RoomAssumption DEF TableOK, Room
  <2> QED BY <2>1, <2>2
<1>6. CASE LastService
  <2> SUFFICES ASSUME NEW m \in Kinds PROVE TableOK(m)'
    BY DEF TableInv
  <2> QED BY <1>6, TableKept DEF LastService
<1>7. CASE NextChar
  <2> SUFFICES ASSUME NEW m \in Kinds PROVE TableOK(m)'
    BY DEF TableInv
  <2>1. pc' \in {"char", "read", "describe"}
    BY <1>7, NextCharIs
       DEF NextChar, SkipChar, ReadChar, ReadCharFails, BatteryChar, ReportChar, AfterRead
  <2>2. UNCHANGED <<discovered, result, peer>> /\ cur'["svcs"] = cur["svcs"]
    BY <1>7, NextCharIs DEF NextChar
  <2> QED BY <1>7, <2>1, <2>2, TableKept DEF NextChar
<1>8. CASE LastChar
  <2> SUFFICES ASSUME NEW m \in Kinds PROVE TableOK(m)'
    BY DEF TableInv
  <2>1. CASE m = "svcs"
    BY <1>8, <2>1, TableKept DEF LastChar, LeaveService
  <2>2. CASE m = "chrs"
    BY <1>8, <2>2, TableZero DEF LastChar, LeaveService
  <2>3. CASE m = "dscs"
    BY <1>8, <2>3, TableKept DEF LastChar, LeaveService
  <2> QED BY <2>1, <2>2, <2>3
<1>9. CASE ReadReturn
  <2> SUFFICES ASSUME NEW m \in Kinds PROVE TableOK(m)'
    BY DEF TableInv
  <2> QED BY <1>9, TableKept DEF ReadReturn, StoreRead, AfterRead
<1>10. CASE Describe
  <2> SUFFICES ASSUME NEW m \in Kinds PROVE TableOK(m)'
    BY DEF TableInv
  <2>1. CASE m # "dscs"
    BY <1>10, <2>1, TableKept DEF Describe
  <2>2. CASE m = "dscs"
    <3>1. pc' = "dscs" /\ pc = "describe" /\ cb_sem' = cb_sem /\ discovered' = discovered
          /\ UNCHANGED <<peer, cur>>
      BY <1>10, <2>2 DEF Describe
    <3>2. discovered["dscs"] = 0 /\ ~cb_sem
      BY <2>2, <3>1 DEF TableOK, WaitInv
    <3>3. proc'.kind = "dscs" => proc'.found = 0
      BY <1>10, <2>2, <3>1 DEF Describe, Start, WaitInv
    <3>4. Total("dscs")' \in Nat
      <4>1. Total("dscs")' = Total("dscs")
        BY <3>1 DEF Total, DescrsFound, Chr, Svc
      <4> QED BY <3>1, <4>1, CurrentIs DEF Total, AtChar
    <3>5. Partial("dscs")'
      BY <3>1, <3>2, <3>4 DEF Partial
    <3> QED BY <2>2, <3>1, <3>2, <3>3, <3>5, RoomAssumption DEF TableOK, Room
  <2> QED BY <2>1, <2>2
<1>11. CASE NextDescr
  <2> SUFFICES ASSUME NEW m \in Kinds PROVE TableOK(m)'
    BY DEF TableInv
  <2> QED BY <1>11, NextDescrIs, TableKept DEF NextDescr, ReadStarts, ReadFails
<1>12. CASE RefReturn
  <2> SUFFICES ASSUME NEW m \in Kinds PROVE TableOK(m)'
    BY DEF TableInv
  <2> QED BY <1>12, TableKept DEF RefReturn
<1>13. CASE LastDescr
  <2> SUFFICES ASSUME NEW m \in Kinds PROVE TableOK(m)'
    BY DEF TableInv
  <2>1. CASE m = "svcs"
    BY <1>13, <2>1, TableKept DEF LastDescr, LeaveChar
  <2>2. CASE m = "chrs"
    BY <1>13, <2>2, TableKept DEF LastDescr, LeaveChar
  <2>3. CASE m = "dscs"
    BY <1>13, <2>3, TableZero DEF LastDescr, LeaveChar
  <2> QED BY <2>1, <2>2, <2>3
<1>14. CASE Reconnect
  <2> SUFFICES ASSUME NEW m \in Kinds PROVE TableOK(m)'
    BY DEF TableInv
  <2> QED BY <1>14, TableKept DEF Reconnect
<1>15. CASE AttachNext
  <2> SUFFICES ASSUME NEW m \in Kinds PROVE TableOK(m)'
    BY DEF TableInv
  <2> QED BY <1>15, TableKept DEF AttachNext
<1>16. CASE ValueReturn
  <2> SUFFICES ASSUME NEW m \in Kinds PROVE TableOK(m)'
    BY DEF TableInv
  <2> QED BY <1>16, TableKept DEF ValueReturn
<1>17. CASE CccReturn
  <2> SUFFICES ASSUME NEW m \in Kinds PROVE TableOK(m)'
    BY DEF TableInv
  <2> QED BY <1>17, TableKept DEF CccReturn
<1>18. ASSUME NEW k \in Kinds, Discovered(k) PROVE TableInv'
  <2> SUFFICES ASSUME NEW m \in Kinds PROVE TableOK(m)'
    BY DEF TableInv
  <2>1. CASE m # k
    <3>1. pc = k /\ UNCHANGED <<peer, cur, pc>>
      BY <1>18 DEF Discovered, WaitInv
    <3>2. discovered'[m] = discovered[m] /\ result'[m] = result[m]
      BY <1>18, <2>1 DEF Discovered
    <3> QED BY <2>1, <3>1, <3>2, TableKept
  <2>2. CASE m = k
    <3>1. pc = k /\ proc.found = discovered[k] /\ Partial(k) /\ proc.found < Total(k) /\ ~cb_sem
      BY <1>18 DEF Discovered, WaitInv, TableOK
    <3>2. discovered'[k] = discovered[k] + 1 /\ proc' = [proc EXCEPT !.found = proc.found + 1]
          /\ UNCHANGED <<peer, cur, pc, cb_sem>>
      <4>1. discovered' = [discovered EXCEPT ![k] = discovered[k] + 1]
        BY <1>18 DEF Discovered
      <4>2. proc' = [proc EXCEPT !.found = proc.found + 1]
            /\ UNCHANGED <<peer, cur, pc, cb_sem>>
        BY <1>18 DEF Discovered
      <4> QED BY <4>1, <4>2
    <3>3. result'[k] = [i \in DOMAIN result[k] |-> IF i = discovered[k] THEN proc.found + 1
                                                 ELSE result[k][i]]
      <4>1. DOMAIN result = Kinds
        BY DEF TableType
      <4> HIDE DEF FitParts, TableInv, Loop, PCs
      <4> QED BY <1>18, <4>1 DEF Discovered
    <3>4. Total(k)' = Total(k) /\ Total(k) \in Nat /\ Total(k) <= Room[k]
      BY <3>1, <3>2, TotalFits DEF Total, Svc, Chr, DescrsFound
    <3>5. discovered[k] \in Nat /\ Room[k] \in Nat
      BY RoomAssumption DEF Room
    <3>6. \A i \in 1 .. discovered[k] + 1 : result'[k][i - 1] = i
      <4>1. DOMAIN result[k] = 0 .. Room[k] - 1
        BY DEF TableType
      <4>2. \A i \in 1 .. discovered[k] : result[k][i - 1] = i
        BY <3>1 DEF Partial
      <4>3. \A i \in 1 .. discovered[k] + 1 : i - 1 \in DOMAIN result[k]
        BY <3>1, <3>4, <3>5, <4>1
      <4> QED BY <3>1, <3>3, <3>5, <4>2, <4>3
    <3>7. Partial(k)'
      BY <3>1, <3>2, <3>4, <3>5, <3>6 DEF Partial
    <3>8. discovered'[k] <= Room[k]
      BY <3>1, <3>2, <3>4, <3>5
    <3>9. proc'.found = discovered'[k]
      BY <3>1, <3>2 DEF ControlType
    <3> QED BY <2>2, <3>1, <3>2, <3>7, <3>8, <3>9 DEF TableOK, Loop
  <2> QED BY <2>1, <2>2
<1>19. CASE ReadData
  <2> SUFFICES ASSUME NEW m \in Kinds PROVE TableOK(m)'
    BY DEF TableInv
  <2> QED BY <1>19, TableKept DEF ReadData, WaitInv
<1>20. CASE ProcDone
  <2> SUFFICES ASSUME NEW m \in Kinds PROVE TableOK(m)'
    BY DEF TableInv
  <2>1. CASE pc # m
    BY <1>20, <2>1, TableKept DEF ProcDone
  <2>2. CASE pc = m
    <3>1. proc.kind = m /\ Partial(m) /\ proc.found = discovered[m] /\ discovered[m] <= Room[m]
      BY <1>20, <2>2 DEF ProcDone, WaitInv, TableOK
    <3>2. UNCHANGED <<peer, cur, discovered, result, pc>> /\ proc' = NoProc
      BY <1>20 DEF ProcDone
    <3>3. Total(m)' = Total(m)
      BY <3>2 DEF Total, Svc, Chr, DescrsFound
    <3>4. Partial(m)'
      BY <3>1, <3>2, <3>3 DEF Partial
    <3>5. status_ok' => discovered'[m] = Total(m)'
      BY <1>20, <3>1, <3>2, <3>3 DEF ProcDone
    <3> QED BY <2>2, <3>1, <3>2, <3>4, <3>5 DEF TableOK, Loop, NoProc
  <2> QED BY <2>1, <2>2
<1>21. CASE ProcError
  <2> SUFFICES ASSUME NEW m \in Kinds PROVE TableOK(m)'
    BY DEF TableInv
  <2>1. CASE pc # m
    BY <1>21, <2>1, TableKept DEF ProcError
  <2>2. CASE pc = m
    <3>1. proc.kind = m /\ Partial(m) /\ proc.found = discovered[m] /\ discovered[m] <= Room[m]
      BY <1>21, <2>2 DEF ProcError, WaitInv, TableOK
    <3>2. UNCHANGED <<peer, cur, discovered, result, pc>> /\ proc' = NoProc
      BY <1>21 DEF ProcError
    <3>3. Total(m)' = Total(m)
      BY <3>2 DEF Total, Svc, Chr, DescrsFound
    <3>4. Partial(m)'
      BY <3>1, <3>2, <3>3 DEF Partial
    <3>5. status_ok' => discovered'[m] = Total(m)'
      BY <1>21, <3>1, <3>2, <3>3 DEF ProcError
    <3> QED BY <2>2, <3>1, <3>2, <3>4, <3>5 DEF TableOK, Loop, NoProc
  <2> QED BY <2>1, <2>2
<1>22. CASE Reboot
  <2> SUFFICES ASSUME NEW m \in Kinds PROVE TableOK(m)'
    BY DEF TableInv
  <2>1. discovered'[m] = 0 /\ pc' = "idle" /\ peer' = <<>>
    BY <1>22 DEF Reboot
  <2>2. CASE m # "svcs"
    BY <2>1, <2>2, TableZero
  <2>3. CASE m = "svcs"
    <3>1. Exact("svcs")'
      BY <2>1, <2>3 DEF Exact, Total
    <3> QED BY <2>1, <2>3, <3>1, RoomAssumption DEF TableOK, Room
  <2> QED BY <2>2, <2>3
<1>23. CASE UNCHANGED vars
  <2> SUFFICES ASSUME NEW m \in Kinds PROVE TableOK(m)'
    BY DEF TableInv
  <2>1. TableOK(m) /\ UNCHANGED <<pc, peer, discovered, result, cur, proc, cb_sem, status_ok>>
    BY <1>23 DEF vars, TableInv
  <2> QED BY <2>1, TableKept
<1> QED BY <1>1, <1>2, <1>3, <1>4, <1>5, <1>6, <1>7, <1>8, <1>9, <1>10, <1>11, <1>12, <1>13,
   <1>14, <1>15, <1>16, <1>17, <1>18, <1>19, <1>20, <1>21, <1>22, <1>23 DEF Next, HostNext

\* Where the loops are after every step.
LEMMA LoopsStep ==
    ASSUME FitParts, opens' <= 1, [Next]_vars
    PROVE  LoopInv'
<1> USE
   DEF procVars, tabVars, loopVars, devVars, subVars, FitParts, Shape, ControlType, LoopType,
       LoopInv, Svc, Chr, DescrsFound, Kinds, PCs, InService, Attached, AtChar, Describing
<1>1. ASSUME NEW p \in Peers, Open(p) PROVE LoopInv'
  BY <1>1 DEF Open, CountType, Init
<1>2. CASE Found("svcs", "service")
  BY <1>2 DEF Found
<1>3. CASE Found("chrs", "char")
  BY <1>3 DEF Found
<1>4. CASE Found("dscs", "descr")
  <2>1. UNCHANGED <<peer, cur>> /\ pc = "dscs" /\ at' = [at EXCEPT !["dscs"] = 0]
        /\ pc' \in {"descr", "aborted"}
    BY <1>4 DEF Found
  <2>2. Len(DescrsFound) \in Nat
    BY <2>1, CurrentIs
  <2>3. UNCHANGED <<Svc, Chr, DescrsFound>>
    BY <2>1
  <2> HIDE DEF Svc, Chr, DescrsFound
  <2> QED BY <2>1, <2>2, <2>3
<1>5. CASE NextService
  <2> DEFINE e == at["svcs"] + 1
  <2>1. e \in 1 .. Len(peer) /\ cur' = [cur EXCEPT !["svcs"] = e] /\ peer' = peer
        /\ pc = "service"
    BY <1>5, NextServiceIs DEF NextService
  <2>2. \/ pc' = "service" /\ at' = [at EXCEPT !["svcs"] = e]
        \/ pc' = "chrs" /\ at' = at /\ peer[e].uuid # "other"
    BY <1>5, NextServiceIs DEF NextService, Advance
  <2>3. Svc' = peer[e] /\ cur'["svcs"] = e
    BY <2>1
  <2> HIDE DEF Svc, Chr, DescrsFound, FitParts, e
  <2>4. e = at["svcs"] + 1 /\ at["svcs"] \in Nat /\ Len(peer) \in Nat
    BY PeerFits DEF e, FitParts
  <2>5. at'["svcs"] <= Len(peer')
    BY <2>1, <2>2, <2>4 DEF FitParts
  <2>6. pc' = "chrs" => cur'["svcs"] = at'["svcs"] + 1 /\ cur'["svcs"] <= Len(peer')
                        /\ Svc'.uuid # "other"
    BY <2>1, <2>2, <2>3, <2>4
  <2> QED BY <2>2, <2>5, <2>6
<1>6. CASE LastService
  <2>1. at["svcs"] = Len(peer)
    BY <1>6 DEF LastService, TableInv, TableOK, Loop, Exact, Total
  <2> QED BY <1>6, <2>1 DEF LastService
<1>7. CASE NextChar
  <2> DEFINE e == at["chrs"] + 1
  <2>1. e \in 1 .. Len(Svc.chars) /\ cur' = [cur EXCEPT !["chrs"] = e] /\ peer' = peer
        /\ pc = "char"
    BY <1>7, NextCharIs DEF NextChar
  <2>2. \/ pc' = "char" /\ at' = [at EXCEPT !["chrs"] = e]
        \/ pc' \in {"read", "describe"} /\ at' = at
    BY <1>7, <2>1, NextCharIs DEF SkipChar, ReadChar, ReadCharFails, BatteryChar, ReportChar,
                                AfterRead, Advance
  <2>3. pc' = "read" => Reads(Svc.uuid, Svc.chars[e])
    BY <1>7, <2>1, NextCharIs DEF SkipChar, ReadChar, ReadCharFails, BatteryChar, ReportChar,
                                AfterRead
  <2>4. pc' = "describe" /\ Svc.uuid = "HID" => Svc.chars[e].uuid \in ReportKinds
    BY <1>7, <2>1, NextCharIs DEF SkipChar, ReadChar, ReadCharFails, BatteryChar, ReportChar,
                                AfterRead, IsBattery, IsReport
  <2>5. Svc' = Svc /\ Chr' = Svc.chars[e] /\ cur'["svcs"] = cur["svcs"]
        /\ cur'["chrs"] = e
    BY <2>1
  <2> HIDE DEF Svc, Chr, DescrsFound
  <2>6. at'["svcs"] = at["svcs"]
    BY <2>2
  <2>7. at'["chrs"] <= Len(Svc'.chars)
    BY <2>1, <2>2, <2>5
  <2>8. pc' \in {"read", "describe"} =>
           cur'["chrs"] = at'["chrs"] + 1 /\ cur'["chrs"] <= Len(Svc'.chars)
    BY <2>1, <2>2, <2>5
  <2>9. pc' = "read" =>
           \/ Svc'.uuid = "GAP" /\ Chr'.uuid = "NAME"
           \/ Svc'.uuid = "DIS" /\ Chr'.uuid \in {"PNP_ID", "MANUFACTURER", "SERIAL"}
           \/ Svc'.uuid = "HID" /\ Chr'.read /\ Chr'.uuid \in {"PROTOCOL_MODE", "REPORT_MAP"}
    BY <2>3, <2>5 DEF Reads
  <2>10. pc' = "describe" => (Svc'.uuid = "HID" => Chr'.uuid \in ReportKinds)
    BY <2>4, <2>5
  <2> QED BY <2>1, <2>2, <2>5, <2>6, <2>7, <2>8, <2>9, <2>10
<1>8. CASE LastChar
  BY <1>8 DEF LastChar, LeaveService, Advance
<1>9. CASE ReadReturn
  BY <1>9 DEF ReadReturn, StoreRead, AfterRead, Advance
<1>10. CASE Describe
  BY <1>10 DEF Describe, Start
<1>11. CASE NextDescr
  <2> DEFINE e == at["dscs"] + 1
  <2>1. e \in 1 .. Len(DescrsFound) /\ cur' = [cur EXCEPT !["dscs"] = e] /\ peer' = peer
        /\ pc = "descr"
    BY <1>11, NextDescrIs DEF NextDescr
  <2>2. \/ pc' = "descr" /\ at' = [at EXCEPT !["dscs"] = e]
        \/ pc' = "ref" /\ at' = at /\ Svc.uuid = "HID" /\ DescrsFound[e] = "RPT_REF"
    BY <1>11, <2>1, NextDescrIs DEF ReadStarts, ReadFails, Advance
  <2>3. UNCHANGED <<Svc, Chr, DescrsFound, cur["svcs"], cur["chrs"]>> /\ cur'["dscs"] = e
    BY <2>1
  <2>4. Len(DescrsFound) \in Nat
    BY <2>1, CurrentIs
  <2> HIDE DEF Svc, Chr, DescrsFound
  <2>5. CASE pc' = "descr" /\ at' = [at EXCEPT !["dscs"] = e]
    BY <2>1, <2>3, <2>4, <2>5
  <2>6. CASE pc' = "ref" /\ at' = at /\ Svc.uuid = "HID" /\ DescrsFound[e] = "RPT_REF"
    BY <2>1, <2>3, <2>4, <2>6
  <2> QED BY <2>2, <2>5, <2>6
<1>12. CASE RefReturn
  BY <1>12 DEF RefReturn, FreeBlock, Advance
<1>13. CASE LastDescr
  BY <1>13 DEF LastDescr, LeaveChar, Advance
<1>14. CASE Reconnect
  BY <1>14 DEF Reconnect
<1>15. CASE AttachNext
  BY <1>15 DEF AttachNext, Start
<1>16. CASE ValueReturn
  BY <1>16 DEF ValueReturn, Start
<1>17. CASE CccReturn
  BY <1>17 DEF CccReturn
<1>18. ASSUME NEW k \in Kinds, Discovered(k) PROVE LoopInv'
  BY <1>18 DEF Discovered
<1>19. CASE ReadData
  BY <1>19 DEF ReadData
<1>20. CASE ProcDone
  BY <1>20 DEF ProcDone
<1>21. CASE ProcError
  BY <1>21 DEF ProcError
<1>22. CASE Reboot
  BY <1>22 DEF Reboot
<1>23. CASE UNCHANGED vars
  BY <1>23 DEF vars
<1> QED BY <1>1, <1>2, <1>3, <1>4, <1>5, <1>6, <1>7, <1>8, <1>9, <1>10, <1>11, <1>12, <1>13,
   <1>14, <1>15, <1>16, <1>17, <1>18, <1>19, <1>20, <1>21, <1>22, <1>23 DEF Next, HostNext

\* hidindex and maps_len after every step.
LEMMA HidStep ==
    ASSUME FitParts, opens' <= 1, [Next]_vars
    PROVE  HidInv'
<1> USE
   DEF procVars, tabVars, loopVars, devVars, subVars, FitParts, Shape, ControlType, LoopType,
       HidInv, Kinds, PCs, InService, Attached
<1>a. peer \in Seq(Service)
  BY PeerFits
<1>b. opens = 0 => Init
  BY DEF CountType
<1>1. ASSUME NEW p \in Peers, Open(p) PROVE HidInv'
  <2>1. /\ pc' = "svcs" /\ dev'.maps_len = 0 /\ hidindex' = 0 /\ discovered'["svcs"] = 0
        /\ peer' = p
    BY <1>1 DEF Open, CountType, Init, NewDev
  <2>2. HidIn(p, 1) = 0
    BY <1>1, PeerFits, <1>a, HidCounts
  <2> QED BY <2>1, <2>2
<1>2. CASE Found("svcs", "service")
  <2>1. pc = "svcs" /\ hidindex' = 0 /\ pc' \in {"service", "aborted"} /\ at'["svcs"] = 0
        /\ peer' = peer /\ (pc' = "service" => status_ok)
    BY <1>2 DEF Found
  <2>2. /\ dev'.maps_len = dev.maps_len
        /\ dev'.maps = [i \in 1 .. dev.maps_len |-> 0]
        /\ dev'.modes = [i \in 1 .. dev.maps_len |-> "undefined"]
    BY <1>2 DEF Found, DataType, Device
  <2>3. dev.maps_len \in Nat
    BY DeviceIs DEF DataType
  <2>4. Len(dev'.maps) = dev.maps_len /\ Len(dev'.modes) = dev.maps_len
    BY <2>2, <2>3
  <2>5. status_ok => dev.maps_len = HidIn(peer, Len(peer) + 1)
    BY <1>2, <2>1 DEF Found, TableOK, TableInv, Total
  <2>6. HidIn(peer, 1) = 0
    BY <1>a, HidCounts
  <2>7. HidIn(peer', at'["svcs"] + 1) = 0
    BY <2>1, <2>6
  <2> QED BY <2>1, <2>2, <2>4, <2>5, <2>7
<1>3. CASE Found("chrs", "char")
  BY <1>3 DEF Found
<1>4. CASE Found("dscs", "descr")
  BY <1>4 DEF Found
<1>5. CASE NextService
  <2>1. UNCHANGED <<peer, dev, hidindex>> /\ pc = "service"
        /\ pc' \in {"service", "chrs"}
    BY <1>5, NextServiceIs DEF NextService
  <2>2. \/ at' = at /\ pc' = "chrs"
        \/ at' = [at EXCEPT !["svcs"] = at["svcs"] + 1] /\ pc' = "service"
           /\ peer[at["svcs"] + 1].uuid = "other"
    BY <1>5, <2>1, NextServiceIs DEF Advance
  <2>3. HidIn(peer, at["svcs"] + 1 + 1) = HidIn(peer, at["svcs"] + 1)
                    + (IF peer[at["svcs"] + 1].uuid = "HID" THEN 1 ELSE 0)
    BY <1>a, HidCounts
  <2>4. hidindex \in Nat /\ hidindex = HidIn(peer, at["svcs"] + 1)
    BY <2>1
  <2>5. at'["svcs"] + 1 = at["svcs"] + 1 \/ at'["svcs"] + 1 = at["svcs"] + 1 + 1
    BY <2>2
  <2>6. hidindex = HidIn(peer, at'["svcs"] + 1)
    BY <2>2, <2>3, <2>4
  <2> QED BY <2>1, <2>6
<1>6. CASE LastService
  BY <1>6 DEF LastService
<1>7. CASE NextChar
  <2>1. pc' \in {"char", "read", "describe"} /\ at'["svcs"] = at["svcs"] /\ pc = "char"
    BY <1>7, NextCharIs DEF NextChar, SkipChar, ReadChar, ReadCharFails, BatteryChar, ReportChar,
                         AfterRead, Advance
  <2>2. UNCHANGED <<peer, hidindex>>
    BY <1>7 DEF NextChar
  <2>3. dev' = dev \/ dev' = [dev EXCEPT !.battery = <<cur["svcs"], at["chrs"] + 1>>]
    BY <1>7, NextCharIs DEF SkipChar, ReadChar, ReadCharFails, BatteryChar, ReportChar
  <2>4. UNCHANGED <<dev.maps_len, dev.maps, dev.modes>>
    BY <2>3 DEF DataType, Device
  <2> QED BY <2>1, <2>2, <2>4
<1>8. CASE LastChar
  <2>1. /\ pc = "char" /\ pc' = "service" /\ at'["svcs"] = at["svcs"] + 1
        /\ UNCHANGED <<peer, dev>> /\ hidindex' = NextHid
    BY <1>8 DEF LastChar, LeaveService, Advance
  <2>2. Svc = peer[at["svcs"] + 1] /\ at["svcs"] \in Nat
    BY <2>1 DEF LoopInv, Svc
  <2>3. HidIn(peer, at["svcs"] + 1 + 1)
            = HidIn(peer, at["svcs"] + 1) + (IF Svc.uuid = "HID" THEN 1 ELSE 0)
    BY <2>2, <1>a, HidCounts
  <2>4. hidindex = HidIn(peer, at["svcs"] + 1) /\ hidindex \in Nat
    BY <2>1
  <2>5. hidindex' = HidIn(peer, at'["svcs"] + 1)
    BY <2>1, <2>2, <2>3, <2>4 DEF NextHid
  <2> QED BY <2>1, <2>5
<1>9. CASE ReadReturn
  <2>1. /\ pc = "read" /\ pc' \in {"char", "describe"} /\ at'["svcs"] = at["svcs"]
        /\ UNCHANGED <<peer, hidindex>>
    BY <1>9 DEF ReadReturn, StoreRead, AfterRead, Advance
  <2>2. \/ dev' = [dev EXCEPT !.strings[Chr.uuid] = rdata']
        \/ dev' = [dev EXCEPT !.modes = [dev.modes EXCEPT ![hidindex + 1] = "REPORT"]]
        \/ dev' = [dev EXCEPT !.maps = [dev.maps EXCEPT ![hidindex + 1] = rdata']]
        \/ dev' = dev
    BY <1>9 DEF ReadReturn, StoreRead
  <2>3. rdata' \in Nat
    BY <1>9 DEF ReadReturn, StoreRead, DataType
  <2>4. dev.maps \in Seq(Nat) /\ dev.modes \in Seq({"undefined", "REPORT"})
    BY DeviceIs DEF DataType
  <2>5. /\ Len([dev.maps EXCEPT ![hidindex + 1] = rdata']) = Len(dev.maps)
        /\ Len([dev.modes EXCEPT ![hidindex + 1] = "REPORT"]) = Len(dev.modes)
    BY <2>3, <2>4, SeqExcept
  <2>6. /\ dev'.maps_len = dev.maps_len
        /\ Len(dev'.maps) = Len(dev.maps) /\ Len(dev'.modes) = Len(dev.modes)
    BY <2>2, <2>5 DEF DataType, Device
  <2> QED BY <2>1, <2>6
<1>10. CASE Describe
  BY <1>10 DEF Describe
<1>11. CASE NextDescr
  <2>1. pc' \in {"descr", "ref"} /\ at'["svcs"] = at["svcs"] /\ pc = "descr"
    BY <1>11, NextDescrIs DEF NextDescr, ReadStarts, ReadFails, Advance
  <2>2. UNCHANGED <<peer, hidindex>>
    BY <1>11 DEF NextDescr
  <2>3. dev' = dev \/ dev' = [dev EXCEPT !.battery_ccc = at["dscs"] + 1]
    BY <1>11, NextDescrIs
  <2>4. UNCHANGED <<dev.maps_len, dev.maps, dev.modes>>
    BY <2>3 DEF DataType, Device
  <2> QED BY <2>1, <2>2, <2>4
<1>12. CASE RefReturn
  BY <1>12 DEF RefReturn, Advance
<1>13. CASE LastDescr
  <2>1. /\ pc = "descr" /\ pc' = "char" /\ at'["svcs"] = at["svcs"]
        /\ UNCHANGED <<peer, hidindex>>
    BY <1>13 DEF LastDescr, LeaveChar, Advance
  <2>2. dev' = dev \/ dev' = [dev EXCEPT !.reports = <<report>> \o dev.reports]
    BY <1>13 DEF LastDescr, LeaveChar
  <2>3. UNCHANGED <<dev.maps_len, dev.maps, dev.modes>>
    BY <2>2 DEF DataType, Device
  <2> QED BY <2>1, <2>3
<1>14. CASE Reconnect
  BY <1>14 DEF Reconnect
<1>15. CASE AttachNext
  BY <1>15 DEF AttachNext
<1>16. CASE ValueReturn
  BY <1>16 DEF ValueReturn
<1>17. CASE CccReturn
  BY <1>17 DEF CccReturn
<1>18. ASSUME NEW k \in Kinds, Discovered(k) PROVE HidInv'
  <2>1. pc = k /\ UNCHANGED <<peer, hidindex, at, pc>> /\ proc.found < Total(k)
    BY <1>18 DEF Discovered, WaitInv
  <2>2. CASE k # "svcs"
    BY <1>18, <2>1, <2>2 DEF Discovered
  <2>3. CASE k = "svcs"
    <3>1. proc.found = discovered["svcs"] /\ discovered'["svcs"] = discovered["svcs"] + 1
          /\ discovered["svcs"] \in Nat
      BY <1>18, <2>1, <2>3 DEF Discovered, TableInv, TableOK
    <3>2. dev'.maps_len = dev.maps_len
                         + (IF peer[discovered["svcs"] + 1].uuid = "HID" THEN 1 ELSE 0)
      BY <1>18, <2>3, <3>1, DeviceIs DEF Discovered, DataType, Device
    <3>3. dev.maps_len = HidIn(peer, discovered["svcs"] + 1)
      BY <2>1, <2>3
    <3>4. dev'.maps_len = HidIn(peer, discovered["svcs"] + 1 + 1)
      BY <3>1, <3>2, <3>3, <1>a, HidCounts
    <3> QED BY <2>1, <2>3, <3>1, <3>4
  <2> QED BY <2>2, <2>3
<1>19. CASE ReadData
  BY <1>19 DEF ReadData
<1>20. CASE ProcDone
  BY <1>20 DEF ProcDone
<1>21. CASE ProcError
  BY <1>21 DEF ProcError
<1>22. CASE Reboot
  <2>1. /\ pc' = "idle" /\ dev' = NewDev /\ peer' = <<>>
    BY <1>22 DEF Reboot
  <2>2. HidIn(<<>>, 1) = 0
    <3>1. <<>> \in Seq(Service)
      OBVIOUS
    <3> QED BY <3>1, <1>a, HidCounts
  <2> QED BY <2>1, <2>2 DEF NewDev
<1>23. CASE UNCHANGED vars
  BY <1>23 DEF vars
<1> QED BY <1>1, <1>2, <1>3, <1>4, <1>5, <1>6, <1>7, <1>8, <1>9, <1>10, <1>11, <1>12, <1>13,
   <1>14, <1>15, <1>16, <1>17, <1>18, <1>19, <1>20, <1>21, <1>22, <1>23 DEF Next, HostNext

\* The state after a boot, which is the initial one.
LEMMA InitFits == Init => FitParts
<1> SUFFICES ASSUME Init PROVE FitParts
  OBVIOUS
<1> USE DEF Init, NoProc
<1>1. ControlType
  BY DEF ControlType, PCs, Attached, InService
<1>2. TableType
  BY DEF TableType, Fresh
<1>3. LoopType
  BY DEF LoopType
<1>4. NewDev \in Device /\ NoReport \in Report
  BY DEF NewDev, Device, NoReport, Report, NoHandle
<1>5. DataType
  BY <1>4 DEF DataType
<1>6. TableInv
  <2>1. \A k \in Kinds : discovered[k] = 0 /\ 0 <= Room[k]
    BY RoomAssumption DEF Kinds, Room
  <2>2. Exact("svcs")
    BY DEF Exact, Total, Kinds
  <2> QED BY <2>1, <2>2 DEF TableInv, TableOK, Loop, Kinds, InService
<1>7. HidInv
  <2>1. <<>> \in Seq(Service)
    OBVIOUS
  <2>2. HidIn(<<>>, 1) = 0
    BY <2>1, HidCounts
  <2> QED BY <2>2 DEF HidInv, InService, NewDev
<1>8. WaitInv /\ LoopInv
  BY DEF WaitInv, LoopInv, InService, Attached, AtChar, Describing, Kinds
<1>9. CountType
  BY DEF CountType
<1> QED BY <1>1, <1>2, <1>3, <1>5, <1>6, <1>7, <1>8, <1>9 DEF FitParts, Shape

\* A reboot leads to it as well.
LEMMA BootFits == Reboot => FitParts'
<1> SUFFICES ASSUME Reboot PROVE FitParts'
  OBVIOUS
<1> USE DEF Reboot, NoProc
<1>1. ControlType'
  BY DEF ControlType, PCs, Attached, InService
<1>2. TableType'
  BY DEF TableType, Fresh
<1>3. LoopType'
  BY DEF LoopType
<1>4. NewDev \in Device /\ NoReport \in Report
  BY DEF NewDev, Device, NoReport, Report, NoHandle
<1>5. DataType'
  BY <1>4 DEF DataType
<1>6. TableInv'
  <2>1. \A k \in Kinds : discovered'[k] = 0 /\ 0 <= Room[k]
    BY RoomAssumption DEF Kinds, Room
  <2>2. Exact("svcs")'
    BY DEF Exact, Total, Kinds
  <2> QED BY <2>1, <2>2 DEF TableInv, TableOK, Loop, Kinds, InService
<1>7. HidInv'
  <2>1. <<>> \in Seq(Service)
    OBVIOUS
  <2>2. HidIn(<<>>, 1) = 0
    BY <2>1, HidCounts
  <2> QED BY <2>2 DEF HidInv, InService, NewDev
<1>8. WaitInv' /\ LoopInv'
  BY DEF WaitInv, LoopInv, InService, Attached, AtChar, Describing, Kinds
<1>9. CountType'
  BY DEF CountType, Init
<1> QED BY <1>1, <1>2, <1>3, <1>5, <1>6, <1>7, <1>8, <1>9 DEF FitParts, Shape

\* A step within the first open, or to the state after a boot, keeps all of it.
LEMMA FitStep ==
    ASSUME FitInv, opens \in Nat, [Next]_vars
    PROVE  FitInv' /\ opens' \in Nat
<1>1. CASE opens <= 1
  <2>1. FitParts
    BY <1>1 DEF FitInv, FitParts
  <2>2. Shape'
    BY <2>1, CountStep, ControlStep, TableStep, LoopStep, DataStep DEF FitParts, Shape
  <2>3. opens' <= 1 => FitParts'
    BY <2>1, <2>2, WaitStep, TablesStep, LoopsStep, HidStep DEF FitParts
  <2> QED BY <2>2, <2>3 DEF FitInv, FitParts, Shape, CountType
<1>2. CASE opens > 1
  <2>1. CASE Reboot
    BY <2>1, BootFits DEF FitInv, FitParts, Shape, CountType
  <2>2. CASE ~Reboot
    <3>1. opens' \in {opens, opens + 1}
      BY <2>2 DEF Next, HostNext, vars, Open, Found, NextService, LastService, NextChar,
                  LastChar, LeaveService, ReadReturn, StoreRead, Describe, NextDescr,
                  RefReturn, LastDescr, LeaveChar, Reconnect, AttachNext, ValueReturn,
                  CccReturn, Discovered, ReadData, ProcDone, ProcError
    <3> QED BY <1>2, <3>1 DEF FitInv
  <2> QED BY <2>1, <2>2
<1> QED BY <1>1, <1>2

\* The tables and arrays fit the first open.
LEMMA FitTypeOK ==
    ASSUME FitParts
    PROVE  DiscoveryTypeOK
<1> USE DEF FitParts, Shape
<1>1. TablesFit
  BY DEF TablesFit, TableInv, TableOK
<1>2. proc.kind # "none" => pc \in {proc.kind, "read", "ref"} /\ ~cb_sem
  BY DEF WaitInv
<1>3. ASSUME pc \in InService, Svc.uuid = "HID"
      PROVE  hidindex < dev.maps_len
  <2>1. cur["svcs"] \in DOMAIN peer /\ cur["svcs"] = at["svcs"] + 1
    BY <1>3, CurrentIs DEF LoopInv
  <2>2. peer \in Seq(Service)
    BY PeerFits DEF ControlType
  <2>3. hidindex = HidIn(peer, cur["svcs"]) /\ dev.maps_len = HidIn(peer, Len(peer) + 1)
    BY <1>3, <2>1 DEF HidInv, InService
  <2> QED BY <1>3, <2>1, <2>2, <2>3, HidSlot DEF Svc
<1> QED BY <1>1, <1>2, <1>3 DEF DiscoveryTypeOK, ControlType, LoopType, DataType, PCs,
                                Attached

\* In the first open after a boot nothing is written behind a table: the
\* counters of svc_disced, chr_disced and desc_disced stay within service_result,
\* char_result and descr_result, and hidindex within the arrays that were
\* allocated for the HID services, whatever fails.
THEOREM discovery_fits == Spec => [](opens <= 1 => DiscoveryTypeOK)
<1>1. Init => FitInv /\ opens \in Nat
  BY InitFits DEF FitInv, FitParts, Shape, CountType
<1>2. FitInv /\ opens \in Nat /\ [Next]_vars => FitInv' /\ (opens \in Nat)'
  BY FitStep
<1>3. FitInv /\ opens \in Nat => (opens <= 1 => DiscoveryTypeOK)
  BY FitTypeOK DEF FitInv, FitParts
<1> QED BY <1>1, <1>2, <1>3, PTL DEF Spec

-----------------------------------------------------------------------------
(* What the first open learns.                                             *)

\* Which steps change what the device holds.
LEMMA DeviceStep ==
    ASSUME FitParts, [Next]_vars, ~Reboot, \A p \in Peers : ~Open(p)
    PROVE  /\ peer' = peer /\ (LastDescr \/ dev'.reports = dev.reports)
           /\ NextChar \/ dev'.battery = dev.battery
           /\ Found("svcs", "service") \/ ReadReturn
              \/ UNCHANGED <<dev.maps, dev.modes, dev.strings>>
<1> USE DEF procVars, tabVars, loopVars, devVars, subVars, FitParts, Shape, DataType, Device
<1>1. CASE Found("svcs", "service")
  BY <1>1 DEF Found
<1>2. CASE Found("chrs", "char")
  BY <1>2 DEF Found
<1>3. CASE Found("dscs", "descr")
  BY <1>3 DEF Found
<1>4. CASE NextService
  BY <1>4 DEF NextService
<1>5. CASE LastService
  BY <1>5 DEF LastService
<1>6. CASE NextChar
  <2>1. dev' = dev \/ dev' = [dev EXCEPT !.battery = <<cur["svcs"], at["chrs"] + 1>>]
    BY <1>6, NextCharIs DEF SkipChar, ReadChar, ReadCharFails, BatteryChar, ReportChar
  <2> QED BY <1>6, <2>1 DEF NextChar
<1>7. CASE LastChar
  BY <1>7 DEF LastChar, LeaveService
<1>8. CASE ReadReturn
  BY <1>8 DEF ReadReturn, StoreRead
<1>9. CASE Describe
  BY <1>9 DEF Describe
<1>10. CASE NextDescr
  <2>1. dev' = dev \/ dev' = [dev EXCEPT !.battery_ccc = at["dscs"] + 1]
    BY <1>10, NextDescrIs
  <2> QED BY <1>10, <2>1 DEF NextDescr
<1>11. CASE RefReturn
  BY <1>11 DEF RefReturn
<1>12. CASE LastDescr
  BY <1>12 DEF LastDescr, LeaveChar
<1>13. CASE Reconnect
  BY <1>13 DEF Reconnect
<1>14. CASE AttachNext
  BY <1>14 DEF AttachNext
<1>15. CASE ValueReturn
  BY <1>15 DEF ValueReturn
<1>16. CASE CccReturn
  BY <1>16 DEF CccReturn
<1>17. ASSUME NEW k \in Kinds, Discovered(k)
       PROVE  peer' = peer /\ UNCHANGED <<dev.reports, dev.battery, dev.maps, dev.modes,
          dev.strings>>
  BY <1>17 DEF Discovered
<1>18. CASE ReadData
  BY <1>18 DEF ReadData
<1>19. CASE ProcDone
  BY <1>19 DEF ProcDone
<1>20. CASE ProcError
  BY <1>20 DEF ProcError
<1>21. CASE UNCHANGED vars
  BY <1>21 DEF vars
<1> QED BY <1>1, <1>2, <1>3, <1>4, <1>5, <1>6, <1>7, <1>8, <1>9, <1>10, <1>11, <1>12, <1>13,
   <1>14, <1>15, <1>16, <1>17, <1>18, <1>19, <1>20, <1>21 DEF Next, HostNext

\* Which reads a step adds to those that could not be started.
LEMMA UnreadStep ==
    ASSUME FitParts, [Next]_vars, ~Reboot, \A p \in Peers : ~Open(p)
    PROVE  /\ unread \subseteq unread'
           /\ \A u \in unread' :
                 \/ u \in unread
                 \/ NextChar /\ u = <<at["svcs"] + 1, at["chrs"] + 1, 0>>
                 \/ /\ NextDescr /\ pc' = "descr"
                    /\ at' = [at EXCEPT !["dscs"] = at["dscs"] + 1]
                    /\ u = <<at["svcs"] + 1, at["chrs"] + 1, at["dscs"] + 1>>
<1> USE DEF procVars, tabVars, loopVars, devVars, subVars
<1>1. CASE NextChar
  <2>1. cur["svcs"] = at["svcs"] + 1
    BY <1>1 DEF NextChar, FitParts, LoopInv, InService
  <2>2. unread' \in {unread, unread \cup {<<cur["svcs"], at["chrs"] + 1, 0>>}}
    BY <1>1, NextCharIs DEF SkipChar, ReadChar, ReadCharFails, BatteryChar, ReportChar
  <2> QED BY <1>1, <2>1, <2>2
<1>2. CASE NextDescr
  <2>1. cur["svcs"] = at["svcs"] + 1 /\ cur["chrs"] = at["chrs"] + 1
    BY <1>2 DEF NextDescr, FitParts, LoopInv, InService, AtChar
  <2>2. \/ unread' = unread
        \/ /\ unread' = unread \cup {<<cur["svcs"], cur["chrs"], at["dscs"] + 1>>}
           /\ pc' = "descr" /\ at' = [at EXCEPT !["dscs"] = at["dscs"] + 1]
    BY <1>2, NextDescrIs DEF NextDescr, Advance
  <2> QED BY <1>2, <2>1, <2>2
<1>3. CASE ~NextChar /\ ~NextDescr
  <2>1. unread' = unread
    BY <1>3 DEF Next, HostNext, vars, Found, NextService, LastService, LastChar,
           LeaveService, ReadReturn, StoreRead, Describe, RefReturn, LastDescr, LeaveChar,
           Reconnect, AttachNext, ValueReturn, CccReturn, Discovered, ReadData, ProcDone,
           ProcError
  <2> QED BY <2>1
<1> QED BY <1>1, <1>2, <1>3

\* Which step puts a characteristic of a HID service behind the loops.
LEMMA DoneStep ==
    ASSUME FitParts, [Next]_vars, ~Reboot, \A p \in Peers : ~Open(p),
           pc' # "aborted"
    PROVE  \A i, j \in Nat : IsHidChar(peer, i, j) =>
              /\ Done(i, j) => Done(i, j)'
              /\ Done(i, j)' /\ ~Done(i, j) =>
                    /\ i = at["svcs"] + 1 /\ j = at["chrs"] + 1
                    /\ \/ /\ NextChar /\ ~IsReportOf(peer, i, j)
                          /\ IsModeOf(peer, i, j) => <<i, j, 0>> \in unread'
                       \/ ReadReturn \/ LastDescr
<1> USE DEF procVars, tabVars, loopVars, devVars, subVars, FitParts, Shape, LoopType, Kinds
<1>1. CASE Found("svcs", "service")
  <2>1. pc = "svcs" /\ pc' = "service" /\ at' = [at EXCEPT !["svcs"] = 0] /\ at["svcs"] = 0
    BY <1>1 DEF Found, LoopInv
  <2> QED BY <2>1 DEF Done, InService
<1>2. CASE Found("chrs", "char")
  <2>1. pc = "chrs" /\ at' = [at EXCEPT !["chrs"] = 0]
    BY <1>2 DEF Found
  <2>2. \A i, j \in Nat : IsHidChar(peer, i, j) => j > 0
    BY PeerFits DEF IsHidChar, ControlType
  <2> QED BY <2>1, <2>2 DEF Done, InService
<1>3. CASE Found("dscs", "descr")
  <2>1. pc = "dscs" /\ pc' \in {"descr", "aborted"} /\ at' = [at EXCEPT !["dscs"] = 0]
    BY <1>3 DEF Found
  <2> QED BY <2>1 DEF Done, InService
<1>4. CASE NextService
  <2>1. /\ pc = "service" /\ at["svcs"] \in Nat
        /\ \/ at' = at /\ pc' = "chrs"
           \/ at' = [at EXCEPT !["svcs"] = at["svcs"] + 1] /\ pc' = "service"
              /\ peer[at["svcs"] + 1].uuid = "other"
    BY <1>4, NextServiceIs DEF NextService, Advance
  <2> QED BY <2>1 DEF Done, InService, IsHidChar
<1>5. CASE LastService
  BY <1>5 DEF LastService, Done, InService
<1>6. CASE NextChar
  <2> DEFINE e == at["chrs"] + 1
  <2>1. pc = "char" /\ pc' \in InService /\ at["chrs"] \in Nat
        /\ Svc = peer[at["svcs"] + 1]
    BY <1>6, NextCharIs DEF NextChar, SkipChar, ReadChar, ReadCharFails, BatteryChar, ReportChar,
                         AfterRead, InService, LoopInv, Svc
  <2>2. \/ at' = at
        \/ at' = [at EXCEPT !["chrs"] = e] /\ (SkipChar(e) \/ ReadCharFails(e))
    BY <1>6, NextCharIs DEF SkipChar, ReadChar, ReadCharFails, BatteryChar, ReportChar, Advance,
                         AfterRead
  <2>3. SkipChar(e) => ~Reads(Svc.uuid, Svc.chars[e]) /\ ~IsReport(Svc.uuid, Svc.chars[e])
    BY <2>1 DEF SkipChar
  <2>4. SkipChar(e) => ~IsReportOf(peer, at["svcs"] + 1, e) /\ ~IsModeOf(peer, at["svcs"] + 1, e)
    BY <2>1, <2>3 DEF Reads, IsReport, IsReportOf, IsModeOf, IsHidChar
  <2>5. ReadCharFails(e) => /\ ~IsReportOf(peer, at["svcs"] + 1, e)
                            /\ <<at["svcs"] + 1, e, 0>> \in unread'
    <3> SUFFICES ASSUME ReadCharFails(e) PROVE /\ ~IsReportOf(peer, at["svcs"] + 1, e)
                                               /\ <<at["svcs"] + 1, e, 0>> \in unread'
      OBVIOUS
    <3>1. Reads(Svc.uuid, Svc.chars[e]) /\ <<cur["svcs"], e, 0>> \in unread'
      BY DEF ReadCharFails
    <3>2. cur["svcs"] = at["svcs"] + 1
      BY <2>1 DEF LoopInv, InService
    <3>3. ~IsReportOf(peer, at["svcs"] + 1, e)
      BY <2>1, <3>1 DEF Reads, IsReportOf, IsHidChar, ReportKinds
    <3> QED BY <3>1, <3>2, <3>3
  <2> QED BY <1>6, <2>1, <2>2, <2>4, <2>5 DEF Done, InService
<1>7. CASE LastChar
  <2>1. pc = "char" /\ pc' = "service" /\ at["svcs"] \in Nat
        /\ at' = [at EXCEPT !["svcs"] = at["svcs"] + 1] /\ at["chrs"] = discovered["chrs"]
    BY <1>7 DEF LastChar, LeaveService, Advance
  <2>2. at["chrs"] = Len(peer[at["svcs"] + 1].chars)
    BY <2>1 DEF TableInv, TableOK, Loop, InService, Exact, Total, Svc, LoopInv
  <2>3. \A i, j \in Nat : IsHidChar(peer, i, j) => j <= Len(peer[i].chars)
    BY PeerFits DEF IsHidChar, ControlType
  <2> QED BY <2>1, <2>2, <2>3 DEF Done, InService
<1>8. CASE ReadReturn
  <2>1. pc = "read" /\ pc' \in InService /\ at["chrs"] \in Nat
        /\ (at' = at \/ at' = [at EXCEPT !["chrs"] = at["chrs"] + 1])
    BY <1>8 DEF ReadReturn, StoreRead, AfterRead, Advance, InService
  <2> QED BY <1>8, <2>1 DEF Done, InService
<1>9. CASE Describe
  BY <1>9 DEF Describe, Done, InService
<1>10. CASE NextDescr
  <2>1. pc = "descr" /\ pc' \in InService /\ at' \in {at, [at EXCEPT !["dscs"] = at["dscs"] + 1]}
    BY <1>10, NextDescrIs DEF NextDescr, Advance, InService
  <2> QED BY <2>1 DEF Done, InService
<1>11. CASE RefReturn
  <2>1. pc = "ref" /\ pc' = "descr" /\ at' = [at EXCEPT !["dscs"] = at["dscs"] + 1]
    BY <1>11 DEF RefReturn, Advance
  <2> QED BY <2>1 DEF Done, InService
<1>12. CASE LastDescr
  <2>1. pc = "descr" /\ pc' = "char" /\ at["chrs"] \in Nat
        /\ at' = [at EXCEPT !["chrs"] = at["chrs"] + 1]
    BY <1>12 DEF LastDescr, LeaveChar, Advance
  <2> QED BY <1>12, <2>1 DEF Done, InService
<1>13. CASE Reconnect
  BY <1>13 DEF Reconnect, Done, InService
<1>14. CASE AttachNext
  <2>1. at' = at /\ pc \notin InService /\ pc' \notin InService
    BY <1>14 DEF AttachNext, InService
  <2> QED BY <2>1 DEF Done
<1>15. CASE ValueReturn
  BY <1>15 DEF ValueReturn, Done, InService
<1>16. CASE CccReturn
  BY <1>16 DEF CccReturn, Done, InService
<1>17. ASSUME NEW k \in Kinds, Discovered(k)
       PROVE  \A i, j \in Nat : Done(i, j)' <=> Done(i, j)
  <2>1. UNCHANGED <<pc, at>>
    BY <1>17 DEF Discovered
  <2> QED BY <2>1 DEF Done
<1>18. CASE ReadData
  <2>1. UNCHANGED <<pc, at>>
    BY <1>18 DEF ReadData
  <2> QED BY <2>1 DEF Done
<1>19. CASE ProcDone
  <2>1. UNCHANGED <<pc, at>>
    BY <1>19 DEF ProcDone
  <2> QED BY <2>1 DEF Done
<1>20. CASE ProcError
  <2>1. UNCHANGED <<pc, at>>
    BY <1>20 DEF ProcError
  <2> QED BY <2>1 DEF Done
<1>21. CASE UNCHANGED vars
  <2>1. UNCHANGED <<pc, at>>
    BY <1>21 DEF vars
  <2> QED BY <2>1 DEF Done
<1> QED BY <1>1, <1>2, <1>3, <1>4, <1>5, <1>6, <1>7, <1>8, <1>9, <1>10, <1>11, <1>12, <1>13,
   <1>14, <1>15, <1>16, <1>17, <1>18, <1>19, <1>20, <1>21 DEF Next, HostNext

\* The device as Open and Reboot leave it.
LEMMA OpenStarts ==
    ASSUME CountType, opens' <= 1, Reboot \/ \E p \in Peers : Open(p)
    PROVE  OpenParts'
<1>1. /\ dev' = NewDev /\ heap' = <<>> /\ ~cb_sem' /\ at'["svcs"] = 0 /\ unread' = {}
      /\ \/ pc' = "svcs"
         \/ pc' = "idle" /\ peer' = <<>>
  BY DEF CountType, Open, Reboot, Init, Kinds
<1>2. ValuesInv' /\ UnreadInv'
  BY <1>1 DEF ValuesInv, HeapInv, NewDev, Fetched, UnreadInv
<1>3. ListInv' /\ ModeInv'
  <2>1. \A i, j \in Nat : ~(IsHidChar(peer', i, j) /\ Done(i, j)')
    <3>1. ASSUME NEW i \in Nat, NEW j \in Nat, IsHidChar(peer', i, j)
          PROVE  i # 0
      <4>1. peer' \in Seq(Service)
        <5>1. peer' = <<>> \/ peer' \in Peers
          BY <1>1 DEF Open, Reboot
        <5>2. <<>> \in Seq(Service)
          OBVIOUS
        <5>3. \A p \in Peers : p \in Seq(Service)
          BY PeersAssumption
        <5> QED BY <5>1, <5>2, <5>3
      <4> QED BY <3>1, <4>1 DEF IsHidChar
    <3> QED BY <1>1, <3>1 DEF Done, InService
  <2> QED BY <1>1, <2>1 DEF ListInv, ModeInv, IsReportOf, IsModeOf, NewDev
<1>4. ReportInv' /\ BatteryInv' /\ SubInv'
  BY <1>1 DEF ReportInv, Describing, BatteryInv, SubInv, NewDev
<1> QED BY <1>2, <1>3, <1>4 DEF OpenParts

\* The pointers of the device and the block of a read in progress.
LEMMA HeapKept ==
    ASSUME HeapInv, UNCHANGED <<heap, dev.maps, dev.strings>>, Fetched' => Fetched
    PROVE  HeapInv'
  BY DEF HeapInv

\* The steps that use the heap: a read that ends hands its last block on.
LEMMA HeapStep ==
    ASSUME FitParts, HeapInv, [Next]_vars, ~Reboot, \A p \in Peers : ~Open(p),
           ~PnpUnread'
    PROVE  HeapInv'
<1> USE DEF FitParts, Shape, DataType, procVars, tabVars, loopVars, devVars, subVars
<1>1. CASE Found("svcs", "service")
  <2>1. UNCHANGED <<heap, dev.strings>> /\ ~Fetched'
        /\ dev'.maps = [i \in 1 .. dev.maps_len |-> 0]
    BY <1>1 DEF Found, Fetched, Device
  <2> QED BY <2>1 DEF HeapInv
<1>2. CASE ReadData
  <2>1. heap' = Append(heap, "live") /\ UNCHANGED dev
    BY <1>2 DEF ReadData
  <2>2. heap \in Seq(Block) /\ Len(heap) \in Nat
    OBVIOUS
  <2>3. Len(heap') = Len(heap) + 1 /\ heap'[Len(heap')] = "live"
        /\ \A b \in DOMAIN heap : b \in DOMAIN heap' /\ b # Len(heap') /\ heap'[b] = heap[b]
    BY <2>1, <2>2
  <2>4. \A b \in DOMAIN heap' : b \in DOMAIN heap \/ b = Len(heap')
    BY <2>1, <2>2
  <2>5. Len(heap') # 0 /\ heap' # <<>>
    BY <2>2, <2>3
  <2> QED BY <2>1, <2>3, <2>4, <2>5 DEF HeapInv
<1>3. CASE RefReturn
  <2>1. Fetched /\ UNCHANGED dev /\ FreeBlock(Len(heap)) /\ ~Fetched'
    BY <1>3 DEF RefReturn, Fetched
  <2>2. Len(heap) \in DOMAIN heap /\ heap[Len(heap)] = "live"
    BY <2>1 DEF HeapInv
  <2>3. /\ DOMAIN heap' = DOMAIN heap /\ heap'[Len(heap)] = "freed"
        /\ \A i \in DOMAIN heap : i # Len(heap) => heap'[i] = heap[i]
    BY <2>1, <2>2, FreeBlockIs
  <2> QED BY <2>1, <2>2, <2>3 DEF HeapInv
<1>4. CASE ReadReturn
  <2> DEFINE b == Len(heap)
  <2>1. Fetched /\ ~Fetched' /\ rdata' = b
    BY <1>4 DEF ReadReturn, StoreRead, Fetched, AfterRead
  <2>2. b \in DOMAIN heap /\ heap[b] = "live" /\ b # 0
    BY <2>1 DEF HeapInv
  <2>3. /\ \A n \in Strings : dev.strings[n] # b
        /\ \A i \in DOMAIN dev.maps : dev.maps[i] # b
    BY <2>1 DEF HeapInv
  <2> HIDE DEF b
  <2>4. CASE Chr.uuid = "PNP_ID"
    <3>1. UNCHANGED dev /\ FreeBlock(b)
      BY <1>4, <2>1, <2>4 DEF ReadReturn, StoreRead, Strings
    <3>2. /\ DOMAIN heap' = DOMAIN heap /\ heap'[b] = "freed"
          /\ \A i \in DOMAIN heap : i # b => heap'[i] = heap[i]
      BY <2>2, <3>1, FreeBlockIs
    <3> QED BY <2>1, <2>2, <2>3, <3>1, <3>2 DEF HeapInv
  <2>5. CASE Chr.uuid \in Strings
    <3>1. UNCHANGED <<heap, dev.maps>> /\ dev'.strings = [dev.strings EXCEPT ![Chr.uuid] = b]
      BY <1>4, <2>1, <2>5 DEF ReadReturn, StoreRead, Strings, Device
    <3>2. dev.strings \in [Strings -> Nat]
      BY DeviceIs
    <3>3. /\ dev'.strings[Chr.uuid] = b
          /\ \A n \in Strings : n # Chr.uuid => dev'.strings[n] = dev.strings[n]
      BY <2>5, <3>1, <3>2
    <3> QED BY <2>1, <2>2, <2>3, <3>1, <3>3 DEF HeapInv
  <2>6. CASE Chr.uuid = "REPORT_MAP"
    <3>1. UNCHANGED <<heap, dev.strings>>
          /\ dev'.maps = [dev.maps EXCEPT ![hidindex + 1] = b]
      BY <1>4, <2>1, <2>6 DEF ReadReturn, StoreRead, Strings, Device
    <3>2. dev.maps \in Seq(Nat)
      BY DeviceIs
    <3>3. /\ DOMAIN dev'.maps = DOMAIN dev.maps
          /\ \A i \in DOMAIN dev.maps :
                dev'.maps[i] = IF i = hidindex + 1 THEN b ELSE dev.maps[i]
      BY <3>1, <3>2
    <3> QED BY <2>1, <2>2, <2>3, <3>1, <3>3 DEF HeapInv
  <2>7. CASE Chr.uuid \notin Strings \cup {"PNP_ID", "REPORT_MAP"}
    <3>1. UNCHANGED <<heap, dev.strings, dev.maps>>
      BY <1>4, <2>7 DEF ReadReturn, StoreRead, Device
    <3> QED BY <2>1, <3>1, HeapKept
  <2> QED BY <2>4, <2>5, <2>6, <2>7
<1>5. CASE /\ ~Found("svcs", "service") /\ ~ReadData /\ ~RefReturn /\ ~ReadReturn
  <2>1. UNCHANGED <<dev.maps, dev.strings>>
    BY <1>5, DeviceStep
  <2>2. UNCHANGED heap /\ (Fetched' => Fetched)
    <3>1. CASE Found("chrs", "char")
      BY <3>1 DEF Found, Fetched
    <3>2. CASE Found("dscs", "descr")
      BY <3>2 DEF Found, Fetched
    <3>3. CASE NextService
      BY <3>3, NextServiceIs DEF NextService, Fetched
    <3>4. CASE LastService
      BY <3>4 DEF LastService, Fetched
    <3>5. CASE NextChar
      <4>1. heap' = heap /\ ~cb_sem' /\ (pc' = "read" => proc'.found = 0) /\ pc' # "ref"
        <5>1. pc = "char" /\ cb_sem' = cb_sem
          BY <3>5 DEF NextChar
        <5>2. ~cb_sem
          BY <5>1 DEF WaitInv, Kinds
        <5> DEFINE e == at["chrs"] + 1
        <5>3. ~(ReadCharFails(e) /\ Svc.chars[e].uuid = "PNP_ID")
          <6> SUFFICES ASSUME ReadCharFails(e), Svc.chars[e].uuid = "PNP_ID" PROVE FALSE
            OBVIOUS
          <6>1. <<cur["svcs"], e, 0>> \in unread' /\ peer' = peer
            BY <3>5 DEF ReadCharFails, NextChar
          <6>2. cur["svcs"] \in DOMAIN peer /\ e \in DOMAIN peer[cur["svcs"]].chars
            BY <3>5, <5>1, NextCharIs, CurrentIs DEF InService, Svc
          <6> QED BY <6>1, <6>2 DEF PnpUnread, Svc
        <5>4. heap' = heap /\ (pc' = "read" => proc'.found = 0) /\ pc' # "ref"
          BY <3>5, <5>1, <5>3, NextCharIs DEF SkipChar, ReadChar, ReadCharFails, BatteryChar,
                                         ReportChar, ReadStarts, AfterRead
        <5> QED BY <5>1, <5>2, <5>4
      <4> QED BY <4>1 DEF Fetched
    <3>6. CASE LastChar
      BY <3>6 DEF LastChar, LeaveService, Fetched
    <3>7. CASE Describe
      BY <3>7 DEF Describe, Start, Fetched
    <3>8. CASE NextDescr
      <4>1. heap' = heap /\ ~cb_sem' /\ (pc' = "ref" => proc'.found = 0) /\ pc' # "read"
        <5>1. pc = "descr" /\ cb_sem' = cb_sem /\ heap' = heap
          BY <3>8 DEF NextDescr
        <5>2. ~cb_sem
          BY <5>1 DEF WaitInv, Kinds
        <5>3. (pc' = "ref" => proc'.found = 0) /\ pc' # "read"
          BY <3>8, <5>1, NextDescrIs DEF ReadStarts
        <5> QED BY <5>1, <5>2, <5>3
      <4> QED BY <4>1 DEF Fetched
    <3>9. CASE LastDescr
      BY <3>9 DEF LastDescr, LeaveChar, Fetched
    <3>10. CASE Reconnect
      BY <3>10 DEF Reconnect, Fetched
    <3>11. CASE AttachNext
      BY <3>11 DEF AttachNext, Start, Fetched
    <3>12. CASE ValueReturn
      BY <3>12 DEF ValueReturn, Start, Fetched
    <3>13. CASE CccReturn
      BY <3>13 DEF CccReturn, Fetched
    <3>14. ASSUME NEW k \in Kinds, Discovered(k) PROVE UNCHANGED heap /\ (Fetched' => Fetched)
      BY <3>14 DEF Discovered, Fetched, Kinds, WaitInv
    <3>15. CASE ProcDone
      <4>1. heap' = heap /\ proc.found = Total(proc.kind) /\ proc.kind # "none" /\ pc' = pc
        BY <3>15 DEF ProcDone
      <4>2. pc \in {"read", "ref"} => proc.kind = "read"
        BY <4>1 DEF WaitInv, ControlType, Kinds
      <4>3. Total("read") = 1
        BY DEF Total
      <4> QED BY <4>1, <4>2, <4>3 DEF Fetched
    <3>16. CASE ProcError
      <4>1. heap' = heap /\ proc' = NoProc /\ cb_sem' = (proc.kind # "read")
            /\ proc.kind # "none" /\ pc' = pc
        BY <3>16 DEF ProcError
      <4>2. pc \in {"read", "ref"} => proc.kind = "read"
        BY <4>1 DEF WaitInv, ControlType, Kinds
      <4> QED BY <4>1, <4>2 DEF Fetched, NoProc
    <3>17. CASE UNCHANGED vars
      BY <3>17 DEF vars, Fetched
    <3> QED BY <1>5, <3>1, <3>2, <3>3, <3>4, <3>5, <3>6, <3>7, <3>8, <3>9, <3>10, <3>11, <3>12,
       <3>13, <3>14, <3>15, <3>16, <3>17 DEF Next, HostNext
  <2> QED BY <2>1, <2>2, HeapKept
<1> QED BY <1>1, <1>2, <1>3, <1>4, <1>5

\* The descriptors found are the characteristic's, and one declaration that is
\* neither a CCC nor a report reference.
LEMMA DescrsFoundIs ==
    ASSUME FitParts, pc \in AtChar
    PROVE  /\ Chr.descrs \in Seq({"CCC", "RPT_REF", "other"})
           /\ Len(DescrsFound) \in {Len(Chr.descrs), Len(Chr.descrs) + 1}
           /\ \A d \in 1 .. Len(Chr.descrs) : DescrsFound[d] = Chr.descrs[d]
           /\ \A d \in 1 .. Len(DescrsFound) : d > Len(Chr.descrs) => DescrsFound[d] = "other"
<1>1. Chr.descrs \in Seq({"CCC", "RPT_REF", "other"})
  BY CurrentIs DEF Char
<1> DEFINE s == Chr.descrs
<1>2. DescrsFound = s \o <<>> \/ DescrsFound = s \o <<"other">>
  BY DEF DescrsFound
<1> HIDE DEF s
<1>3. s \in Seq({"CCC", "RPT_REF", "other"})
  BY <1>1 DEF s
<1>4. /\ Len(s \o <<>>) = Len(s) /\ Len(s \o <<"other">>) = Len(s) + 1
      /\ \A d \in 1 .. Len(s) : (s \o <<>>)[d] = s[d] /\ (s \o <<"other">>)[d] = s[d]
      /\ (s \o <<"other">>)[Len(s) + 1] = "other"
  BY <1>3
<1>5. Len(s) \in Nat
  BY <1>3
<1> QED BY <1>2, <1>3, <1>4, <1>5 DEF s

\* The report K has described in full is the keyboard's.
LEMMA ReportComplete ==
    ASSUME FitParts, ReportInv, pc = "descr", Svc.uuid = "HID", at["dscs"] = Len(DescrsFound)
    PROVE  IsReportIn(peer, unread, at["svcs"] + 1, at["chrs"] + 1, report)
<1> DEFINE s == Chr.descrs
           n == Len(DescrsFound)
<1>1. /\ s \in Seq({"CCC", "RPT_REF", "other"}) /\ Len(s) \in Nat
      /\ n \in {Len(s), Len(s) + 1}
      /\ \A d \in 1 .. Len(s) : DescrsFound[d] = s[d]
      /\ \A d \in 1 .. n : d > Len(s) => DescrsFound[d] = "other"
  BY DescrsFoundIs DEF AtChar
<1>2. Chr = peer[at["svcs"] + 1].chars[at["chrs"] + 1]
      /\ cur["svcs"] = at["svcs"] + 1 /\ cur["chrs"] = at["chrs"] + 1
      /\ report.map = HidIn(peer, at["svcs"] + 1)
  BY DEF FitParts, LoopInv, HidInv, ReportInv, Svc, Chr, InService, AtChar, Describing
<1>3. /\ report.handle = <<cur["svcs"], cur["chrs"]>>
      /\ report.proto = (IF Chr.uuid = "RPT" THEN "REPORT" ELSE "BOOT")
      /\ report.notify = Chr.notify
      /\ report.type = (IF \E d \in 1 .. n : RefKnown(d)
                        THEN Chr.type ELSE BootType(Chr.uuid))
      /\ IF Chr.notify THEN IsLast(DescrsFound, "CCC", n, report.ccc) ELSE report.ccc = 0
  BY DEF ReportInv, Describing, Described
<1> HIDE DEF s, n
<1>4. (\E d \in 1 .. n : RefKnown(d))
      <=> \E d \in DOMAIN s : s[d] = "RPT_REF" /\ <<cur["svcs"], cur["chrs"], d>> \notin unread
  <2>1. \A d \in 1 .. n : RefKnown(d) => d \in 1 .. Len(s) /\ s[d] = "RPT_REF"
    BY <1>1 DEF RefKnown
  <2>2. \A d \in 1 .. Len(s) : d \in 1 .. n /\ DescrsFound[d] = s[d]
    BY <1>1
  <2>3. DOMAIN s = 1 .. Len(s)
    BY <1>1
  <2> QED BY <2>1, <2>2, <2>3 DEF RefKnown
<1>5. IsLast(DescrsFound, "CCC", n, report.ccc) => IsLast(s, "CCC", Len(s), report.ccc)
  BY <1>1 DEF IsLast
<1> QED BY <1>2, <1>3, <1>4, <1>5 DEF IsReportIn, s

\* No step of K touches what it knows of a report behind the loops.
LEMMA ReportStays ==
    ASSUME FitParts, [Next]_vars, ~Reboot, \A p \in Peers : ~Open(p),
           NEW i \in Nat, NEW j \in Nat, Done(i, j), NEW r,
           IsReportIn(peer, unread, i, j, r)
    PROVE  IsReportIn(peer, unread', i, j, r)
<1>1. ~Done(at["svcs"] + 1, at["chrs"] + 1)
  BY DEF Done, FitParts, Shape, LoopType, Kinds
<1>2. i # at["svcs"] + 1 \/ j # at["chrs"] + 1
  BY <1>1
<1>3. \A d : <<i, j, d>> \in unread' <=> <<i, j, d>> \in unread
  BY <1>2, UnreadStep
<1> QED BY <1>3 DEF IsReportIn

\* The reads that could not be started: where a step from the descriptors goes.
LEMMA DescrStep ==
    ASSUME FitParts, [Next]_vars, ~Reboot, \A p \in Peers : ~Open(p),
           pc \in {"descr", "ref"}
    PROVE  \/ LastDescr
           \/ /\ pc' \in {"descr", "ref"}
              /\ at' \in {at, [at EXCEPT !["dscs"] = at["dscs"] + 1]}
<1> USE DEF procVars, tabVars, loopVars, devVars, subVars
<1>1. CASE NextDescr
  BY <1>1, NextDescrIs DEF NextDescr, Advance
<1>2. CASE RefReturn
  BY <1>2 DEF RefReturn, Advance
<1>3. CASE ~NextDescr /\ ~RefReturn /\ ~LastDescr
  <2>1. UNCHANGED <<pc, at>>
    BY <1>3 DEF Next, HostNext, vars, Found, NextService, LastService, NextChar, LastChar,
           LeaveService, ReadReturn, StoreRead, Describe, Reconnect, AttachNext, ValueReturn,
           CccReturn, Discovered, ReadData, ProcDone, ProcError
  <2> QED BY <2>1
<1> QED BY <1>1, <1>2, <1>3

\* The reads of descriptors that could not be started stay behind K.
LEMMA UnreadKept ==
    ASSUME FitParts, UnreadInv, [Next]_vars, ~Reboot, \A p \in Peers : ~Open(p)
    PROVE  UnreadInv'
<1> SUFFICES ASSUME pc' # "aborted", NEW i \in Nat, NEW j \in Nat, NEW d \in Nat,
                    IsHidChar(peer, i, j), d # 0, <<i, j, d>> \in unread'
             PROVE  \/ Done(i, j)'
                    \/ /\ i = at'["svcs"] + 1 /\ j = at'["chrs"] + 1
                       /\ pc' \in {"descr", "ref"} /\ d <= at'["dscs"]
  BY DeviceStep DEF UnreadInv
<1>1. pc # "aborted" /\ at \in [Kinds -> Nat] /\ {"svcs", "chrs", "dscs"} = Kinds
  <2>1. pc = "aborted" => pc' = "aborted"
    BY DEF Next, HostNext, vars, procVars, tabVars, loopVars, devVars, subVars, Found,
           NextService, LastService, NextChar, LastChar, LeaveService, ReadReturn, StoreRead,
           Describe, NextDescr, RefReturn, LastDescr, LeaveChar, Reconnect, AttachNext,
           ValueReturn, CccReturn, Discovered, ReadData, ProcDone, ProcError, Kinds
  <2> QED BY <2>1 DEF FitParts, Shape, LoopType, Kinds
<1>2. CASE <<i, j, d>> \notin unread
  <2>1. /\ pc' = "descr" /\ at' = [at EXCEPT !["dscs"] = at["dscs"] + 1]
        /\ <<i, j, d>> = <<at["svcs"] + 1, at["chrs"] + 1, at["dscs"] + 1>>
    BY <1>2, UnreadStep
  <2> QED BY <1>1, <2>1
<1>3. CASE <<i, j, d>> \in unread
  <2>1. CASE Done(i, j)
    BY <2>1, DoneStep
  <2>2. CASE ~Done(i, j)
    <3>1. /\ i = at["svcs"] + 1 /\ j = at["chrs"] + 1
          /\ pc \in {"descr", "ref"} /\ d <= at["dscs"]
      BY <1>1, <1>3, <2>2 DEF UnreadInv
    <3>2. CASE LastDescr
      <4>1. pc' = "char" /\ at'["svcs"] = at["svcs"] /\ at'["chrs"] = at["chrs"] + 1
        BY <1>1, <3>2 DEF LastDescr, LeaveChar, Advance
      <4> QED BY <1>1, <3>1, <4>1 DEF Done, InService
    <3>3. CASE ~LastDescr
      <4>1. /\ pc' \in {"descr", "ref"}
            /\ at' \in {at, [at EXCEPT !["dscs"] = at["dscs"] + 1]}
        BY <3>1, <3>3, DescrStep
      <4> QED BY <1>1, <3>1, <4>1
    <3> QED BY <3>2, <3>3
  <2> QED BY <2>1, <2>2
<1> QED BY <1>2, <1>3

\* The report reference that K is reading could be read.
LEMMA RefIsRead ==
    ASSUME FitParts, UnreadInv, pc = "ref"
    PROVE  <<cur["svcs"], cur["chrs"], at["dscs"] + 1>> \notin unread
<1>1. /\ cur["svcs"] = at["svcs"] + 1 /\ cur["chrs"] = at["chrs"] + 1
      /\ Svc.uuid = "HID" /\ at["dscs"] \in Nat /\ at["svcs"] \in Nat /\ at["chrs"] \in Nat
  BY DEF FitParts, LoopInv, InService, AtChar, Shape, LoopType, Kinds
<1>2. IsHidChar(peer, at["svcs"] + 1, at["chrs"] + 1)
  BY <1>1, CurrentIs DEF IsHidChar, InService, AtChar, Svc
<1>3. ~Done(at["svcs"] + 1, at["chrs"] + 1)
  BY <1>1 DEF Done
<1> QED BY <1>1, <1>2, <1>3 DEF UnreadInv

\* The list of reports.
LEMMA ListStep ==
    ASSUME FitParts, ReportInv, ListInv, [Next]_vars, ~Reboot,
           \A p \in Peers : ~Open(p)
    PROVE  ListInv'
<1> SUFFICES ASSUME pc' # "aborted" PROVE ListInv'
  BY DEF ListInv
<1>1. peer' = peer /\ pc # "aborted"
  <2>1. pc = "aborted" => pc' = "aborted"
    BY DEF Next, HostNext, vars, procVars, tabVars, loopVars, devVars, subVars, Found,
           NextService, LastService, NextChar, LastChar, LeaveService, ReadReturn, StoreRead,
           Describe, NextDescr, RefReturn, LastDescr, LeaveChar, Reconnect, AttachNext,
           ValueReturn, CccReturn, Discovered, ReadData, ProcDone, ProcError, Kinds
  <2> QED BY <2>1, DeviceStep
<1>2. ASSUME NEW S \in Nat, NEW C \in Nat, S = at["svcs"] + 1, C = at["chrs"] + 1,
             LastDescr, Svc.uuid = "HID"
      PROVE  ListInv'
  <2> DEFINE rs == dev.reports
  <2>1. /\ pc = "descr" /\ pc' = "char" /\ at["dscs"] = discovered["dscs"]
        /\ at' = [at EXCEPT !["chrs"] = C] /\ dev'.reports = <<report>> \o rs
    BY <1>2 DEF LastDescr, LeaveChar, Advance, loopVars, FitParts, Shape, DataType, Device
  <2>2. IsReportIn(peer, unread, S, C, report) /\ unread' = unread
    <3>1. at["dscs"] = Len(DescrsFound)
      BY <2>1 DEF FitParts, TableInv, TableOK, Kinds, Loop, Exact, Total
    <3>2. unread' = unread
      BY <1>2 DEF LastDescr, LeaveChar, subVars
    <3> QED BY <1>2, <2>1, <3>1, <3>2, ReportComplete
  <2>3. IsReportOf(peer, S, C)
    <3>1. cur["svcs"] \in DOMAIN peer /\ cur["chrs"] \in DOMAIN Svc.chars
      BY <2>1, CurrentIs DEF InService, AtChar
    <3>2. cur["svcs"] = S /\ cur["chrs"] = C /\ Chr.uuid \in ReportKinds
      BY <1>2, <2>1 DEF FitParts, LoopInv, InService, AtChar, Describing, Shape, LoopType, Kinds
    <3> QED BY <1>2, <3>1, <3>2 DEF IsReportOf, IsHidChar, Svc, Chr
  <2>4. ~Done(S, C) /\ Done(S, C)'
    <3>1. at'["svcs"] = at["svcs"] /\ at'["chrs"] = C /\ at["svcs"] \in Nat /\ at["chrs"] \in Nat
      BY <2>1 DEF FitParts, Shape, LoopType, Kinds
    <3> QED BY <1>2, <2>1, <3>1 DEF Done, InService
  <2>5. \A i, j \in Nat : IsReportOf(peer, i, j) =>
           (Done(i, j)' <=> Done(i, j) \/ (i = S /\ j = C))
    <3> SUFFICES ASSUME NEW i \in Nat, NEW j \in Nat, IsReportOf(peer, i, j)
                 PROVE  Done(i, j)' <=> Done(i, j) \/ (i = S /\ j = C)
      OBVIOUS
    <3>1. IsHidChar(peer, i, j)
      BY DEF IsReportOf
    <3>2. Done(i, j) => Done(i, j)'
      BY <3>1, DoneStep
    <3>3. Done(i, j)' /\ ~Done(i, j) => i = S /\ j = C
      BY <1>2, <3>1, DoneStep
    <3> QED BY <2>4, <3>2, <3>3
  <2>6. rs \in Seq(Report) /\ report \in Report
    BY DeviceIs DEF FitParts, Shape, DataType
  <2>7. /\ \A a \in DOMAIN dev'.reports :
              \/ a = 1 /\ dev'.reports[a] = report
              \/ a - 1 \in DOMAIN rs /\ dev'.reports[a] = rs[a - 1] /\ a # 1
        /\ 1 \in DOMAIN dev'.reports /\ dev'.reports[1] = report
        /\ \A a \in DOMAIN rs : a + 1 \in DOMAIN dev'.reports /\ dev'.reports[a + 1] = rs[a]
        /\ \A a \in DOMAIN dev'.reports : a \in Nat
    BY <2>1, <2>6
  <2>8. report.handle = <<S, C>>
    BY <2>2 DEF IsReportIn
  <2> HIDE DEF rs
  <2>9. \A a \in DOMAIN rs : rs[a].handle # <<S, C>>
    <3> SUFFICES ASSUME NEW a \in DOMAIN rs PROVE rs[a].handle # <<S, C>>
      OBVIOUS
    <3>1. PICK i, j \in Nat : Done(i, j) /\ IsReportIn(peer, unread, i, j, rs[a])
      BY <1>1 DEF ListInv, rs
    <3>2. rs[a].handle = <<i, j>> /\ (i # S \/ j # C)
      BY <2>4, <3>1 DEF IsReportIn
    <3> QED BY <3>2
  <2>10. ASSUME NEW a \in DOMAIN dev'.reports
         PROVE  \E i, j \in Nat : IsReportOf(peer, i, j) /\ Done(i, j)'
                                  /\ IsReportIn(peer, unread', i, j, dev'.reports[a])
    <3>1. CASE dev'.reports[a] = report
      <4>1. IsReportIn(peer, unread', S, C, dev'.reports[a])
        BY <2>2, <3>1
      <4> QED BY <2>3, <2>4, <4>1
    <3>2. CASE a - 1 \in DOMAIN rs /\ dev'.reports[a] = rs[a - 1]
      <4>1. PICK i, j \in Nat : IsReportOf(peer, i, j) /\ Done(i, j)
                                /\ IsReportIn(peer, unread, i, j, rs[a - 1])
        BY <1>1, <3>2 DEF ListInv, rs
      <4> QED BY <2>2, <2>5, <3>2, <4>1
    <3> QED BY <2>7, <3>1, <3>2
  <2>11. ASSUME NEW i \in Nat, NEW j \in Nat, IsReportOf(peer, i, j), Done(i, j)'
         PROVE  \E a \in DOMAIN dev'.reports : dev'.reports[a].handle = <<i, j>>
    <3>1. CASE i = S /\ j = C
      BY <2>7, <2>8, <3>1
    <3>2. CASE Done(i, j)
      <4>1. PICK a \in DOMAIN rs : rs[a].handle = <<i, j>>
        BY <1>1, <2>11, <3>2 DEF ListInv, rs
      <4> QED BY <2>7, <4>1
    <3> QED BY <2>5, <2>11, <3>1, <3>2
  <2>12. ASSUME NEW a \in DOMAIN dev'.reports, NEW b \in DOMAIN dev'.reports,
                dev'.reports[a].handle = dev'.reports[b].handle
         PROVE  a = b
    <3>1. CASE a = 1 \/ b = 1
      BY <2>7, <2>8, <2>9, <2>12, <3>1
    <3>2. CASE a # 1 /\ b # 1
      <4>1. a - 1 = b - 1
        BY <1>1, <2>7, <2>12, <3>2 DEF ListInv, rs
      <4> QED BY <2>7, <4>1
    <3> QED BY <3>1, <3>2
  <2> QED BY <1>1, <2>10, <2>11, <2>12 DEF ListInv
<1>3. CASE ~(LastDescr /\ Svc.uuid = "HID")
  <2>1. dev'.reports = dev.reports
    BY <1>3, DeviceStep DEF LastDescr, LeaveChar
  <2>2. ASSUME NEW i \in Nat, NEW j \in Nat, IsReportOf(peer, i, j)
        PROVE  Done(i, j)' <=> Done(i, j)
    <3>1. IsHidChar(peer, i, j) /\ peer[i].chars[j].uuid \in ReportKinds /\ peer[i].uuid = "HID"
      BY <2>2 DEF IsReportOf, IsHidChar
    <3>2. CASE Done(i, j)' /\ ~Done(i, j)
      <4>1. i = at["svcs"] + 1 /\ j = at["chrs"] + 1 /\ (ReadReturn \/ LastDescr)
        BY <2>2, <3>1, <3>2, DoneStep DEF IsReportOf
      <4>2. pc \in AtChar
        BY <4>1 DEF ReadReturn, StoreRead, LastDescr, LeaveChar, AtChar
      <4>3. Svc = peer[i] /\ Chr = peer[i].chars[j]
        BY <4>1, <4>2 DEF FitParts, LoopInv, InService, AtChar, Svc, Chr
      <4>4. ReadReturn
        BY <1>3, <3>1, <4>1, <4>3
      <4>5. Chr.uuid \in {"PROTOCOL_MODE", "REPORT_MAP"}
        BY <3>1, <4>3, <4>4 DEF FitParts, LoopInv, ReadReturn, StoreRead
      <4> QED BY <3>1, <4>3, <4>5 DEF ReportKinds
    <3> QED BY <3>1, <3>2, DoneStep
  <2>3. ASSUME NEW a \in DOMAIN dev.reports
        PROVE  \E i, j \in Nat : IsReportOf(peer, i, j) /\ Done(i, j)'
                                 /\ IsReportIn(peer, unread', i, j, dev.reports[a])
    <3>1. PICK i, j \in Nat : IsReportOf(peer, i, j) /\ Done(i, j)
                              /\ IsReportIn(peer, unread, i, j, dev.reports[a])
      BY <1>1 DEF ListInv
    <3>2. IsReportIn(peer, unread', i, j, dev.reports[a])
      BY <3>1, ReportStays
    <3> QED BY <2>2, <3>1, <3>2
  <2> QED BY <1>1, <2>1, <2>2, <2>3 DEF ListInv
<1>4. at["svcs"] + 1 \in Nat /\ at["chrs"] + 1 \in Nat
  BY DEF FitParts, Shape, LoopType, Kinds
<1> QED BY <1>2, <1>3, <1>4

\* A HID characteristic that a step puts behind the loops, and what K did with it.
LEMMA ModeStep ==
    ASSUME FitParts, ModeInv, [Next]_vars, ~Reboot, \A p \in Peers : ~Open(p)
    PROVE  ModeInv'
<1> SUFFICES ASSUME pc' # "aborted", NEW i \in Nat, NEW m \in Nat, IsModeOf(peer, i, m),
                    Done(i, m)', <<i, m, 0>> \notin unread'
             PROVE  dev'.modes[HidIn(peer, i) + 1] = "REPORT"
  BY DeviceStep DEF ModeInv
<1>1. pc # "aborted"
  <2>1. pc = "aborted" => pc' = "aborted"
    BY DEF Next, HostNext, vars, procVars, tabVars, loopVars, devVars, subVars, Found,
           NextService, LastService, NextChar, LastChar, LeaveService, ReadReturn, StoreRead,
           Describe, NextDescr, RefReturn, LastDescr, LeaveChar, Reconnect, AttachNext,
           ValueReturn, CccReturn, Discovered, ReadData, ProcDone, ProcError, Kinds
  <2> QED BY <2>1
<1>2. IsHidChar(peer, i, m) /\ peer[i].uuid = "HID"
      /\ peer[i].chars[m].uuid = "PROTOCOL_MODE" /\ peer[i].chars[m].read
  BY DEF IsModeOf, IsHidChar
<1>3. CASE Done(i, m)
  <2>1. dev.modes[HidIn(peer, i) + 1] = "REPORT"
    BY <1>1, <1>3, UnreadStep DEF ModeInv
  <2>2. CASE ReadReturn
    <3>1. dev'.modes = dev.modes \/ dev'.modes = [dev.modes EXCEPT ![hidindex + 1] = "REPORT"]
      BY <2>2 DEF ReadReturn, StoreRead, FitParts, Shape, DataType, Device
    <3>2. dev.modes \in Seq({"undefined", "REPORT"})
      BY DeviceIs DEF FitParts, Shape, DataType
    <3>3. HidIn(peer, i) + 1 \in DOMAIN dev.modes
      <4>1. peer \in Seq(Service) /\ i \in DOMAIN peer
        BY <1>2, PeerFits DEF IsHidChar, FitParts, Shape, ControlType
      <4>2. Len(dev.modes) = HidIn(peer, Len(peer) + 1)
        BY <2>2 DEF FitParts, HidInv, ReadReturn, StoreRead
      <4>3. HidIn(peer, i) \in Nat /\ HidIn(peer, i) < HidIn(peer, Len(peer) + 1)
            /\ HidIn(peer, Len(peer) + 1) \in Nat
        BY <1>2, <4>1, HidSlot
      <4> QED BY <3>2, <4>2, <4>3
    <3> QED BY <2>1, <3>1, <3>2, <3>3
  <2>3. CASE Found("svcs", "service")
    <3>1. pc = "svcs" /\ pc' = "service" /\ at["svcs"] = 0
      BY <2>3 DEF Found, FitParts, LoopInv
    <3>2. i # 0
      BY <1>2, PeerFits DEF IsHidChar, FitParts, Shape, ControlType
    <3> QED BY <1>3, <3>1, <3>2 DEF Done, InService
  <2>4. CASE ~ReadReturn /\ ~Found("svcs", "service")
    BY <2>1, <2>4, DeviceStep
  <2> QED BY <2>2, <2>3, <2>4
<1>4. CASE ~Done(i, m)
  <2>1. i = at["svcs"] + 1 /\ m = at["chrs"] + 1 /\ (ReadReturn \/ LastDescr)
    BY <1>2, <1>4, DoneStep
  <2>2. pc \in AtChar
    BY <2>1 DEF ReadReturn, StoreRead, LastDescr, LeaveChar, AtChar
  <2>3. Svc = peer[i] /\ Chr = peer[i].chars[m]
    BY <2>1, <2>2 DEF FitParts, LoopInv, InService, AtChar, Svc, Chr
  <2>4. ReadReturn
    <3>1. LastDescr => Chr.uuid \in ReportKinds
      BY <1>2, <2>3 DEF FitParts, LoopInv, Describing, LastDescr, LeaveChar
    <3> QED BY <1>2, <2>1, <2>3, <3>1 DEF ReportKinds
  <2>5. dev'.modes = [dev.modes EXCEPT ![hidindex + 1] = "REPORT"]
    BY <1>2, <2>3, <2>4 DEF ReadReturn, StoreRead, Strings, FitParts, Shape, DataType, Device
  <2>6. hidindex + 1 \in DOMAIN dev.modes /\ hidindex = HidIn(peer, i)
    <3>1. pc \in InService
      BY <2>2 DEF AtChar, InService
    <3>2. hidindex < dev.maps_len /\ hidindex \in Nat /\ dev.maps_len \in Nat
      BY <1>2, <2>3, <3>1, FitTypeOK, DeviceIs
         DEF DiscoveryTypeOK, FitParts, Shape, LoopType, DataType
    <3>3. Len(dev.modes) = dev.maps_len /\ hidindex = HidIn(peer, i)
      BY <2>1, <3>1 DEF FitParts, HidInv, InService
    <3>4. dev.modes \in Seq({"undefined", "REPORT"})
      BY DeviceIs DEF FitParts, Shape, DataType
    <3> QED BY <3>2, <3>3, <3>4
  <2> QED BY <2>5, <2>6
<1> QED BY <1>3, <1>4

\* The handle of the battery level.
LEMMA BatteryStep ==
    ASSUME FitParts, BatteryInv, [Next]_vars, ~Reboot, \A p \in Peers : ~Open(p)
    PROVE  BatteryInv'
<1>1. peer' = peer
  BY DeviceStep
<1>2. CASE NextChar /\ dev'.battery # dev.battery
  <2>1. dev'.battery = <<cur["svcs"], at["chrs"] + 1>> /\ Svc.uuid = "BAS"
    BY <1>2, NextCharIs DEF SkipChar, ReadChar, ReadCharFails, BatteryChar, ReportChar, devVars,
                            IsBattery, FitParts, Shape, DataType, Device
  <2>2. cur["svcs"] \in DOMAIN peer /\ at["chrs"] + 1 \in Nat
    BY <1>2, CurrentIs DEF NextChar, InService, FitParts, Shape, LoopType, Kinds
  <2> QED BY <1>1, <2>1, <2>2 DEF BatteryInv, Svc
<1>3. CASE dev'.battery = dev.battery
  BY <1>1, <1>3 DEF BatteryInv
<1> QED BY <1>2, <1>3, DeviceStep

\* What is still to be subscribed to: the steps that do not touch it.
LEMMA SubKept ==
    ASSUME SubInv, UNCHANGED <<dev.reports, todo>>, Tried \subseteq Tried',
           pc' \in Attached => pc \in Attached,
           pc' = "ccc" /\ cb_sem' => Head(todo).handle \in Tried'
    PROVE  SubInv'
<1>1. ASSUME NEW a \in DOMAIN dev.reports, pc \in Attached, Listens(dev.reports[a]),
             dev.reports[a].ccc # 0
      PROVE  dev.reports[a].handle \in Tried' \/ IsAwaited(dev.reports[a])
  BY <1>1 DEF SubInv
<1> QED BY <1>1 DEF SubInv, IsAwaited, Listens


\* The report K is about to add: the steps that describe nothing.
LEMMA ReportKept ==
    ASSUME ReportInv, UNCHANGED <<peer, report, hidindex, unread, cur["svcs"], cur["chrs"]>>,
           pc' \in Describing => pc \in Describing /\ Described' = Described
    PROVE  ReportInv'
<1>1. Svc' = Svc /\ Chr' = Chr /\ DescrsFound' = DescrsFound
  BY DEF Svc, Chr, DescrsFound
<1> QED BY <1>1 DEF ReportInv, RefKnown

\* The report K is about to add.
LEMMA ReportStep ==
    ASSUME FitParts, ReportInv, UnreadInv, [Next]_vars, ~Reboot, \A p \in Peers : ~Open(p)
    PROVE  ReportInv'
<1> USE DEF procVars, tabVars, loopVars, devVars, subVars
<1>0. /\ at \in [Kinds -> Nat] /\ cur \in [Kinds -> Nat] /\ report \in Report
      /\ {"svcs", "chrs", "dscs"} = Kinds
  BY DEF FitParts, Shape, LoopType, DataType, Kinds
<1>1. CASE NextChar
  <2> DEFINE e == at["chrs"] + 1
  <2>1. /\ UNCHANGED <<peer, hidindex>> /\ pc = "char"
        /\ cur' = [cur EXCEPT !["chrs"] = e]
        /\ SkipChar(e) \/ ReadChar(e) \/ ReadCharFails(e) \/ BatteryChar(e) \/ ReportChar(e)
    BY <1>1, NextCharIs DEF NextChar
  <2>2. /\ cur'["svcs"] = cur["svcs"] /\ cur'["chrs"] = e /\ Svc' = Svc
        /\ Chr' = Svc.chars[e]
    BY <1>0, <2>1 DEF Svc, Chr
  <2>3. CASE ReportChar(e)
    <3>1. report' = NewReport(cur["svcs"], e) /\ pc' = "describe"
      BY <2>3 DEF ReportChar
    <3>2. NewReport(cur["svcs"], e) =
             [handle |-> <<cur["svcs"], e>>,
              proto |-> IF Chr'.uuid = "RPT" THEN "REPORT" ELSE "BOOT",
              type |-> BootType(Chr'.uuid), notify |-> Chr'.notify,
              map |-> hidindex, ccc |-> 0]
      BY <2>2 DEF NewReport, Svc
    <3>3. Described' = 0
      BY <3>1 DEF Described
    <3>4. IsLast(DescrsFound', "CCC", 0, 0)
      BY DEF IsLast
    <3> QED BY <2>1, <2>2, <3>1, <3>2, <3>3, <3>4 DEF ReportInv
  <2>4. CASE BatteryChar(e)
    BY <2>2, <2>4 DEF BatteryChar, IsBattery, ReportInv
  <2>5. CASE SkipChar(e) \/ ReadChar(e)
    BY <2>1, <2>5 DEF SkipChar, ReadChar, ReportInv, Describing
  <2>6. CASE ReadCharFails(e)
    <3>1. pc' = "char" \/ Svc.uuid = "GAP"
      BY <2>6 DEF ReadCharFails, AfterRead
    <3> QED BY <2>2, <3>1 DEF ReportInv, Describing
  <2> QED BY <2>1, <2>3, <2>4, <2>5, <2>6
<1>2. CASE NextDescr
  <2> DEFINE e == at["dscs"] + 1
  <2>1. /\ UNCHANGED <<peer, hidindex>> /\ pc = "descr" /\ e \in 1 .. Len(DescrsFound)
        /\ cur' = [cur EXCEPT !["dscs"] = e]
        /\ report' = IF Svc.uuid = "HID" /\ report.notify /\ DescrsFound[e] = "CCC"
                     THEN [report EXCEPT !.ccc = e] ELSE report
        /\ IF Svc.uuid = "HID" /\ DescrsFound[e] = "RPT_REF"
           THEN \/ pc' = "ref" /\ at' = at /\ unread' = unread
                \/ /\ pc' = "descr" /\ at' = [at EXCEPT !["dscs"] = e]
                   /\ unread' = unread \cup {<<cur["svcs"], cur["chrs"], e>>}
           ELSE at' = [at EXCEPT !["dscs"] = e] /\ pc' = "descr" /\ unread' = unread
    BY <1>2, NextDescrIs DEF NextDescr, Advance
  <2>2. /\ cur'["svcs"] = cur["svcs"] /\ cur'["chrs"] = cur["chrs"]
        /\ Svc' = Svc /\ Chr' = Chr /\ DescrsFound' = DescrsFound
    BY <1>0, <2>1 DEF Svc, Chr, DescrsFound
  <2> SUFFICES ASSUME Svc.uuid = "HID" PROVE ReportInv'
    BY <2>2 DEF ReportInv
  <2> DEFINE n == at["dscs"]
  <2>3. /\ report.handle = <<cur["svcs"], cur["chrs"]>>
        /\ report.proto = (IF Chr.uuid = "RPT" THEN "REPORT" ELSE "BOOT")
        /\ report.notify = Chr.notify /\ report.map = hidindex
        /\ report.type = (IF \E d \in 1 .. n : RefKnown(d)
                          THEN Chr.type ELSE BootType(Chr.uuid))
        /\ IF Chr.notify THEN IsLast(DescrsFound, "CCC", n, report.ccc)
           ELSE report.ccc = 0
    BY <2>1 DEF ReportInv, Describing, Described
  <2>4. n \in Nat /\ e = n + 1
    BY <1>0
  <2>5. CASE DescrsFound[e] = "RPT_REF" /\ pc' = "ref"
    <3>1. report' = report /\ Described' = n /\ unread' = unread
      BY <2>1, <2>5 DEF Described
    <3>2. \A d : RefKnown(d)' <=> RefKnown(d)
      BY <2>2, <3>1 DEF RefKnown
    <3> QED BY <2>1, <2>2, <2>3, <3>1, <3>2 DEF ReportInv
  <2>6. CASE ~(DescrsFound[e] = "RPT_REF" /\ pc' = "ref")
    <3>1. Described' = e
      BY <1>0, <2>1, <2>6 DEF Described
    <3>2. (\E d \in 1 .. e : RefKnown(d)') <=> \E d \in 1 .. n : RefKnown(d)
      <4>1. \A d : d = e => ~RefKnown(d)'
        BY <2>1, <2>2, <2>6 DEF RefKnown
      <4>2. \A d \in 1 .. n : <<cur["svcs"], cur["chrs"], d>> # <<cur["svcs"], cur["chrs"], e>>
        BY <2>4
      <4>3. \A d \in 1 .. n : RefKnown(d)' <=> RefKnown(d)
        BY <2>1, <2>2, <4>2 DEF RefKnown
      <4> QED BY <2>4, <4>1, <4>3
    <3>3. /\ report'.handle = report.handle /\ report'.proto = report.proto
          /\ report'.notify = report.notify /\ report'.map = report.map
          /\ report'.type = report.type
          /\ report'.ccc = IF report.notify /\ DescrsFound[e] = "CCC" THEN e ELSE report.ccc
      BY <1>0, <2>1 DEF Report
    <3>4. IF Chr.notify THEN IsLast(DescrsFound, "CCC", e, report'.ccc)
          ELSE report'.ccc = 0
      <4> HIDE DEF e, n
      <4> QED BY <2>3, <2>4, <3>3 DEF IsLast
    <3> QED BY <2>1, <2>2, <2>3, <3>1, <3>2, <3>3, <3>4 DEF ReportInv
  <2> QED BY <2>5, <2>6
<1>3. CASE RefReturn
  <2> DEFINE n == at["dscs"]
  <2>1. /\ UNCHANGED <<peer, hidindex, unread, cur>> /\ pc = "ref" /\ pc' = "descr"
        /\ at' = [at EXCEPT !["dscs"] = n + 1]
        /\ report' = [report EXCEPT !.type = Chr.type]
    BY <1>3 DEF RefReturn, Advance
  <2>2. Svc' = Svc /\ Chr' = Chr /\ DescrsFound' = DescrsFound
    BY <2>1 DEF Svc, Chr, DescrsFound
  <2>3. Svc.uuid = "HID" /\ DescrsFound[n + 1] = "RPT_REF" /\ n \in Nat
    BY <1>0, <2>1 DEF FitParts, LoopInv
  <2>4. /\ report.handle = <<cur["svcs"], cur["chrs"]>>
        /\ report.proto = (IF Chr.uuid = "RPT" THEN "REPORT" ELSE "BOOT")
        /\ report.notify = Chr.notify /\ report.map = hidindex
        /\ IF Chr.notify THEN IsLast(DescrsFound, "CCC", n, report.ccc)
           ELSE report.ccc = 0
    BY <2>1, <2>3 DEF ReportInv, Describing, Described
  <2>5. /\ report'.handle = report.handle /\ report'.proto = report.proto
        /\ report'.notify = report.notify /\ report'.map = report.map
        /\ report'.ccc = report.ccc /\ report'.type = Chr.type
    BY <1>0, <2>1 DEF Report
  <2>6. Described' = n + 1
    BY <1>0, <2>1 DEF Described
  <2>7. \E d \in 1 .. n + 1 : RefKnown(d)'
    <3>1. <<cur["svcs"], cur["chrs"], n + 1>> \notin unread
      BY <2>1, RefIsRead
    <3> QED BY <2>1, <2>2, <2>3, <3>1 DEF RefKnown
  <2>8. IsLast(DescrsFound, "CCC", n, report.ccc)
           => IsLast(DescrsFound, "CCC", n + 1, report.ccc)
    <3> HIDE DEF n
    <3> QED BY <2>3 DEF IsLast
  <2> QED BY <2>1, <2>2, <2>4, <2>5, <2>6, <2>7, <2>8 DEF ReportInv
<1>4. CASE Svc.uuid = "GAP" /\ ReadReturn
  BY <1>4 DEF ReadReturn, StoreRead, ReportInv, Svc
<1>5. CASE ~(NextChar \/ NextDescr \/ RefReturn \/ (Svc.uuid = "GAP" /\ ReadReturn))
  <2>1. /\ peer' = peer
        /\ pc' \in Describing =>
              /\ UNCHANGED <<report, hidindex, unread, cur>>
              /\ pc \in Describing /\ Described' = Described
    <3>1. CASE Found("svcs", "service")
      BY <3>1 DEF Found, Describing
    <3>2. CASE Found("chrs", "char")
      BY <3>2 DEF Found, Describing
    <3>3. CASE Found("dscs", "descr")
      BY <1>0, <3>3 DEF Found, Describing, Described
    <3>4. CASE NextService
      BY <3>4, NextServiceIs DEF NextService, Describing
    <3>5. CASE LastService
      BY <3>5 DEF LastService, Describing
    <3>6. CASE LastChar
      BY <3>6 DEF LastChar, LeaveService, Describing
    <3>7. CASE ReadReturn
      BY <1>5, <3>7 DEF ReadReturn, StoreRead, AfterRead, Describing
    <3>8. CASE Describe
      BY <3>8 DEF Describe, Describing, Described
    <3>9. CASE LastDescr
      BY <3>9 DEF LastDescr, LeaveChar, Describing
    <3>10. CASE Reconnect
      BY <3>10 DEF Reconnect, Describing
    <3>11. CASE AttachNext
      BY <3>11 DEF AttachNext, Describing
    <3>12. CASE ValueReturn
      BY <3>12 DEF ValueReturn, Describing
    <3>13. CASE CccReturn
      BY <3>13 DEF CccReturn, Describing
    <3>14. ASSUME NEW k \in Kinds, Discovered(k)
           PROVE  UNCHANGED <<peer, report, hidindex, unread, cur, pc, at>>
      BY <3>14 DEF Discovered
    <3>15. CASE ReadData
      BY <3>15 DEF ReadData, Described
    <3>16. CASE ProcDone
      BY <3>16 DEF ProcDone, Described
    <3>17. CASE ProcError
      BY <3>17 DEF ProcError, Described
    <3>18. CASE UNCHANGED vars
      BY <3>18 DEF vars, Described
    <3> QED BY <1>5, <3>1, <3>2, <3>3, <3>4, <3>5, <3>6, <3>7, <3>8, <3>9, <3>10, <3>11,
               <3>12, <3>13, <3>14, <3>15, <3>16, <3>17, <3>18 DEF Next, HostNext, Described
  <2>2. CASE pc' \in Describing
    BY <2>1, <2>2, ReportKept
  <2>3. CASE pc' \notin Describing
    BY <2>3 DEF ReportInv
  <2> QED BY <2>2, <2>3
<1> QED BY <1>1, <1>2, <1>3, <1>4, <1>5

\* Each report of the list is subscribed to when K goes past it.
LEMMA SubStep ==
    ASSUME FitParts, SubInv, [Next]_vars, ~Reboot, \A p \in Peers : ~Open(p)
    PROVE  SubInv'
<1> USE DEF FitParts, Shape, DataType, procVars, tabVars, loopVars, devVars, subVars
<1>1. todo \in Seq(Listening)
  OBVIOUS
<1>2. CASE LastService \/ Reconnect
  <2>1. todo' = Listeners /\ pc' = "attach" /\ dev' = dev
    BY <1>2 DEF LastService, Reconnect
  <2>2. ASSUME NEW a \in DOMAIN dev.reports, Listens(dev.reports[a])
        PROVE  \E t \in DOMAIN todo' :
                  todo'[t] = Listener(dev.reports[a].handle, dev.reports[a].ccc, TRUE)
    <3>1. Listens(dev.reports[a]) = TRUE
      BY <2>2 DEF Listens, Listens
    <3> QED BY <2>1, <3>1, ListenersIs
  <2> QED BY <2>1, <2>2 DEF SubInv, IsAwaited, Listens
<1>3. CASE AttachNext
  <2>1. pc = "attach" /\ UNCHANGED <<dev, subscribed, refused>> /\ pc' # "ccc" /\ pc' \in Attached
    BY <1>3 DEF AttachNext, Attached
  <2>2. \/ todo' = todo
        \/ todo # <<>> /\ todo' = Tail(todo) /\ Head(todo).listens = FALSE
    BY <1>1, <1>3 DEF AttachNext
  <2>3. ASSUME NEW r, IsAwaited(r)
        PROVE  \E t \in DOMAIN todo' : todo'[t] = Listener(r.handle, r.ccc, TRUE)
    <3>1. PICK t \in DOMAIN todo : todo[t] = Listener(r.handle, r.ccc, TRUE)
      BY <2>3 DEF IsAwaited
    <3>2. CASE todo' = todo
      BY <3>1, <3>2
    <3>3. CASE todo # <<>> /\ todo' = Tail(todo) /\ Head(todo).listens = FALSE
      <4>1. t # 1
        BY <1>1, <3>1, <3>3 DEF Listener
      <4>2. t - 1 \in DOMAIN todo' /\ todo'[t - 1] = todo[t]
        BY <1>1, <3>3, <4>1
      <4> QED BY <3>1, <4>2
    <3> QED BY <2>2, <3>2, <3>3
  <2> QED BY <2>1, <2>3 DEF SubInv, IsAwaited, Listens, Attached, Tried
<1>4. CASE ValueReturn \/ CccReturn
  <2>1. pc \in {"value", "ccc"} /\ pc' \in Attached /\ UNCHANGED <<dev, subscribed, refused>>
        /\ ~cb_sem' /\ todo # <<>>
    BY <1>4 DEF ValueReturn, CccReturn, Attached, WaitInv
  <2>2. \/ todo' = todo
        \/ todo' = Tail(todo) /\ (Head(todo).ccc = 0 \/ Head(todo).handle \in Tried)
    BY <1>4 DEF ValueReturn, CccReturn, SubInv
  <2>3. ASSUME NEW r, IsAwaited(r), r.ccc # 0, r.handle \notin Tried
        PROVE  \E t \in DOMAIN todo' : todo'[t] = Listener(r.handle, r.ccc, TRUE)
    <3>1. PICK t \in DOMAIN todo : todo[t] = Listener(r.handle, r.ccc, TRUE)
      BY <2>3 DEF IsAwaited
    <3>2. CASE todo' = todo
      BY <3>1, <3>2
    <3>3. CASE todo' = Tail(todo) /\ (Head(todo).ccc = 0 \/ Head(todo).handle \in Tried)
      <4>1. t # 1
        BY <1>1, <2>1, <2>3, <3>1, <3>3 DEF Listener
      <4>2. t - 1 \in DOMAIN todo' /\ todo'[t - 1] = todo[t]
        BY <1>1, <2>1, <3>3, <4>1
      <4> QED BY <3>1, <4>2
    <3> QED BY <2>2, <3>2, <3>3
  <2> QED BY <2>1, <2>3 DEF SubInv, IsAwaited, Listens, Attached, Tried
<1>5. CASE ProcDone \/ ProcError
  <2>1. UNCHANGED <<dev, todo, pc>> /\ Tried \subseteq Tried'
        /\ proc.kind # "none"
        /\ (proc.kind = "ccc" => Head(todo).handle \in Tried')
    BY <1>5 DEF ProcDone, ProcError, Written, Tried
  <2>2. pc = "ccc" => proc.kind = "ccc"
    BY <2>1 DEF WaitInv
  <2> QED BY <2>1, <2>2, SubKept
<1>6. CASE ~(\/ LastService \/ Reconnect \/ AttachNext \/ ValueReturn \/ CccReturn
             \/ ProcDone \/ ProcError)
  <2>1. /\ UNCHANGED <<todo, subscribed, refused>>
        /\ pc' \in Attached => pc' = pc /\ cb_sem' = cb_sem /\ dev'.reports = dev.reports
    <3>1. CASE Found("svcs", "service")
      BY <3>1 DEF Found, Attached
    <3>2. CASE Found("chrs", "char")
      BY <3>2 DEF Found, Attached
    <3>3. CASE Found("dscs", "descr")
      BY <3>3 DEF Found, Attached
    <3>4. CASE NextService
      BY <3>4, NextServiceIs DEF NextService, Attached
    <3>5. CASE NextChar
      BY <3>5, NextCharIs DEF NextChar, SkipChar, ReadChar, ReadCharFails, BatteryChar, ReportChar,
                                AfterRead, Attached
    <3>6. CASE LastChar
      BY <3>6 DEF LastChar, LeaveService, Attached
    <3>7. CASE ReadReturn
      BY <3>7 DEF ReadReturn, StoreRead, AfterRead, Attached
    <3>8. CASE Describe
      BY <3>8 DEF Describe, Attached
    <3>9. CASE NextDescr
      BY <3>9, NextDescrIs DEF NextDescr, Attached
    <3>10. CASE RefReturn
      BY <3>10 DEF RefReturn, Attached
    <3>11. CASE LastDescr
      BY <3>11 DEF LastDescr, LeaveChar, Attached
    <3>12. ASSUME NEW k \in Kinds, Discovered(k)
      PROVE  /\ UNCHANGED <<todo, subscribed, refused>>
             /\ pc' \in Attached => pc' = pc /\ cb_sem' = cb_sem /\ dev'.reports = dev.reports
      BY <3>12 DEF Discovered, Device
    <3>13. CASE ReadData
      BY <3>13 DEF ReadData, Attached
    <3>14. CASE UNCHANGED vars
      BY <3>14 DEF vars, Attached
    <3> QED BY <1>6, <3>1, <3>2, <3>3, <3>4, <3>5, <3>6, <3>7, <3>8, <3>9, <3>10, <3>11, <3>12,
       <3>13, <3>14 DEF Next, HostNext
  <2>2. CASE pc' \in Attached
    BY <2>1, <2>2, SubKept DEF SubInv, Attached, Tried
  <2>3. CASE pc' \notin Attached
    BY <2>3 DEF SubInv, Attached
  <2> QED BY <2>2, <2>3
<1> QED BY <1>2, <1>3, <1>4, <1>5, <1>6

\* A step keeps everything the first open has learned.
LEMMA OpenStep ==
    ASSUME FitInv, OpenInv, opens \in Nat, [Next]_vars
    PROVE  OpenInv'
<1> SUFFICES ASSUME opens' <= 1 PROVE OpenParts'
  BY DEF OpenInv
<1>1. CASE Reboot \/ \E p \in Peers : Open(p)
  <2>1. CountType
    <3>1. CASE opens <= 1
      BY <3>1 DEF FitInv, Shape
    <3>2. CASE opens > 1
      BY <3>2 DEF CountType
    <3> QED BY <3>1, <3>2
  <2> QED BY <1>1, <2>1, OpenStarts
<1>2. CASE ~Reboot /\ ~\E p \in Peers : Open(p)
  <2>1. opens' = opens
    BY <1>2 DEF Next, HostNext, vars, Found, NextService, LastService, NextChar,
                  LastChar, LeaveService, ReadReturn, StoreRead, Describe, NextDescr,
                  RefReturn, LastDescr, LeaveChar, Reconnect, AttachNext, ValueReturn,
                  CccReturn, Discovered, ReadData, ProcDone, ProcError
  <2>2. FitParts /\ OpenParts
    BY <2>1 DEF FitInv, FitParts, OpenInv
  <2>3. ValuesInv'
    <3>1. PnpUnread => PnpUnread'
      BY <1>2, <2>2, UnreadStep, DeviceStep DEF PnpUnread
    <3> QED BY <1>2, <2>2, <3>1, HeapStep DEF OpenParts, ValuesInv
  <2> QED BY <1>2, <2>2, <2>3, ListStep, ReportStep, UnreadKept, ModeStep, BatteryStep,
             SubStep DEF OpenParts
<1> QED BY <1>1, <1>2


-----------------------------------------------------------------------------
(* The properties of the first open follow from its invariant.             *)

\* What LastOf chooses: the last position.
LEMMA LastIs ==
    ASSUME NEW S, NEW s \in Seq(S), NEW x, NEW v, IsLast(s, x, Len(s), v)
    PROVE  LastOf(s, x) = v
<1>1. CASE v = 0
  BY <1>1 DEF IsLast, LastOf
<1>2. CASE v # 0
  <2>1. v \in DOMAIN s /\ s[v] = x /\ \A j \in DOMAIN s : s[j] = x => j <= v
    BY <1>2 DEF IsLast
  <2>2. \A i \in DOMAIN s :
           (s[i] = x /\ \A j \in DOMAIN s : s[j] = x => j <= i) <=> i = v
    BY <2>1
  <2> QED BY <2>1, <2>2 DEF LastOf
<1> QED BY <1>1, <1>2

\* Nothing is freed twice, nothing freed is kept, nothing is kept twice.
LEMMA HeapOwned ==
    ASSUME FitParts, HeapInv
    PROVE  ValuesOwned
<1> SUFFICES ASSUME NEW b \in DOMAIN heap
             PROVE  LET owners == Cardinality({n \in Strings : dev.strings[n] = b})
                                  + Cardinality({i \in DOMAIN dev.maps : dev.maps[i] = b})
                    IN /\ heap[b] # "twice"
                       /\ owners <= 1
                       /\ owners = 1 => heap[b] = "live"
  BY DEF ValuesOwned
<1> DEFINE S == {n \in Strings : dev.strings[n] = b}
           M == {i \in DOMAIN dev.maps : dev.maps[i] = b}
<1>1. b # 0 /\ heap[b] # "twice"
  BY DEF HeapInv, FitParts, Shape, DataType
<1>2. S = {} \/ \E n \in Strings : S = {n} /\ heap[b] = "live"
  BY <1>1 DEF HeapInv
<1>3. M = {} \/ \E i \in DOMAIN dev.maps : M = {i} /\ heap[b] = "live"
  BY <1>1 DEF HeapInv
<1>4. S = {} \/ M = {}
  BY <1>1 DEF HeapInv
<1> HIDE DEF S, M
<1>5. \/ Cardinality(S) = 0 /\ S = {}
      \/ Cardinality(S) = 1 /\ heap[b] = "live"
  BY <1>2, FS_EmptySet, FS_Singleton
<1>6. \/ Cardinality(M) = 0 /\ M = {}
      \/ Cardinality(M) = 1 /\ heap[b] = "live"
  BY <1>3, FS_EmptySet, FS_Singleton
<1>7. /\ Cardinality(S) + Cardinality(M) <= 1
      /\ Cardinality(S) + Cardinality(M) = 1 => heap[b] = "live"
  <2>1. Cardinality({}) = 0
    BY FS_EmptySet
  <2> QED BY <1>4, <1>5, <1>6, <2>1
<1> QED BY <1>1, <1>7 DEF S, M

\* Behind the loops every characteristic is done.
LEMMA AllDone ==
    ASSUME FitParts, pc \in Attached
    PROVE  /\ peer \in Seq(Service)
           /\ \A i, j \in Nat : IsHidChar(peer, i, j) => Done(i, j)
           /\ \A i \in DOMAIN peer : /\ peer[i].chars \in Seq(Char)
                                     /\ \A j \in DOMAIN peer[i].chars :
                                           /\ i \in Nat \ {0} /\ j \in Nat
                                           /\ peer[i].chars[j] \in Char
                                           /\ peer[i].chars[j].descrs
                                                 \in Seq({"CCC", "RPT_REF", "other"})
<1>1. peer \in Seq(Service)
  BY PeerFits DEF FitParts, Shape, ControlType
<1>2. at["svcs"] = Len(peer)
  BY DEF FitParts, LoopInv
<1>3. \A i, j \in Nat : IsHidChar(peer, i, j) => Done(i, j)
  BY <1>1, <1>2 DEF IsHidChar, Done
<1>4. ASSUME NEW i \in DOMAIN peer
      PROVE  /\ peer[i].chars \in Seq(Char) /\ i \in Nat \ {0}
             /\ \A j \in DOMAIN peer[i].chars :
                   j \in Nat /\ peer[i].chars[j] \in Char
                   /\ peer[i].chars[j].descrs \in Seq({"CCC", "RPT_REF", "other"})
  <2>1. peer[i] \in Service /\ i \in Nat \ {0}
    BY <1>1
  <2>2. peer[i].chars \in Seq(Char)
    BY <2>1 DEF Service
  <2>3. ASSUME NEW j \in DOMAIN peer[i].chars
        PROVE  /\ j \in Nat /\ peer[i].chars[j] \in Char
               /\ peer[i].chars[j].descrs \in Seq({"CCC", "RPT_REF", "other"})
    <3>1. j \in Nat /\ peer[i].chars[j] \in Char
      BY <2>2
    <3> QED BY <3>1 DEF Char
  <2> QED BY <2>1, <2>2, <2>3
<1> QED BY <1>1, <1>3, <1>4

\* The report K has described is the one that the attributes define.
LEMMA ReportIs ==
    ASSUME FitParts, pc \in Attached, NEW i \in Nat, NEW j \in Nat,
           IsReportOf(peer, i, j), NEW r \in Report,
           IsReportIn(peer, unread, i, j, r)
    PROVE  r = PeerReport(i, j)
<1> DEFINE ch == peer[i].chars[j]
<1>1. ch.descrs \in Seq({"CCC", "RPT_REF", "other"})
  BY AllDone DEF IsReportOf, IsHidChar
<1>2. /\ r.handle = <<i, j>> /\ r.proto = (IF ch.uuid = "RPT" THEN "REPORT" ELSE "BOOT")
      /\ r.type = (IF \E d \in DOMAIN ch.descrs : ch.descrs[d] = "RPT_REF"
                                                  /\ <<i, j, d>> \notin unread
                   THEN ch.type ELSE BootType(ch.uuid))
      /\ r.notify = ch.notify /\ r.map = HidIn(peer, i)
      /\ IF ch.notify THEN IsLast(ch.descrs, "CCC", Len(ch.descrs), r.ccc) ELSE r.ccc = 0
  BY DEF IsReportIn
<1>3. \A d : IsRefRead(i, j, d) <=> /\ d \in DOMAIN ch.descrs /\ ch.descrs[d] = "RPT_REF"
                                     /\ <<i, j, d>> \notin unread
  BY DEF IsRefRead
<1>4. r.ccc = IF ch.notify THEN LastOf(ch.descrs, "CCC") ELSE 0
  <2> HIDE DEF ch
  <2> QED BY <1>1, <1>2, LastIs
<1>5. HidIn(peer, i) = HidBefore(i)
  BY DEF HidIn, HidBefore
<1>6. r = [handle |-> r.handle, proto |-> r.proto, type |-> r.type,
           notify |-> r.notify, map |-> r.map, ccc |-> r.ccc]
  BY DEF Report
<1> HIDE DEF ch
<1>7. r = [handle |-> <<i, j>>, proto |-> IF ch.uuid = "RPT" THEN "REPORT" ELSE "BOOT",
           type |-> IF \E d \in DOMAIN ch.descrs : IsRefRead(i, j, d) THEN ch.type
                    ELSE BootType(ch.uuid),
           notify |-> ch.notify, map |-> HidBefore(i),
           ccc |-> IF ch.notify THEN LastOf(ch.descrs, "CCC") ELSE 0]
  BY <1>2, <1>3, <1>4, <1>5, <1>6
<1> QED BY <1>7 DEF PeerReport, ch

\* The list is that of the keyboard.
LEMMA ListExact ==
    ASSUME FitParts, ListInv
    PROVE  ReportsExact
<1> SUFFICES ASSUME pc \in Attached
             PROVE  /\ {dev.reports[a] : a \in DOMAIN dev.reports} = PeerReports
                    /\ Len(dev.reports) = Cardinality(PeerReports)
  BY DEF ReportsExact, Attached
<1> DEFINE rs == dev.reports
<1>1. rs \in Seq(Report)
  BY DeviceIs DEF FitParts, Shape, DataType
<1>2. PeerReports = {PeerReport(q[1], q[2]) : q \in {q \in Nat \X Nat :
                                                       IsReportOf(peer, q[1], q[2])}}
  <2>1. ASSUME NEW r, r \in PeerReports
        PROVE  \E q \in Nat \X Nat : IsReportOf(peer, q[1], q[2])
                                     /\ r = PeerReport(q[1], q[2])
    <3>1. PICK i \in DOMAIN peer : \E j \in DOMAIN peer[i].chars :
             /\ peer[i].uuid = "HID" /\ peer[i].chars[j].uuid \in ReportKinds
             /\ r = PeerReport(i, j)
      BY <2>1 DEF PeerReports
    <3> PICK j \in DOMAIN peer[i].chars :
             /\ peer[i].uuid = "HID" /\ peer[i].chars[j].uuid \in ReportKinds
             /\ r = PeerReport(i, j)
      BY <3>1
    <3>2. <<i, j>> \in Nat \X Nat /\ IsReportOf(peer, i, j)
      BY <3>1, AllDone DEF IsReportOf, IsHidChar
    <3> QED BY <3>1, <3>2
  <2>2. ASSUME NEW q \in Nat \X Nat, IsReportOf(peer, q[1], q[2])
        PROVE  PeerReport(q[1], q[2]) \in PeerReports
    BY <2>2 DEF PeerReports, IsReportOf, IsHidChar
  <2> QED BY <2>1, <2>2
<1>3. \A a \in DOMAIN rs : \E i, j \in Nat :
         IsReportOf(peer, i, j) /\ rs[a] = PeerReport(i, j) /\ rs[a].handle = <<i, j>>
  <2> SUFFICES ASSUME NEW a \in DOMAIN rs
               PROVE  \E i, j \in Nat : IsReportOf(peer, i, j)
                         /\ rs[a] = PeerReport(i, j) /\ rs[a].handle = <<i, j>>
    OBVIOUS
  <2>1. PICK i, j \in Nat : IsReportOf(peer, i, j)
                            /\ IsReportIn(peer, unread, i, j, rs[a])
    BY DEF ListInv, Attached
  <2>2. rs[a] \in Report
    BY <1>1
  <2> QED BY <2>1, <2>2, ReportIs DEF IsReportIn
<1>4. \A i, j \in Nat : IsReportOf(peer, i, j) =>
         \E a \in DOMAIN rs : rs[a] = PeerReport(i, j)
  <2> SUFFICES ASSUME NEW i \in Nat, NEW j \in Nat, IsReportOf(peer, i, j)
               PROVE  \E a \in DOMAIN rs : rs[a] = PeerReport(i, j)
    OBVIOUS
  <2>1. PICK a \in DOMAIN rs : rs[a].handle = <<i, j>>
    BY AllDone DEF ListInv, Attached, IsReportOf
  <2>2. PICK k, l \in Nat : rs[a] = PeerReport(k, l) /\ rs[a].handle = <<k, l>>
    BY <1>3
  <2> QED BY <2>1, <2>2
<1>5. {rs[a] : a \in DOMAIN rs} = PeerReports
  <2>1. ASSUME NEW a \in DOMAIN rs PROVE rs[a] \in PeerReports
    <3>1. PICK i, j \in Nat : IsReportOf(peer, i, j) /\ rs[a] = PeerReport(i, j)
      BY <1>3
    <3>2. <<i, j>> \in Nat \X Nat /\ <<i, j>>[1] = i /\ <<i, j>>[2] = j
      OBVIOUS
    <3> QED BY <1>2, <3>1, <3>2
  <2>2. ASSUME NEW r \in PeerReports PROVE \E a \in DOMAIN rs : rs[a] = r
    <3>1. PICK q \in Nat \X Nat : IsReportOf(peer, q[1], q[2]) /\ r = PeerReport(q[1], q[2])
      BY <1>2
    <3> QED BY <1>4, <3>1
  <2> QED BY <2>1, <2>2
<1>6. Len(rs) = Cardinality(PeerReports)
  <2>1. \A a, b \in DOMAIN rs : rs[a] = rs[b] => a = b
    BY DEF ListInv, Attached
  <2> HIDE DEF rs
  <2>2. DOMAIN rs = 1 .. Len(rs) /\ Len(rs) \in Nat
    BY <1>1
  <2> DEFINE f == [a \in 1 .. Len(rs) |-> rs[a]]
  <2>3. f \in Bijection(1 .. Len(rs), PeerReports)
    <3>1. f \in [1 .. Len(rs) -> PeerReports]
      BY <1>5, <2>2
    <3>2. \A a, b \in 1 .. Len(rs) : f[a] = f[b] => a = b
      BY <2>1, <2>2
    <3>3. \A r \in PeerReports : \E a \in 1 .. Len(rs) : f[a] = r
      BY <1>5, <2>2
    <3> HIDE DEF f
    <3> QED BY <3>1, <3>2, <3>3 DEF Bijection, Injection, Surjection, IsInjective
  <2> QED BY <2>2, <2>3, FS_CountingElements DEF ExistsBijection
<1> QED BY <1>5, <1>6

\* A key of a report that is subscribed to arrives.
LEMMA KeysArrive ==
    ASSUME FitParts, OpenParts
    PROVE  EveryKeyArrives
<1> SUFFICES ASSUME pc = "idle", NEW i \in DOMAIN peer, NEW j \in DOMAIN peer[i].chars,
                    peer[i].uuid = "HID", peer[i].chars[j].uuid = "RPT",
                    peer[i].chars[j].notify, peer[i].chars[j].type = "INPUT",
                    LastOf(peer[i].chars[j].descrs, "CCC") # 0,
                    NEW m \in DOMAIN peer[i].chars,
                    peer[i].chars[m].uuid = "PROTOCOL_MODE", peer[i].chars[m].read,
                    <<i, m, 0>> \notin unread
             PROVE  <<i, j>> \in subscribed \cup refused /\ NotifyRx(<<i, j>>) = {"INPUT"}
  BY DEF EveryKeyArrives, IsKeyReport
<1> DEFINE rs == dev.reports
<1>1. /\ i \in Nat \ {0} /\ j \in Nat /\ m \in Nat /\ IsReportOf(peer, i, j)
      /\ IsModeOf(peer, i, m) /\ Done(i, j) /\ Done(i, m)
  BY AllDone DEF Attached, IsReportOf, IsHidChar, IsModeOf, ReportKinds
<1>2. PICK a \in DOMAIN rs : rs[a].handle = <<i, j>>
  BY <1>1 DEF OpenParts, ListInv
<1>3. rs \in Seq(Report) /\ rs[a] \in Report
  BY <1>2, DeviceIs DEF FitParts, Shape, DataType
<1>4. rs[a] = PeerReport(i, j)
  <2>1. PICK k, l \in Nat : IsReportOf(peer, k, l)
                            /\ IsReportIn(peer, unread, k, l, rs[a])
    BY <1>2 DEF OpenParts, ListInv
  <2>2. k = i /\ l = j
    BY <1>2, <2>1 DEF IsReportIn
  <2> QED BY <1>1, <1>3, <2>1, <2>2, ReportIs DEF Attached
<1>5. /\ Listens(rs[a]) /\ rs[a].ccc # 0 /\ rs[a].proto = "REPORT"
      /\ rs[a].type # "FEATURE" /\ rs[a].map = HidIn(peer, i)
  BY <1>4 DEF PeerReport, Listens, BootType, HidBefore, HidIn
<1>6. <<i, j>> \in subscribed \cup refused
  <2>1. todo = <<>>
    BY DEF FitParts, WaitInv
  <2>2. ~IsAwaited(rs[a])
    BY <2>1 DEF IsAwaited
  <2> QED BY <1>2, <1>5, <2>2 DEF OpenParts, SubInv, Attached, Tried
<1>7. dev.battery # <<i, j>>
  <2>1. <<i, j>> # NoHandle
    BY <1>1 DEF NoHandle
  <2> QED BY <2>1 DEF OpenParts, BatteryInv
<1>8. dev.modes[rs[a].map + 1] = "REPORT"
  BY <1>1, <1>5 DEF OpenParts, ModeInv
<1>9. a = CHOOSE c \in DOMAIN rs : /\ rs[c].handle = <<i, j>>
                                   /\ \A b \in 1 .. c - 1 : rs[b].handle # <<i, j>>
  <2>1. \A b \in DOMAIN rs : rs[b].handle = <<i, j>> => b = a
    BY <1>2 DEF OpenParts, ListInv
  <2> HIDE DEF rs
  <2>2. \A b \in 1 .. a - 1 : b \in DOMAIN rs /\ b # a
    BY <1>2, <1>3
  <2> QED BY <1>2, <2>1, <2>2
<1>10. NotifyRx(<<i, j>>) = {"INPUT"}
  <2>1. ~\A c \in DOMAIN dev.reports : dev.reports[c].handle # <<i, j>>
    BY <1>2
  <2> DEFINE mode == dev.modes[rs[a].map + 1]
             event == IF rs[a].type = "FEATURE" THEN "FEATURE" ELSE "INPUT"
  <2>2. NotifyRx(<<i, j>>) = CASE mode = "undefined" -> {"none", event}
                               [] mode = rs[a].proto -> {event}
                               [] OTHER -> {"none"}
    BY <1>7, <1>9, <2>1 DEF NotifyRx
  <2>3. mode = "REPORT" /\ event = "INPUT"
    BY <1>5, <1>8
  <2> HIDE DEF mode, event
  <2> QED BY <1>5, <2>2, <2>3
<1> QED BY <1>6, <1>10

\* A boot has learned nothing.
LEMMA OpenInit == Init => OpenParts
<1> SUFFICES ASSUME Init PROVE OpenParts
  OBVIOUS
<1> USE DEF Init, NewDev
<1>1. ValuesInv /\ UnreadInv
  BY DEF ValuesInv, HeapInv, Fetched, UnreadInv
<1>2. ListInv /\ ModeInv
  BY DEF ListInv, ModeInv, IsReportOf, IsModeOf, IsHidChar
<1>3. ReportInv /\ BatteryInv /\ SubInv
  BY DEF ReportInv, Describing, BatteryInv, SubInv
<1> QED BY <1>1, <1>2, <1>3 DEF OpenParts

\* What holds in every state.
LEMMA OpenHolds == Spec => [](FitInv /\ OpenInv /\ opens \in Nat)
<1>1. Init => FitInv /\ OpenInv /\ opens \in Nat
  BY InitFits, OpenInit DEF FitInv, OpenInv, FitParts, Shape, CountType
<1>2. (FitInv /\ OpenInv /\ opens \in Nat) /\ [Next]_vars
      => (FitInv /\ OpenInv /\ opens \in Nat)'
  BY FitStep, OpenStep
<1> QED BY <1>1, <1>2, PTL DEF Spec

\* Whatever is answered with an error or cannot be started, the first open
\* keeps its read values apart: of the blocks that read_char and read_descr hand
\* out none is freed twice by the branches that share rdata, none is kept by the
\* device after it was freed, and none is kept by two of its pointers, each of
\* which esp_hidh_dev_resources_free frees.  BuffersOwned has one exception, the
\* PnP branch whose own read could not be started, which frees what the read
\* before has left in rdata.
THEOREM buffers_owned == Spec => [](opens <= 1 => BuffersOwned)
<1>1. FitInv /\ OpenInv => (opens <= 1 => BuffersOwned)
  BY HeapOwned DEF FitInv, OpenInv, FitParts, OpenParts, ValuesInv, BuffersOwned
<1> QED BY <1>1, OpenHolds, PTL

\* The list of reports that the first open leaves to every later use of the
\* device is the keyboard's: each report of each HID service once, with its own
\* report reference (the first type, if the reference could not be read), CCC
\* and number of its service, for any number of services, characteristics and
\* descriptors in any order and whatever procedures fail.
THEOREM reports_exact == Spec => [](opens <= 1 => ReportsExact)
<1>1. FitInv /\ OpenInv => (opens <= 1 => ReportsExact)
  BY ListExact DEF FitInv, OpenInv, FitParts, OpenParts
<1> QED BY <1>1, OpenHolds, PTL

\* Each time esp_ble_hidh_dev_open returns on a keyboard whose attributes the
\* first open has read, on the same link or on any later one,
\* attach_report_listeners has passed over no input report of a service whose
\* protocol mode was read: the keyboard has taken the write of its CCC or has
\* refused it, and a notification of it passes BLE_GAP_EVENT_NOTIFY_RX as an
\* INPUT event.
THEOREM every_key_arrives == Spec => [](opens <= 1 => EveryKeyArrives)
<1>1. FitInv /\ OpenInv => (opens <= 1 => EveryKeyArrives)
  BY KeysArrive DEF FitInv, OpenInv, FitParts
<1> QED BY <1>1, OpenHolds, PTL
=============================================================================
