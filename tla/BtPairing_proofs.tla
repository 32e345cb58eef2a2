-------------------------- MODULE BtPairing_proofs --------------------------
(***************************************************************************)
(* Proofs about BtHidh: which descriptor goes to which device, and which   *)
(* answer to which request.                                                *)
(*                                                                         *)
(* esp_hh_cb keeps the devices that wait for a descriptor in a queue, and  *)
(* takes the first of them when a descriptor comes, whose address it does  *)
(* not know. That it is the right one depends on the order of all that is  *)
(* under way: the devices queued, the events that will queue one, and the  *)
(* descriptors behind them. PairInv gives each of the former a descriptor, *)
(* in order; OwnInv and OpenInv say what follows for the device, and for   *)
(* the event that tells the application of it.                             *)
(*                                                                         *)
(* An answer names no report either: its data is cut by the id that the    *)
(* device remembers. LinkInv says whose link is whose; WaitInv, that of a  *)
(* GET_REPORT one is under way at a time; RememberInv and AnsweringInv,    *)
(* that it is the one remembered by the device that will hear the answer.  *)
(***************************************************************************)
EXTENDS BtHidh_proofs

\* The devices queued for a descriptor, with the one whose link is being taken.
Cq == IF btc.pc = "open" THEN Append(cq, btc.dev) ELSE cq
\* The events that will queue a device.
Opens == {j \in DOMAIN btq : btq[j].k = "open" /\ btq[j].ok}
\* The descriptors on their way: of the backlog, and behind it those that the stack has
\* not asked for.
Described == {p \in 1 .. Len(btq) + Len(undescribed) : p <= Len(btq) => btq[p].k = "dscp"}
Of(p) == IF p <= Len(btq) THEN btq[p].bda ELSE undescribed[p - Len(btq)]

\* Each queued device, and each event that will queue one, has a descriptor, in order.
\* That of an event is of its address, and behind it.
Match(f, g) ==
    /\ f \in [DOMAIN Cq -> Described] /\ g \in [Opens -> Described]
    /\ \A i, k \in DOMAIN Cq : i < k => f[i] < f[k]
    /\ \A j, k \in Opens : j < k => g[j] < g[k]
    /\ \A i \in DOMAIN Cq, j \in Opens : f[i] < g[j]
    /\ \A j \in Opens : j < g[j] /\ Of(g[j]) = btq[j].bda
    /\ btc.pc = "open" => Of(f[Len(Cq)]) = btc.ev.bda
\* No descriptor is without a device, unless one was skipped.
Whole(f, g) ==
    "skipped" \notin odd =>
        \A p \in Described : (\E i \in DOMAIN Cq : f[i] = p) \/ (\E j \in Opens : g[j] = p)
\* An ADD_DEV_EVT comes when its device is described.
AddLast(f, g) ==
    \A k \in DOMAIN btq : btq[k].k = "add" =>
        /\ \A i \in DOMAIN Cq : Of(f[i]) = btq[k].bda => f[i] < k
        /\ \A j \in Opens : btq[j].bda = btq[k].bda /\ j < k => g[j] < k
\* A device without a descriptor has one coming.
Needs(s) == Listed(s) /\ dev[s].handle # "none" /\ dev[s].reports = "none"
Awaited(f) ==
    \A s \in Slots : Needs(s) =>
        \/ \E i \in DOMAIN Cq : Cq[i] = s /\ Of(f[i]) = dev[s].handle
        \/ btc.dev = s /\ btc.pc \in {"exists", "describe", "fail"}
\* The descriptor is of the address of the device.
Owned(f) ==
    \A i \in DOMAIN Cq :
        \/ dev[Cq[i]].live /\ dev[Cq[i]].bda = Of(f[i])
        \/ btc.pc = "open" /\ i = Len(Cq) /\ "btc" \in dangling

PairInv == \E f \in [DOMAIN Cq -> Described], g \in [Opens -> Described] :
    /\ Match(f, g) /\ Whole(f, g) /\ AddLast(f, g)
    /\ Clean => Awaited(f)
    /\ odd \cap {"skipped", "queued"} = {} => Owned(f)

OwnInv ==
    odd \cap {"skipped", "queued"} = {} =>
        /\ \A s \in Slots : dev[s].reports \in {"none", dev[s].bda}
        /\ btc.pc \in {"exists", "describe"} =>
              dev[btc.dev].bda = btc.ev.bda \/ ~dev[btc.dev].connected
        /\ btc.pc # "dequeue"

Shown(s) == Listed(s) /\ dev[s].reports # "none"
OpenInv ==
    Clean =>
        /\ \A s \in Slots : Listed(s) /\ dev[s].added =>
              dev[s].reports # "none" \/ (btc.pc = "fail" /\ btc.dev = s)
        /\ btc.pc = "add" => dev[btc.dev].reports # "none"
        /\ btc.pc = "post" /\ btc.out.e = "open" /\ btc.out.ok =>
              Shown(btc.out.dev) /\ dev[btc.out.dev].in_use
        /\ \A i \in DOMAIN queue : queue[i].e = "open" /\ queue[i].ok =>
              /\ Shown(queue[i].dev)
              /\ ~(evt.pc = "free" /\ evt.dev = queue[i].dev)
              /\ \A j \in 1 .. i - 1 : ~(queue[j].dev = queue[i].dev /\
                    (queue[j].e = "close" \/ (queue[j].e = "open" /\ ~queue[j].ok)))
-----------------------------------------------------------------------------
(* The descriptors on their way.                                           *)

PlaceType ==
    btq \in Seq(Event) /\ undescribed \in Seq(Bdas) /\ cq \in Seq(Slots) /\ Cq \in Seq(Slots)

\* What the places of the descriptors are.
LEMMA DescribedIs ==
    ASSUME PlaceType
    PROVE  /\ Len(btq) \in Nat /\ Len(undescribed) \in Nat
           /\ DOMAIN btq = 1 .. Len(btq) /\ DOMAIN undescribed = 1 .. Len(undescribed)
           /\ \A p \in Described : p \in Nat /\ p >= 1 /\ p <= Len(btq) + Len(undescribed)
BY DEF PlaceType, Described

\* An event is taken.
LEMMA DescribedTake ==
    ASSUME PlaceType, btq # <<>>, btq' = Tail(btq), UNCHANGED undescribed
    PROVE  /\ \A p \in Described : p # 1 => p - 1 \in Described' /\ Of(p - 1)' = Of(p)
           /\ \A p \in Described' : p \in Nat /\ p >= 1 /\ p + 1 \in Described /\ Of(p)' = Of(p + 1)
           /\ 1 \in Described <=> Head(btq).k = "dscp"
<1>1. /\ Len(btq) \in Nat /\ Len(btq) >= 1 /\ Len(btq') = Len(btq) - 1 /\ Head(btq) = btq[1]
      /\ \A i \in 1 .. Len(btq') : btq'[i] = btq[i + 1]
      /\ Len(undescribed) \in Nat
  BY DEF PlaceType
<1> QED BY <1>1 DEF Described, Of

\* An event is added behind the others: what is behind it moves by one.
Moved(p) == IF p <= Len(btq) THEN p ELSE p + 1

\* Nothing else of the descriptors changes by it, but for one that may be added at the end.
LEMMA DescribedAdd ==
    ASSUME PlaceType, NEW e \in Event, btq' = Append(btq, e), e.k # "dscp",
           undescribed' = undescribed \/ \E b \in Bdas : undescribed' = Append(undescribed, b)
    PROVE  /\ \A p \in Described : \A q : q = Moved(p) => q \in Described' /\ Of(q)' = Of(p)
           /\ \A p \in Described' :
                 \/ \E q \in Described : p = Moved(q)
                 \/ p = Len(btq') + Len(undescribed') /\ undescribed' # undescribed
<1>0. btq \in Seq(Event) /\ undescribed \in Seq(Bdas)
  BY DEF PlaceType
<1>1. /\ Len(btq) \in Nat /\ Len(btq') = Len(btq) + 1 /\ btq'[Len(btq) + 1] = e
      /\ \A i \in 1 .. Len(btq) : btq'[i] = btq[i]
      /\ Len(undescribed) \in Nat
  BY <1>0
<1>2. /\ Len(undescribed') = Len(undescribed)
            \/ (Len(undescribed') = Len(undescribed) + 1 /\ undescribed' # undescribed)
      /\ \A i \in 1 .. Len(undescribed) : undescribed'[i] = undescribed[i]
  BY <1>0
<1>3. ASSUME NEW p \in Described, NEW q, q = Moved(p)
      PROVE  q \in Described' /\ Of(q)' = Of(p)
  <2>1. CASE p <= Len(btq)
    <3>1. q = p
      BY <1>3, <2>1 DEF Moved
    <3>2. p \in Described' /\ Of(p)' = Of(p)
      BY <1>1, <1>2, <2>1 DEF Described, Of
    <3> QED BY <3>1, <3>2
  <2>2. CASE p > Len(btq)
    <3>1. q = p + 1
      BY <1>1, <1>3, <2>2 DEF Moved, Described
    <3>2. p + 1 \in Described' /\ Of(p + 1)' = Of(p)
      BY <1>1, <1>2, <2>2 DEF Described, Of
    <3> QED BY <3>1, <3>2
  <2> QED BY <1>1, <2>1, <2>2 DEF Described
<1>4. ASSUME NEW p \in Described', ~(p = Len(btq') + Len(undescribed') /\ undescribed' # undescribed)
      PROVE  \E q \in Described : p = Moved(q)
  <2>0. p \in Nat /\ p >= 1 /\ p # Len(btq) + 1
    BY <1>1, <1>2, <1>4 DEF Described
  <2>1. CASE p <= Len(btq)
    <3>1. p \in Described /\ p = Moved(p)
      BY <1>1, <1>2, <2>1 DEF Described, Moved
    <3> QED BY <3>1
  <2>2. CASE p > Len(btq) + 1
    <3>0. p - 1 \in Nat /\ p - 1 > Len(btq) /\ p <= Len(btq') + Len(undescribed')
      BY <1>1, <2>0, <2>2 DEF Described
    <3>1. p - 1 \in Described
      <4>1. p - 1 <= Len(btq) + Len(undescribed)
        <5>1. CASE Len(undescribed') = Len(undescribed)
          BY <1>1, <2>0, <3>0, <5>1
        <5>2. CASE Len(undescribed') = Len(undescribed) + 1 /\ undescribed' # undescribed
          <6>1. p # Len(btq') + Len(undescribed')
            BY <1>4, <5>2
          <6> QED BY <1>1, <2>0, <3>0, <5>2, <6>1
        <5> QED BY <1>2, <5>1, <5>2
      <4> QED BY <1>1, <3>0, <4>1 DEF Described
    <3>2. p = Moved(p - 1)
      BY <1>1, <2>0, <3>0 DEF Moved
    <3> QED BY <3>1, <3>2
  <2> QED BY <1>1, <2>0, <2>1, <2>2
<1> QED BY <1>3, <1>4

\* The stack has the next link described: its descriptor stays in its place.
LEMMA DescribedSame ==
    ASSUME PlaceType, NEW e \in Event, btq' = Append(btq, e), e.k = "dscp", undescribed # <<>>,
           e.bda = Head(undescribed), undescribed' = Tail(undescribed)
    PROVE  Described' = Described /\ \A p \in Described : Of(p)' = Of(p)
<1>0. btq \in Seq(Event) /\ undescribed \in Seq(Bdas)
  BY DEF PlaceType
<1>1. /\ Len(btq) \in Nat /\ Len(btq') = Len(btq) + 1 /\ btq'[Len(btq) + 1] = e
      /\ \A i \in 1 .. Len(btq) : btq'[i] = btq[i]
  BY <1>0
<1>2. /\ Len(undescribed) \in Nat /\ Len(undescribed) >= 1
      /\ Len(undescribed') = Len(undescribed) - 1 /\ e.bda = undescribed[1]
      /\ \A i \in 1 .. Len(undescribed') : undescribed'[i] = undescribed[i + 1]
  BY <1>0
<1> QED BY <1>1, <1>2 DEF Described, Of

\* An order of devices and descriptors, and what it means that a step keeps it: the i-th
\* queued device was the n-th behind it.
Links(f, g) == Match(f, g) /\ Whole(f, g) /\ AddLast(f, g)
Goes(f, n, h) ==
    \A i \in DOMAIN Cq' : i + n \in DOMAIN Cq => Cq'[i] = Cq[i + n] /\ Of(h[i])' = Of(f[i + n])

\* The places and the functions, once more.
LEMMA LinksAre ==
    ASSUME PlaceType, NEW f, NEW g, Match(f, g)
    PROVE  /\ \A i \in DOMAIN Cq : i \in Nat /\ i >= 1 /\ f[i] \in Described /\ f[i] \in Nat /\ f[i] >= 1
           /\ \A j \in Opens : /\ j \in DOMAIN btq /\ j \in Nat /\ j >= 1
                               /\ g[j] \in Described /\ g[j] \in Nat /\ g[j] > j
           /\ DOMAIN Cq = 1 .. Len(Cq) /\ Len(Cq) \in Nat /\ DOMAIN btq = 1 .. Len(btq)
           /\ Len(btq) \in Nat
<1>1. /\ DOMAIN Cq = 1 .. Len(Cq) /\ Len(Cq) \in Nat
      /\ DOMAIN btq = 1 .. Len(btq) /\ Len(btq) \in Nat
  BY DEF PlaceType
<1>2. f \in [DOMAIN Cq -> Described] /\ g \in [Opens -> Described] /\ \A j \in Opens : j < g[j]
  BY DEF Match
<1>3. \A p \in Described : p \in Nat /\ p >= 1
  BY DescribedIs
<1>4. \A j \in Opens : j \in DOMAIN btq
  BY DEF Opens
<1> QED BY <1>1, <1>2, <1>3, <1>4

\* An event is taken: where the others are then.
LEMMA TakenIs ==
    ASSUME PlaceType, btq # <<>>, btq' = Tail(btq)
    PROVE  /\ Len(btq) >= 1 /\ Len(btq') = Len(btq) - 1 /\ DOMAIN btq' = 1 .. Len(btq')
           /\ Head(btq) = btq[1]
           /\ \A i \in DOMAIN btq' : i \in Nat /\ i >= 1 /\ i + 1 \in DOMAIN btq /\ btq'[i] = btq[i + 1]
           /\ \A i \in DOMAIN btq : i # 1 => i - 1 \in DOMAIN btq' /\ btq'[i - 1] = btq[i]
           /\ \A j \in Opens' : j \in Nat /\ j >= 1 /\ j + 1 \in Opens /\ btq'[j] = btq[j + 1]
           /\ \A j \in Opens : j # 1 => j - 1 \in Opens' /\ btq'[j - 1] = btq[j]
<1>1. btq \in Seq(Event)
  BY DEF PlaceType
<1>2. /\ Len(btq) >= 1 /\ Len(btq') = Len(btq) - 1 /\ DOMAIN btq' = 1 .. Len(btq')
      /\ Head(btq) = btq[1]
      /\ \A i \in DOMAIN btq' : i \in Nat /\ i >= 1 /\ i + 1 \in DOMAIN btq /\ btq'[i] = btq[i + 1]
      /\ \A i \in DOMAIN btq : i # 1 => i - 1 \in DOMAIN btq' /\ btq'[i - 1] = btq[i]
  BY <1>1
<1> QED BY <1>2 DEF Opens

\* An event is taken that queues no device: the first leaves the queue (n = 1) for its
\* descriptor, or none does (n = 0).
Leaving(n) ==
    \/ n = 1 /\ Head(btq).k = "dscp" /\ Cq # <<>>
    \/ n = 0 /\ (Head(btq).k = "dscp" => Cq = <<>>)

\* The pairing goes on with the rest.
LEMMA LinksPass ==
    ASSUME PlaceType, PlaceType', NEW f, NEW g, Links(f, g),
           btq # <<>>, btq' = Tail(btq), UNCHANGED undescribed,
           odd \subseteq odd', btc.pc # "open", btc'.pc # "open", NEW n \in {0, 1},
           Len(Cq') = Len(Cq) - n, \A i \in DOMAIN Cq' : Cq'[i] = Cq[i + n],
           Leaving(n), 1 \in Opens => "skipped" \in odd'
    PROVE  \E h, k : Links(h, k)' /\ Goes(f, n, h)
<1> PICK h : h = [i \in DOMAIN Cq' |-> f[i + n] - 1]
  OBVIOUS
<1> PICK k : k = [j \in Opens' |-> g[j + 1] - 1]
  OBVIOUS
<1>0. Match(f, g) /\ Whole(f, g) /\ AddLast(f, g)
  BY DEF Links
<1> USE DEF Leaving
<1>1. /\ \A p \in Described : p # 1 => p - 1 \in Described' /\ Of(p - 1)' = Of(p)
      /\ \A p \in Described' : p \in Nat /\ p >= 1 /\ p + 1 \in Described /\ Of(p)' = Of(p + 1)
      /\ 1 \in Described <=> Head(btq).k = "dscp"
  BY DescribedTake
<1>2. /\ \A i \in DOMAIN btq' : i \in Nat /\ i >= 1 /\ i + 1 \in DOMAIN btq /\ btq'[i] = btq[i + 1]
      /\ \A j \in Opens' : j \in Nat /\ j >= 1 /\ j + 1 \in Opens /\ btq'[j] = btq[j + 1]
      /\ \A j \in Opens : j # 1 => j - 1 \in Opens' /\ btq'[j - 1] = btq[j]
  BY TakenIs
<1>3. /\ \A i \in DOMAIN Cq : i \in Nat /\ i >= 1 /\ f[i] \in Described /\ f[i] \in Nat /\ f[i] >= 1
      /\ \A j \in Opens : /\ j \in DOMAIN btq /\ j \in Nat /\ j >= 1
                          /\ g[j] \in Described /\ g[j] \in Nat /\ g[j] > j
  BY <1>0, LinksAre
<1>4. /\ \A i \in DOMAIN Cq' : i \in Nat /\ i >= 1 /\ i + n \in DOMAIN Cq /\ Cq'[i] = Cq[i + n]
      /\ \A i \in DOMAIN Cq : i > n => i - n \in DOMAIN Cq'
  BY DEF PlaceType
<1>5. ASSUME NEW i \in DOMAIN Cq'
      PROVE  f[i + n] # 1
  <2>1. CASE n = 0
    BY <1>1, <1>3, <1>4, <1>5, <2>1
  <2>2. CASE n = 1
    <3>1. 1 \in DOMAIN Cq /\ 1 < i + n
      BY <1>4, <2>2 DEF PlaceType
    <3> QED BY <1>0, <1>3, <1>4, <3>1 DEF Match
  <2> QED BY <2>1, <2>2
<1>6. /\ \A i \in DOMAIN Cq' : h[i] \in Described' /\ h[i] = f[i + n] - 1 /\ Of(h[i])' = Of(f[i + n])
      /\ \A j \in Opens' : /\ k[j] \in Described' /\ k[j] = g[j + 1] - 1
                           /\ Of(k[j])' = Of(g[j + 1])
  BY <1>1, <1>2, <1>3, <1>4, <1>5
<1>7. Match(h, k)'
  <2>1. h \in [DOMAIN Cq' -> Described'] /\ k \in [Opens' -> Described']
    BY <1>6
  <2>2. /\ \A i, m \in DOMAIN Cq' : i < m => h[i] < h[m]
        /\ \A i \in DOMAIN Cq', j \in Opens' : h[i] < k[j]
    <3>1. ASSUME NEW i \in DOMAIN Cq', NEW m \in DOMAIN Cq', i < m
          PROVE  h[i] < h[m]
      <4>1. i + n \in DOMAIN Cq /\ m + n \in DOMAIN Cq /\ i + n < m + n
        BY <1>4, <3>1
      <4>2. f[i + n] \in Nat /\ f[m + n] \in Nat /\ f[i + n] < f[m + n]
        BY <1>0, <1>3, <4>1 DEF Match
      <4>3. h[i] = f[i + n] - 1 /\ h[m] = f[m + n] - 1
        BY <1>6
      <4> QED BY <4>2, <4>3
    <3>2. ASSUME NEW i \in DOMAIN Cq', NEW j \in Opens'
          PROVE  h[i] < k[j]
      <4>1. i + n \in DOMAIN Cq /\ j + 1 \in Opens
        BY <1>2, <1>4
      <4>2. f[i + n] \in Nat /\ g[j + 1] \in Nat /\ f[i + n] < g[j + 1]
        BY <1>0, <1>3, <4>1 DEF Match
      <4>3. h[i] = f[i + n] - 1 /\ k[j] = g[j + 1] - 1
        BY <1>6
      <4> QED BY <4>2, <4>3
    <3> QED BY <3>1, <3>2
  <2>3. ASSUME NEW j \in Opens', NEW m \in Opens', j < m
        PROVE  k[j] < k[m]
    <3>1. j + 1 < m + 1 /\ g[j + 1] < g[m + 1]
      BY <1>0, <1>2, <2>3 DEF Match
    <3> QED BY <1>2, <1>3, <1>6, <3>1
  <2>4. ASSUME NEW j \in Opens'
        PROVE  j < k[j] /\ Of(k[j])' = btq'[j].bda
    <3>1. j \in Nat /\ g[j + 1] \in Nat /\ g[j + 1] > j + 1 /\ Of(g[j + 1]) = btq[j + 1].bda
      BY <1>0, <1>2, <1>3 DEF Match
    <3>2. k[j] = g[j + 1] - 1 /\ Of(k[j])' = Of(g[j + 1]) /\ btq'[j] = btq[j + 1]
      BY <1>2, <1>6
    <3>3. j < k[j]
      BY <3>1, <3>2
    <3> QED BY <3>1, <3>2, <3>3
  <2> QED BY <2>1, <2>2, <2>3, <2>4 DEF Match
<1>8. Whole(h, k)'
  <2> SUFFICES ASSUME "skipped" \notin odd', NEW p \in Described'
               PROVE  (\E i \in DOMAIN Cq' : h[i] = p) \/ (\E j \in Opens' : k[j] = p)
    BY DEF Whole
  <2>1. ASSUME NEW i \in DOMAIN Cq, f[i] = p + 1
        PROVE  \E m \in DOMAIN Cq' : h[m] = p
    <3>1. ASSUME n = 1, i = 1 PROVE FALSE
      <4>1. 1 \in Described /\ "skipped" \notin odd
        BY <1>1, <3>1
      <4>2. \E m \in DOMAIN Cq : f[m] = 1
        BY <1>0, <1>3, <4>1 DEF Whole
      <4>3. PICK m \in DOMAIN Cq : f[m] = 1 /\ 1 < m
        BY <1>1, <1>3, <2>1, <3>1, <4>2
      <4> QED BY <1>0, <1>3, <2>1, <3>1, <4>3 DEF Match
    <3>2. i - n \in DOMAIN Cq' /\ (i - n) + n = i
      BY <1>3, <1>4, <3>1
    <3> QED BY <1>1, <1>6, <2>1, <3>2
  <2>2. ASSUME NEW j \in Opens, g[j] = p + 1
        PROVE  \E i \in Opens' : k[i] = p
    <3>1. j - 1 \in Opens' /\ (j - 1) + 1 = j
      BY <1>2, <1>3
    <3> QED BY <1>1, <1>6, <2>2, <3>1
  <2> QED BY <1>0, <1>1, <2>1, <2>2 DEF Whole
<1>9. AddLast(h, k)'
  <2> SUFFICES ASSUME NEW m \in DOMAIN btq', btq'[m].k = "add"
               PROVE  /\ \A i \in DOMAIN Cq' : Of(h[i])' = btq'[m].bda => h[i] < m
                      /\ \A j \in Opens' : btq'[j].bda = btq'[m].bda /\ j < m => k[j] < m
    BY DEF AddLast
  <2>1. /\ \A i \in DOMAIN Cq : Of(f[i]) = btq[m + 1].bda => f[i] < m + 1
        /\ \A j \in Opens : btq[j].bda = btq[m + 1].bda /\ j < m + 1 => g[j] < m + 1
    BY <1>0, <1>2 DEF AddLast
  <2>2. \A i \in DOMAIN Cq' : Of(h[i])' = btq'[m].bda => h[i] < m
    BY <1>2, <1>3, <1>4, <1>6, <2>1
  <2>3. ASSUME NEW j \in Opens', btq'[j].bda = btq'[m].bda, j < m PROVE k[j] < m
    <3>1. j + 1 \in Opens /\ btq[j + 1].bda = btq[m + 1].bda /\ j + 1 < m + 1
      BY <1>2, <2>3
    <3> QED BY <1>2, <1>3, <1>6, <2>1, <3>1
  <2> QED BY <2>2, <2>3
<1>10. Goes(f, n, h)
  BY <1>4, <1>6 DEF Goes
<1> QED BY <1>7, <1>8, <1>9, <1>10 DEF Links

\* OPEN_EVT queues its device, with the descriptor that the event had.
LEMMA LinksOpen ==
    ASSUME PlaceType, PlaceType', NEW f, NEW g, Links(f, g),
           btq # <<>>, btq' = Tail(btq), UNCHANGED undescribed,
           odd \subseteq odd', btc.pc # "open", btc'.pc = "open", btc'.ev = Head(btq), 1 \in Opens,
           Len(Cq') = Len(Cq) + 1, \A i \in DOMAIN Cq : Cq'[i] = Cq[i]
    PROVE  \E h, k : Links(h, k)' /\ Goes(f, 0, h)
<1> PICK n : n = Len(Cq) + 1
  OBVIOUS
<1> PICK h : h = [i \in DOMAIN Cq' |-> IF i = n THEN g[1] - 1 ELSE f[i] - 1]
  OBVIOUS
<1> PICK k : k = [j \in Opens' |-> g[j + 1] - 1]
  OBVIOUS
<1>0. Match(f, g) /\ Whole(f, g) /\ AddLast(f, g)
  BY DEF Links
<1>1. /\ \A p \in Described : p # 1 => p - 1 \in Described' /\ Of(p - 1)' = Of(p)
      /\ \A p \in Described' : p \in Nat /\ p >= 1 /\ p + 1 \in Described /\ Of(p)' = Of(p + 1)
      /\ 1 \in Described <=> Head(btq).k = "dscp"
  BY DescribedTake
<1>2. /\ \A i \in DOMAIN btq' : i \in Nat /\ i >= 1 /\ i + 1 \in DOMAIN btq /\ btq'[i] = btq[i + 1]
      /\ \A j \in Opens' : j \in Nat /\ j >= 1 /\ j + 1 \in Opens /\ btq'[j] = btq[j + 1]
      /\ \A j \in Opens : j # 1 => j - 1 \in Opens' /\ btq'[j - 1] = btq[j]
      /\ Head(btq) = btq[1]
  BY TakenIs
<1>3. /\ \A i \in DOMAIN Cq : i \in Nat /\ i >= 1 /\ f[i] \in Described /\ f[i] \in Nat /\ f[i] >= 1
      /\ \A j \in Opens : /\ j \in DOMAIN btq /\ j \in Nat /\ j >= 1
                          /\ g[j] \in Described /\ g[j] \in Nat /\ g[j] > j
  BY <1>0, LinksAre
<1>4. /\ n \in Nat /\ n = Len(Cq') /\ n \in DOMAIN Cq' /\ n \notin DOMAIN Cq
      /\ \A i \in DOMAIN Cq' : i \in Nat /\ i >= 1 /\ (i # n => i \in DOMAIN Cq /\ i < n)
      /\ \A i \in DOMAIN Cq : i \in DOMAIN Cq' /\ Cq'[i] = Cq[i]
  BY DEF PlaceType
<1>5. 1 \notin Described /\ \A i \in DOMAIN Cq : f[i] # 1 /\ f[i] < g[1]
  BY <1>0, <1>1, <1>2, <1>3 DEF Match, Opens
<1>6. /\ \A i \in DOMAIN Cq' : h[i] \in Described' /\ h[i] \in Nat
      /\ \A i \in DOMAIN Cq : h[i] = f[i] - 1 /\ Of(h[i])' = Of(f[i])
      /\ h[n] = g[1] - 1 /\ Of(h[n])' = Of(g[1])
      /\ \A j \in Opens' : /\ k[j] \in Described' /\ k[j] = g[j + 1] - 1
                           /\ Of(k[j])' = Of(g[j + 1])
  <2>1. ASSUME NEW i \in DOMAIN Cq
        PROVE  h[i] \in Described' /\ h[i] \in Nat /\ h[i] = f[i] - 1 /\ Of(h[i])' = Of(f[i])
    <3>1. h[i] = f[i] - 1 /\ f[i] # 1 /\ f[i] \in Described
      BY <1>3, <1>4, <1>5
    <3>2. f[i] - 1 \in Described' /\ Of(f[i] - 1)' = Of(f[i])
      BY <1>1, <3>1
    <3> QED BY <1>1, <3>1, <3>2
  <2>2. h[n] \in Described' /\ h[n] \in Nat /\ h[n] = g[1] - 1 /\ Of(h[n])' = Of(g[1])
    <3>1. h[n] = g[1] - 1 /\ g[1] # 1 /\ g[1] \in Described
      BY <1>3, <1>4
    <3>2. g[1] - 1 \in Described' /\ Of(g[1] - 1)' = Of(g[1])
      BY <1>1, <3>1
    <3> QED BY <1>1, <3>1, <3>2
  <2>3. \A j \in Opens' : /\ k[j] \in Described' /\ k[j] = g[j + 1] - 1
                          /\ Of(k[j])' = Of(g[j + 1])
    BY <1>1, <1>2, <1>3
  <2> QED BY <1>4, <2>1, <2>2, <2>3
<1>7. Match(h, k)'
  <2>1. h \in [DOMAIN Cq' -> Described'] /\ k \in [Opens' -> Described']
    BY <1>6
  <2>2. ASSUME NEW i \in DOMAIN Cq', NEW m \in DOMAIN Cq', i < m
        PROVE  h[i] < h[m]
    <3>1. i \in DOMAIN Cq /\ (m = n \/ m \in DOMAIN Cq)
      BY <1>4, <2>2
    <3>2. CASE m = n
      <4>1. h[i] = f[i] - 1 /\ h[m] = g[1] - 1 /\ f[i] < g[1]
        BY <1>5, <1>6, <3>1, <3>2
      <4>2. f[i] \in Nat /\ g[1] \in Nat
        BY <1>3, <3>1
      <4> QED BY <4>1, <4>2
    <3>3. CASE m \in DOMAIN Cq
      <4>1. h[i] = f[i] - 1 /\ h[m] = f[m] - 1
        BY <1>6, <3>1, <3>3
      <4>2. f[i] \in Nat /\ f[m] \in Nat /\ f[i] < f[m]
        BY <1>0, <1>3, <2>2, <3>1, <3>3 DEF Match
      <4> QED BY <4>1, <4>2
    <3> QED BY <3>1, <3>2, <3>3
  <2>3. ASSUME NEW i \in DOMAIN Cq', NEW j \in Opens'
        PROVE  h[i] < k[j]
    <3>1. j + 1 \in Opens /\ 1 < j + 1
      BY <1>2
    <3>2. CASE i = n
      <4>1. g[1] < g[j + 1]
        BY <1>0, <3>1 DEF Match
      <4> QED BY <1>3, <1>6, <3>1, <3>2, <4>1
    <3>3. CASE i \in DOMAIN Cq
      <4>1. f[i] < g[j + 1]
        BY <1>0, <3>1, <3>3 DEF Match
      <4>2. h[i] = f[i] - 1 /\ k[j] = g[j + 1] - 1
        BY <1>6, <3>3
      <4>3. f[i] \in Nat /\ g[j + 1] \in Nat
        BY <1>3, <3>1, <3>3
      <4> QED BY <4>1, <4>2, <4>3
    <3> QED BY <1>4, <3>2, <3>3
  <2>4. ASSUME NEW j \in Opens', NEW m \in Opens', j < m
        PROVE  k[j] < k[m]
    <3>1. j + 1 < m + 1 /\ g[j + 1] < g[m + 1]
      BY <1>0, <1>2, <2>4 DEF Match
    <3> QED BY <1>2, <1>3, <1>6, <3>1
  <2>5. ASSUME NEW j \in Opens'
        PROVE  j < k[j] /\ Of(k[j])' = btq'[j].bda
    <3>1. j \in Nat /\ g[j + 1] \in Nat /\ g[j + 1] > j + 1 /\ Of(g[j + 1]) = btq[j + 1].bda
      BY <1>0, <1>2, <1>3 DEF Match
    <3>2. k[j] = g[j + 1] - 1 /\ Of(k[j])' = Of(g[j + 1]) /\ btq'[j] = btq[j + 1]
      BY <1>2, <1>6
    <3>3. j < k[j]
      BY <3>1, <3>2
    <3> QED BY <3>1, <3>2, <3>3
  <2>6. Of(h[n])' = btc'.ev.bda /\ n = Len(Cq')
    BY <1>0, <1>2, <1>4, <1>6 DEF Match
  <2> QED BY <2>1, <2>2, <2>3, <2>4, <2>5, <2>6 DEF Match
<1>8. Whole(h, k)'
  <2> SUFFICES ASSUME "skipped" \notin odd', NEW p \in Described'
               PROVE  (\E i \in DOMAIN Cq' : h[i] = p) \/ (\E j \in Opens' : k[j] = p)
    BY DEF Whole
  <2>1. CASE \E i \in DOMAIN Cq : f[i] = p + 1
    BY <1>1, <1>4, <1>6, <2>1
  <2>2. ASSUME NEW j \in Opens, g[j] = p + 1
        PROVE  (\E i \in DOMAIN Cq' : h[i] = p) \/ (\E i \in Opens' : k[i] = p)
    <3>1. CASE j = 1
      BY <1>1, <1>4, <1>6, <2>2, <3>1
    <3>2. CASE j # 1
      <4>1. j - 1 \in Opens' /\ (j - 1) + 1 = j
        BY <1>2, <1>3, <3>2
      <4> QED BY <1>1, <1>6, <2>2, <4>1
    <3> QED BY <3>1, <3>2
  <2> QED BY <1>0, <1>1, <2>1, <2>2 DEF Whole
<1>9. AddLast(h, k)'
  <2> SUFFICES ASSUME NEW m \in DOMAIN btq', btq'[m].k = "add"
               PROVE  /\ \A i \in DOMAIN Cq' : Of(h[i])' = btq'[m].bda => h[i] < m
                      /\ \A j \in Opens' : btq'[j].bda = btq'[m].bda /\ j < m => k[j] < m
    BY DEF AddLast
  <2>1. /\ \A i \in DOMAIN Cq : Of(f[i]) = btq[m + 1].bda => f[i] < m + 1
        /\ \A j \in Opens : btq[j].bda = btq[m + 1].bda /\ j < m + 1 => g[j] < m + 1
    BY <1>0, <1>2 DEF AddLast
  <2>2. ASSUME NEW i \in DOMAIN Cq', Of(h[i])' = btq'[m].bda PROVE h[i] < m
    <3>1. CASE i = n
      <4>0. Of(g[1]) = btq[m + 1].bda /\ Of(g[1]) = btq[1].bda
        BY <1>0, <1>2, <1>6, <2>2, <3>1 DEF Match
      <4>1. btq[1].bda = btq[m + 1].bda /\ 1 < m + 1
        BY <1>2, <4>0
      <4> QED BY <1>2, <1>3, <1>6, <2>1, <3>1, <4>1
    <3>2. CASE i \in DOMAIN Cq
      <4>1. h[i] = f[i] - 1 /\ Of(f[i]) = btq[m + 1].bda
        BY <1>2, <1>6, <2>2, <3>2
      <4>2. f[i] \in Nat /\ m \in Nat /\ f[i] < m + 1
        BY <1>2, <1>3, <2>1, <3>2, <4>1
      <4> QED BY <4>1, <4>2
    <3> QED BY <1>4, <3>1, <3>2
  <2>3. ASSUME NEW j \in Opens', btq'[j].bda = btq'[m].bda, j < m PROVE k[j] < m
    <3>1. j + 1 \in Opens /\ btq[j + 1].bda = btq[m + 1].bda /\ j + 1 < m + 1
      BY <1>2, <2>3
    <3> QED BY <1>2, <1>3, <1>6, <2>1, <3>1
  <2> QED BY <2>2, <2>3
<1>10. Goes(f, 0, h)
  <2>1. \A i \in DOMAIN Cq : Cq'[i] = Cq[i] /\ Of(h[i])' = Of(f[i])
    BY <1>4, <1>6
  <2>2. \A i \in DOMAIN Cq' : i + 0 = i
    BY <1>4
  <2> QED BY <2>1, <2>2 DEF Goes
<1>11. Links(h, k)'
  BY <1>7, <1>8, <1>9 DEF Links
<1> QED BY <1>10, <1>11

\* The backlog stays, and the queue, but that the device that was to be queued last may be
\* skipped (n = 1).
LEMMA LinksStay ==
    ASSUME PlaceType, PlaceType', NEW f, NEW g, Links(f, g), UNCHANGED <<btq, undescribed>>,
           odd \subseteq odd', NEW n \in {0, 1}, Len(Cq') = Len(Cq) - n, n = 1 => "skipped" \in odd',
           \A i \in DOMAIN Cq' : Cq'[i] = Cq[i],
           btc'.pc = "open" => n = 0 /\ btc' = btc
    PROVE  \E h, k : Links(h, k)' /\ Goes(f, 0, h)
<1> PICK h : h = [i \in DOMAIN Cq' |-> f[i]]
  OBVIOUS
<1>0. Match(f, g) /\ Whole(f, g) /\ AddLast(f, g)
  BY DEF Links
<1>1. /\ Described' = Described /\ Opens' = Opens /\ \A p : Of(p)' = Of(p)
  BY DEF Described, Opens, Of
<1>2. \A i \in DOMAIN Cq' : i \in Nat /\ i \in DOMAIN Cq /\ h[i] = f[i] /\ i + 0 = i
  BY DEF PlaceType
<1>3. n = 0 => DOMAIN Cq' = DOMAIN Cq /\ Len(Cq') = Len(Cq) /\ Len(Cq') \in Nat
  BY DEF PlaceType
<1>4. Match(h, g)'
  <2>1. /\ h \in [DOMAIN Cq' -> Described'] /\ g \in [Opens' -> Described']
        /\ \A i, k \in DOMAIN Cq' : i < k => h[i] < h[k]
        /\ \A j, k \in Opens' : j < k => g[j] < g[k]
        /\ \A i \in DOMAIN Cq', j \in Opens' : h[i] < g[j]
    BY <1>0, <1>1, <1>2 DEF Match
  <2>2. \A j \in Opens' : j < g[j] /\ Of(g[j])' = btq'[j].bda
    BY <1>0, <1>1 DEF Match
  <2>3. ASSUME btc'.pc = "open" PROVE Of(h[Len(Cq)])' = btc'.ev.bda
    <3>1. CASE Cq = <<>>
      BY <1>0, <1>1, <1>3, <2>3, <3>1 DEF Match, Cq, PlaceType
    <3>2. CASE Cq # <<>>
      <4>1. Len(Cq') \in DOMAIN Cq' /\ Len(Cq') = Len(Cq)
        BY <1>3, <2>3, <3>2 DEF PlaceType
      <4>2. PICK m : m = Len(Cq')
        OBVIOUS
      <4>3. h[m] = f[m] /\ Of(f[m]) = btc.ev.bda
        BY <1>0, <1>2, <2>3, <4>1, <4>2 DEF Match
      <4> QED BY <1>1, <2>3, <4>2, <4>3
    <3> QED BY <3>1, <3>2
  <2> QED BY <2>1, <2>2, <2>3 DEF Match
<1>5. Whole(h, g)'
  BY <1>0, <1>1, <1>2, <1>3 DEF Whole
<1>6. AddLast(h, g)'
  BY <1>0, <1>1, <1>2 DEF AddLast
<1>7. Goes(f, 0, h)
  BY <1>1, <1>2 DEF Goes
<1> QED BY <1>4, <1>5, <1>6, <1>7 DEF Links

\* The stack adds the event of a link that is to be described.
LEMMA LinksDescribe ==
    ASSUME PlaceType, PlaceType', NEW f, NEW g, Links(f, g), NEW e \in Event, btq' = Append(btq, e),
           e.k = "dscp", undescribed # <<>>, e.bda = Head(undescribed),
           undescribed' = Tail(undescribed), Cq' = Cq, btc' = btc, odd \subseteq odd'
    PROVE  \E h, k : Links(h, k)' /\ Goes(f, 0, h)
<1>0. Match(f, g) /\ Whole(f, g) /\ AddLast(f, g)
  BY DEF Links
<1>1. Described' = Described /\ \A p \in Described : Of(p)' = Of(p)
  BY DescribedSame
<1>2. btq \in Seq(Event)
  BY DEF PlaceType
<1>3. /\ \A i \in DOMAIN btq : i \in DOMAIN btq' /\ btq'[i] = btq[i]
      /\ \A i \in DOMAIN btq' : i \in DOMAIN btq \/ btq'[i] = e
  BY <1>2
<1>4. Opens' = Opens /\ \A j \in Opens : btq'[j] = btq[j]
  BY <1>3 DEF Opens
<1>5. /\ \A i \in DOMAIN Cq : i \in Nat /\ f[i] \in Described /\ Of(f[i])' = Of(f[i])
      /\ \A j \in Opens : g[j] \in Described /\ Of(g[j])' = Of(g[j])
  BY <1>0, <1>1, LinksAre
<1>6. Match(f, g)'
  <2>1. /\ f \in [DOMAIN Cq' -> Described'] /\ g \in [Opens' -> Described']
        /\ \A i, k \in DOMAIN Cq' : i < k => f[i] < f[k]
        /\ \A j, k \in Opens' : j < k => g[j] < g[k]
        /\ \A i \in DOMAIN Cq', j \in Opens' : f[i] < g[j]
    BY <1>0, <1>1, <1>4 DEF Match
  <2>2. \A j \in Opens' : j < g[j] /\ Of(g[j])' = btq'[j].bda
    BY <1>0, <1>4, <1>5 DEF Match
  <2>3. ASSUME btc'.pc = "open" PROVE Of(f[Len(Cq)])' = btc'.ev.bda
    <3>1. Len(Cq) \in DOMAIN Cq
      BY <2>3 DEF Cq, PlaceType
    <3>2. PICK m \in DOMAIN Cq : m = Len(Cq) /\ m = Len(Cq')
      BY <3>1
    <3> QED BY <1>0, <1>5, <2>3, <3>2 DEF Match
  <2> QED BY <2>1, <2>2, <2>3 DEF Match
<1>7. Whole(f, g)'
  BY <1>0, <1>1, <1>4 DEF Whole
<1>8. AddLast(f, g)'
  BY <1>0, <1>3, <1>4, <1>5 DEF AddLast
<1>9. Goes(f, 0, f)
  BY <1>5 DEF Goes
<1> QED BY <1>6, <1>7, <1>8, <1>9 DEF Links

\* The stack adds any other event: that of a new link has its descriptor at the end.
LEMMA LinksAdd ==
    ASSUME PlaceType, PlaceType', NEW f, NEW g, Links(f, g), NEW e \in Event, btq' = Append(btq, e),
           e.k # "dscp", Cq' = Cq, btc' = btc, odd \subseteq odd',
           \/ undescribed' = undescribed /\ ~(e.k = "open" /\ e.ok)
           \/ undescribed' = Append(undescribed, e.bda) /\ e.bda \in Bdas /\ e.k = "open" /\ e.ok,
           e.k = "add" => e.bda \notin ToSet(undescribed)
    PROVE  \E h, k : Links(h, k)' /\ Goes(f, 0, h)
<1> PICK h : h = [i \in DOMAIN Cq |-> Moved(f[i])]
  OBVIOUS
<1> PICK n : n = Len(btq') + Len(undescribed')
  OBVIOUS
<1> PICK k : k = [j \in Opens' |-> IF j \in Opens THEN Moved(g[j]) ELSE n]
  OBVIOUS
<1> PICK l : l = Len(btq)
  OBVIOUS
<1>0. Match(f, g) /\ Whole(f, g) /\ AddLast(f, g)
  BY DEF Links
<1>1. /\ \A p \in Described : \A q : q = Moved(p) => q \in Described' /\ Of(q)' = Of(p)
      /\ \A p \in Described' : (\E q \in Described : p = Moved(q)) \/ (p = n /\ undescribed' # undescribed)
  BY DescribedAdd
<1>2. btq \in Seq(Event) /\ undescribed \in Seq(Bdas)
  BY DEF PlaceType
<1>3. /\ l \in Nat /\ Len(btq') = l + 1 /\ DOMAIN btq = 1 .. l /\ btq'[l + 1] = e
      /\ \A i \in DOMAIN btq : i \in DOMAIN btq' /\ btq'[i] = btq[i]
      /\ \A i \in DOMAIN btq' : i \in DOMAIN btq \/ i = l + 1
      /\ Len(undescribed) \in Nat
  BY <1>2
<1>4. /\ \A j \in Opens : j \in Opens' /\ btq'[j] = btq[j] /\ j \in Nat /\ j <= l
      /\ \A j \in Opens' : j \in Opens \/ (j = l + 1 /\ undescribed' = Append(undescribed, e.bda))
  BY <1>3 DEF Opens
<1>5. /\ \A i \in DOMAIN Cq : i \in Nat /\ f[i] \in Described /\ f[i] \in Nat /\ f[i] <= l + Len(undescribed)
      /\ \A j \in Opens : g[j] \in Described /\ g[j] \in Nat /\ g[j] > j /\ g[j] <= l + Len(undescribed)
  BY <1>0, LinksAre, DescribedIs
<1>6. \A p \in Described : Moved(p) = IF p <= l THEN p ELSE p + 1
  BY DEF Moved
<1>7. /\ \A i \in DOMAIN Cq : h[i] = (IF f[i] <= l THEN f[i] ELSE f[i] + 1) /\ h[i] \in Described'
                              /\ Of(h[i])' = Of(f[i])
      /\ \A j \in Opens : k[j] = (IF g[j] <= l THEN g[j] ELSE g[j] + 1) /\ k[j] \in Described'
                          /\ Of(k[j])' = Of(g[j])
      /\ \A j \in Opens' : j \notin Opens => k[j] = n
  BY <1>1, <1>4, <1>5, <1>6
<1>8. ASSUME undescribed' = Append(undescribed, e.bda)
      PROVE  n = l + Len(undescribed) + 2 /\ n \in Described' /\ Of(n)' = e.bda
  <2>1. /\ Len(undescribed') = Len(undescribed) + 1 /\ undescribed'[Len(undescribed) + 1] = e.bda
    BY <1>2, <1>8
  <2>2. n = l + Len(undescribed) + 2
    BY <1>3, <2>1
  <2> QED BY <1>3, <2>1, <2>2 DEF Described, Of
<1>9. Match(h, k)'
  <2>1. h \in [DOMAIN Cq' -> Described'] /\ k \in [Opens' -> Described']
    BY <1>4, <1>7, <1>8
  <2>2. ASSUME NEW i \in DOMAIN Cq', NEW m \in DOMAIN Cq', i < m
        PROVE  h[i] < h[m]
    <3>1. f[i] < f[m] /\ f[i] \in Nat /\ f[m] \in Nat
      BY <1>0, <1>5, <2>2 DEF Match
    <3>2. /\ h[i] = (IF f[i] <= l THEN f[i] ELSE f[i] + 1)
          /\ h[m] = (IF f[m] <= l THEN f[m] ELSE f[m] + 1)
      BY <1>7
    <3> QED BY <1>3, <3>1, <3>2
  <2>3. ASSUME NEW i \in DOMAIN Cq', NEW j \in Opens'
        PROVE  h[i] < k[j]
    <3>0. h[i] = (IF f[i] <= l THEN f[i] ELSE f[i] + 1) /\ f[i] \in Nat /\ f[i] <= l + Len(undescribed)
      BY <1>5, <1>7
    <3>1. CASE j \in Opens
      <4>1. f[i] < g[j] /\ g[j] \in Nat /\ k[j] = (IF g[j] <= l THEN g[j] ELSE g[j] + 1)
        BY <1>0, <1>5, <1>7, <3>1 DEF Match
      <4> QED BY <1>3, <3>0, <4>1
    <3>2. CASE j \notin Opens
      <4>1. k[j] = l + Len(undescribed) + 2
        BY <1>4, <1>7, <1>8, <3>2
      <4> QED BY <1>3, <3>0, <4>1
    <3> QED BY <3>1, <3>2
  <2>4. ASSUME NEW j \in Opens', NEW m \in Opens', j < m
        PROVE  k[j] < k[m]
    <3>0. j \in Opens
      BY <1>3, <1>4, <2>4
    <3>1. k[j] = (IF g[j] <= l THEN g[j] ELSE g[j] + 1) /\ g[j] \in Nat /\ g[j] <= l + Len(undescribed)
      BY <1>5, <1>7, <3>0
    <3>2. CASE m \in Opens
      <4>1. g[j] < g[m] /\ g[m] \in Nat /\ k[m] = (IF g[m] <= l THEN g[m] ELSE g[m] + 1)
        BY <1>0, <1>5, <1>7, <2>4, <3>0, <3>2 DEF Match
      <4> QED BY <1>3, <3>1, <4>1
    <3>3. CASE m \notin Opens
      <4>1. k[m] = l + Len(undescribed) + 2
        BY <1>4, <1>7, <1>8, <3>3
      <4> QED BY <1>3, <3>1, <4>1
    <3> QED BY <3>2, <3>3
  <2>5. ASSUME NEW j \in Opens'
        PROVE  j < k[j] /\ Of(k[j])' = btq'[j].bda
    <3>1. CASE j \in Opens
      <4>1. /\ k[j] = (IF g[j] <= l THEN g[j] ELSE g[j] + 1) /\ Of(k[j])' = Of(g[j])
            /\ g[j] \in Nat /\ j < g[j] /\ j \in Nat
        BY <1>4, <1>5, <1>7, <3>1
      <4>2. Of(g[j]) = btq[j].bda /\ btq'[j] = btq[j]
        BY <1>0, <1>4, <3>1 DEF Match
      <4>3. j < k[j]
        BY <1>3, <4>1
      <4> QED BY <4>1, <4>2, <4>3
    <3>2. CASE j \notin Opens
      <4>1. k[j] = n /\ j = l + 1 /\ n = l + Len(undescribed) + 2 /\ Of(n)' = e.bda
        BY <1>4, <1>7, <1>8, <3>2
      <4>2. j < k[j] /\ btq'[j] = e
        BY <1>3, <4>1
      <4> QED BY <4>1, <4>2
    <3> QED BY <3>1, <3>2
  <2>6. ASSUME btc'.pc = "open" PROVE Of(h[Len(Cq)])' = btc'.ev.bda
    <3>1. Len(Cq) \in DOMAIN Cq
      BY <2>6 DEF Cq, PlaceType
    <3>2. PICK m \in DOMAIN Cq : m = Len(Cq) /\ m = Len(Cq')
      BY <3>1
    <3>3. Of(h[m])' = Of(f[m]) /\ Of(f[m]) = btc.ev.bda
      BY <1>0, <1>7, <2>6, <3>2 DEF Match
    <3> QED BY <3>2, <3>3
  <2> QED BY <2>1, <2>2, <2>3, <2>4, <2>5, <2>6 DEF Match
<1>10. Whole(h, k)'
  <2> SUFFICES ASSUME "skipped" \notin odd', NEW p \in Described'
               PROVE  (\E i \in DOMAIN Cq' : h[i] = p) \/ (\E j \in Opens' : k[j] = p)
    BY DEF Whole
  <2>1. ASSUME NEW q \in Described, p = Moved(q)
        PROVE  (\E i \in DOMAIN Cq' : h[i] = p) \/ (\E j \in Opens' : k[j] = p)
    <3>1. (\E i \in DOMAIN Cq : f[i] = q) \/ (\E j \in Opens : g[j] = q)
      BY <1>0 DEF Whole
    <3> QED BY <1>4, <1>6, <1>7, <2>1, <3>1
  <2>2. CASE p = n /\ undescribed' # undescribed
    <3>1. l + 1 \in Opens' /\ l + 1 \notin Opens
      BY <1>3, <1>4, <2>2 DEF Opens
    <3> QED BY <1>7, <2>2, <3>1
  <2> QED BY <1>1, <2>1, <2>2
<1>11. AddLast(h, k)'
  <2> SUFFICES ASSUME NEW m \in DOMAIN btq', btq'[m].k = "add"
               PROVE  /\ \A i \in DOMAIN Cq' : Of(h[i])' = btq'[m].bda => h[i] < m
                      /\ \A j \in Opens' : btq'[j].bda = btq'[m].bda /\ j < m => k[j] < m
    BY DEF AddLast
  <2>1. CASE m \in DOMAIN btq
    <3>0. m \in Nat /\ m <= l /\ btq'[m] = btq[m]
      BY <1>3, <2>1
    <3>1. ASSUME NEW i \in DOMAIN Cq', Of(h[i])' = btq'[m].bda PROVE h[i] < m
      <4>1. f[i] < m /\ f[i] \in Nat
        BY <1>0, <1>5, <1>7, <2>1, <3>0, <3>1 DEF AddLast
      <4> QED BY <1>3, <1>7, <3>0, <4>1
    <3>2. ASSUME NEW j \in Opens', btq'[j].bda = btq'[m].bda, j < m PROVE k[j] < m
      <4>0. j \in Opens
        BY <1>3, <1>4, <3>0, <3>2
      <4>1. g[j] < m /\ g[j] \in Nat
        BY <1>0, <1>4, <1>5, <2>1, <3>0, <3>2, <4>0 DEF AddLast
      <4>2. k[j] = (IF g[j] <= l THEN g[j] ELSE g[j] + 1)
        BY <1>7, <4>0
      <4> QED BY <1>3, <3>0, <4>1, <4>2
    <3> QED BY <3>1, <3>2
  <2>2. CASE m = l + 1
    <3>0. btq'[m] = e /\ e.k = "add" /\ undescribed' = undescribed /\ e.bda \notin ToSet(undescribed)
      BY <1>3, <2>2
    <3>1. ASSUME NEW p \in Described, Of(p) = e.bda PROVE p <= l
      BY <1>2, <1>3, <3>0, <3>1 DEF Described, Of, ToSet
    <3>2. ASSUME NEW i \in DOMAIN Cq', Of(h[i])' = btq'[m].bda PROVE h[i] < m
      <4>1. f[i] <= l /\ f[i] \in Nat
        BY <1>5, <1>7, <3>0, <3>1, <3>2
      <4> QED BY <1>3, <1>7, <2>2, <4>1
    <3>3. ASSUME NEW j \in Opens', btq'[j].bda = btq'[m].bda, j < m PROVE k[j] < m
      <4>0. j \in Opens
        BY <1>3, <1>4, <2>2, <3>3
      <4>1. g[j] <= l /\ g[j] \in Nat
        BY <1>0, <1>4, <1>5, <3>0, <3>1, <3>3, <4>0 DEF Match
      <4>2. k[j] = (IF g[j] <= l THEN g[j] ELSE g[j] + 1)
        BY <1>7, <4>0
      <4> QED BY <1>3, <2>2, <4>1, <4>2
    <3> QED BY <3>2, <3>3
  <2> QED BY <1>3, <2>1, <2>2
<1>12. Goes(f, 0, h)
  <2>1. \A i \in DOMAIN Cq' : i + 0 = i /\ i \in DOMAIN Cq /\ Cq'[i] = Cq[i]
    BY <1>5
  <2> QED BY <1>7, <2>1 DEF Goes
<1> QED BY <1>9, <1>10, <1>11, <1>12 DEF Links

-----------------------------------------------------------------------------
(* What a step does to the queue and the backlog.                          *)

Rests == UNCHANGED <<btq, undescribed>> /\ Cq' = Cq /\ (btc'.pc = "open" => btc' = btc)
Skips ==
    /\ OpenLink /\ UNCHANGED <<btq, undescribed>> /\ btc.pc = "open" /\ Cq' = cq
    /\ "skipped" \in odd' /\ btc'.pc = "fail" /\ btc'.dev = btc.dev
Passes ==
    /\ btq # <<>> /\ btq' = Tail(btq) /\ UNCHANGED undescribed
    /\ btc.pc = "idle" /\ btc'.pc # "open" /\ Cq' = Cq
    /\ Head(btq).k = "dscp" => Cq = <<>>
    /\ 1 \in Opens => "skipped" \in odd'
Fetches ==
    /\ DscpEvt /\ btq # <<>> /\ btq' = Tail(btq) /\ UNCHANGED undescribed /\ Head(btq).k = "dscp"
    /\ btc.pc = "idle" /\ btc'.pc = "exists" /\ btc'.ev = Head(btq) /\ btc'.dev = Head(Cq)
    /\ Cq # <<>> /\ Cq' = Tail(Cq)
Queues ==
    /\ OpenEvt /\ btq # <<>> /\ btq' = Tail(btq) /\ UNCHANGED undescribed /\ 1 \in Opens
    /\ btc.pc = "idle" /\ btc'.pc = "open" /\ btc'.ev = Head(btq)
    /\ btc'.dev \in Slots /\ Cq' = Append(Cq, btc'.dev)
Brings(e) ==
    /\ btq' = Append(btq, e) /\ UNCHANGED <<btc, cq>>
    /\ \/ /\ e.k # "dscp" /\ undescribed' = undescribed /\ ~(e.k = "open" /\ e.ok)
          /\ e.k = "add" => e.bda \notin ToSet(undescribed)
       \/ /\ e.k = "open" /\ e.ok /\ e.bda \in Bdas /\ undescribed' = Append(undescribed, e.bda)
       \/ /\ e.k = "dscp" /\ undescribed # <<>> /\ e.bda = Head(undescribed)
          /\ undescribed' = Tail(undescribed)

\* The queue has devices in it.
LEMMA PlaceIs == TypeInv => PlaceType
<1> SUFFICES ASSUME TypeInv PROVE PlaceType
  OBVIOUS
<1>1. /\ btq \in Seq(Event) /\ undescribed \in Seq(Bdas) /\ cq \in Seq(Slots)
      /\ btc.pc = "open" => btc.dev \in Slots
  BY DEF TypeInv, QueueType, StackType, TaskType, BtcType, Working
<1>2. Cq \in Seq(Slots)
  BY <1>1 DEF Cq
<1> QED BY <1>1, <1>2 DEF PlaceType

\* The same for the next state.
LEMMA PlaceIsThen == TypeInv' => PlaceType'
BY PlaceIs, PTL

\* The steps of esp_hh_cb that take an event.
LEMMA TakingStep ==
    ASSUME TypeInv, OpenEvt \/ DscpEvt \/ AddDevEvt \/ CloseEvt \/ AnswerEvt \/ DataEvt
    PROVE  Passes \/ Fetches \/ Queues
<1>0. /\ QueueType /\ UNCHANGED undescribed /\ btq # <<>> /\ btq' = Tail(btq) /\ btc.pc = "idle"
      /\ Cq = cq /\ 1 \in DOMAIN btq /\ Head(btq) = btq[1]
  <2>1. QueueType /\ UNCHANGED undescribed
    BY DEF TypeInv, OpenEvt, DscpEvt, AddDevEvt, CloseEvt, AnswerEvt, DataEvt, restOfBtc, stackVars
  <2>2. btq # <<>> /\ btq' = Tail(btq) /\ btc.pc = "idle"
    BY DEF OpenEvt, DscpEvt, AddDevEvt, CloseEvt, AnswerEvt, DataEvt, Take
  <2>3. 1 \in DOMAIN btq /\ Head(btq) = btq[1]
    BY <2>1, <2>2 DEF QueueType
  <2> QED BY <2>1, <2>2, <2>3 DEF Cq
<1>1. ASSUME btc'.pc # "open", UNCHANGED cq PROVE Cq' = Cq
  BY <1>0, <1>1 DEF Cq
<1>2. CASE OpenEvt
  <2> DEFINE ev == Head(btq)
  <2>1. ev.k = "open" /\ ev.bda \in Bdas /\ UNCHANGED cq /\ (1 \in Opens <=> ev.ok)
    BY <1>0, <1>2, TakeIs DEF OpenEvt, Take, Opens
  <2>2. CASE ByBda(ev.bda) # "none" /\ Goto(IF ev.ok THEN "open" ELSE "fail", ev, ByBda(ev.bda), ev.ok)
    <3>1. ByBda(ev.bda) \in Slots
      BY <2>1, <2>2, ByBdaIs DEF TypeInv
    <3>2. btc'.pc = (IF ev.ok THEN "open" ELSE "fail") /\ btc'.ev = ev /\ btc'.dev = ByBda(ev.bda)
      BY <2>2 DEF Goto
    <3> QED BY <1>0, <1>1, <1>2, <2>1, <3>1, <3>2 DEF Queues, Passes, Cq
  <2>3. CASE Goto("fail", ev, "none", FALSE) /\ odd' = odd \cup (IF ev.ok THEN {"skipped"} ELSE {})
    <3>1. btc'.pc = "fail" /\ (ev.ok => "skipped" \in odd')
      BY <2>3 DEF Goto
    <3> QED BY <1>0, <1>1, <2>1, <3>1 DEF Passes
  <2>4. ASSUME NEW s \in Slots, Goto(IF ev.ok THEN "open" ELSE "fail", ev, s, ev.ok)
        PROVE  Passes \/ Queues
    <3>1. btc'.pc = (IF ev.ok THEN "open" ELSE "fail") /\ btc'.ev = ev /\ btc'.dev = s
      BY <2>4 DEF Goto
    <3> QED BY <1>0, <1>1, <1>2, <2>1, <3>1 DEF Queues, Passes, Cq
  <2> QED BY <1>2, <2>2, <2>3, <2>4 DEF OpenEvt
<1>3. CASE DscpEvt
  <2>1. Head(btq).k = "dscp" /\ 1 \notin Opens
    BY <1>0, <1>3 DEF DscpEvt, Take, Opens
  <2>2. CASE cq = <<>>
    <3>1. btc'.pc = "dequeue" /\ UNCHANGED cq
      BY <1>3, <2>2 DEF DscpEvt, Goto
    <3> QED BY <1>0, <1>1, <2>1, <2>2, <3>1 DEF Passes
  <2>3. CASE cq # <<>>
    <3>1. btc'.pc = "exists" /\ btc'.ev = Head(btq) /\ btc'.dev = Head(cq) /\ cq' = Tail(cq)
      BY <1>3, <2>3 DEF DscpEvt, Goto
    <3>2. Cq' = cq'
      BY <3>1 DEF Cq
    <3> QED BY <1>0, <1>3, <2>1, <2>3, <3>1, <3>2 DEF Fetches
  <2> QED BY <2>2, <2>3
<1>4. CASE AddDevEvt \/ CloseEvt \/ AnswerEvt \/ DataEvt
  <2>1. Head(btq).k \notin {"open", "dscp"} /\ UNCHANGED cq
    BY <1>4 DEF AddDevEvt, CloseEvt, AnswerEvt, DataEvt, Take
  <2>2. btc'.pc # "open"
    <3>1. CASE btc' = [Idle EXCEPT !.pc = "post", !.out = Told("close", "none", FALSE)]
      BY <3>1 DEF Idle
    <3> QED BY <1>4, <3>1, IdleIs DEF AddDevEvt, CloseEvt, AnswerEvt, DataEvt, Goto
  <2> QED BY <1>0, <1>1, <2>1, <2>2 DEF Passes, Opens
<1> QED BY <1>2, <1>3, <1>4

\* What an event of the stack tells.
LEMMA EvTells ==
    ASSUME NEW k \in {"open", "dscp", "add", "close", "answer", "data"}, NEW b \in Bdas,
           NEW good \in BOOLEAN, NEW flag \in BOOLEAN
    PROVE  LET e == Ev(k, b, good, flag) IN
           e \in Event /\ e.bda = b /\ e.k = k /\ e.ok = good
BY DEF Ev, Event, Unset

\* Every step.
LEMMA EffectStep ==
    ASSUME TypeInv, Next \/ UNCHANGED vars, ~Reboot
    PROVE  \/ Rests \/ Skips \/ Passes \/ Fetches \/ Queues
           \/ \E e \in Event : Brings(e)
<1> USE DEF memVars, taskVars, stackVars, restOfBtc, restOfEvt, restOfApp, restOfTmr, restOfStack
<1>0. TaskType /\ btc \in Callback
  BY DEF TypeInv, TaskType, BtcType
<1>1. CASE OpenEvt \/ DscpEvt \/ AddDevEvt \/ CloseEvt \/ AnswerEvt \/ DataEvt
  BY <1>1, TakingStep
<1>2. CASE OpenLink
  <2>1. btc.pc = "open" /\ UNCHANGED <<btq, undescribed>> /\ Cq = Append(cq, btc.dev)
    BY <1>2 DEF OpenLink, At, Cq
  <2>2. CASE cq' = Append(cq, btc.dev) /\ btc' = [btc EXCEPT !.pc = "status"]
    <3>1. btc'.pc = "status"
      BY <1>0, <2>2, StepIs DEF Steps, Working
    <3> QED BY <2>1, <2>2, <3>1 DEF Rests, Cq
  <2>3. CASE /\ btc' = [btc EXCEPT !.pc = "fail", !.ok = FALSE]
             /\ odd' = odd \cup {"skipped"} /\ UNCHANGED cq
    <3>1. btc'.pc = "fail" /\ btc'.dev = btc.dev
      BY <1>0, <2>3, StepIs DEF Steps
    <3> QED BY <1>2, <2>1, <2>3, <3>1 DEF Skips, Cq
  <2> QED BY <1>2, <2>2, <2>3 DEF OpenLink
<1>3. CASE \/ OpenFailed \/ Status \/ PostEvent \/ DscpExists \/ Describe \/ AddDev
           \/ Close \/ Answer \/ ResetTrans \/ Data
  <2>1. UNCHANGED <<btq, undescribed, cq>> /\ btc.pc # "open"
    BY <1>3 DEF OpenFailed, Status, PostEvent, DscpExists, Describe, AddDev, Close, Answer,
                ResetTrans, Data, At
  <2>2. btc'.pc # "open"
    <3>1. ASSUME NEW out, Post(out) PROVE btc'.pc = "post"
      BY <1>0, <3>1 DEF Post, Callback
    <3>2. ASSUME NEW p \in Steps, btc' = [btc EXCEPT !.pc = p] \/ btc' = [btc EXCEPT !.pc = p, !.out = NoPost]
          PROVE  btc'.pc = p
      BY <1>0, <3>2, StepIs
    <3>3. CASE OpenFailed \/ Status \/ Close \/ Data
      BY <3>1, <3>3, IdleIs DEF OpenFailed, Status, Close, Data
    <3>4. CASE PostEvent \/ Answer \/ ResetTrans
      BY <3>1, <3>2, <3>4, IdleIs DEF PostEvent, Answer, ResetTrans, Steps, Working
    <3>5. CASE DscpExists
      <4>1. \/ btc' = [btc EXCEPT !.pc = "describe"] \/ btc' = [btc EXCEPT !.pc = "fail", !.dev = "none"]
        BY <3>5 DEF DscpExists
      <4>2. "describe" \in Steps /\ "fail" \in Steps
        BY DEF Steps, Working
      <4>3. btc' = [btc EXCEPT !.pc = "fail", !.dev = "none"] => btc'.pc = "fail"
        BY <1>0, <4>2, StepIs
      <4> QED BY <3>2, <4>1, <4>2, <4>3
    <3>6. CASE Describe
      <4>1. \/ btc' = [btc EXCEPT !.pc = "fail"] \/ btc' = [btc EXCEPT !.pc = "status", !.ok = TRUE]
        BY <3>6 DEF Describe
      <4>2. "fail" \in Steps /\ "status" \in Steps
        BY DEF Steps, Working
      <4>3. PICK good \in BOOLEAN : good = TRUE
        OBVIOUS
      <4>4. btc' = [btc EXCEPT !.pc = "status", !.ok = good] => btc'.pc = "status"
        BY <1>0, <4>2, StepIs
      <4> QED BY <3>2, <4>1, <4>2, <4>3, <4>4
    <3>7. CASE AddDev
      BY <1>0, <3>7, BtcIs, StepIs DEF AddDev, Callback
    <3> QED BY <1>3, <3>3, <3>4, <3>5, <3>6, <3>7
  <2> QED BY <2>1, <2>2 DEF Rests, Cq
<1>4. CASE Evt \/ App \/ Tmr \/ UNCHANGED vars \/ \E t \in {"btc", "app", "tmr"} : TouchesFreed(t)
  <2>1. UNCHANGED <<btq, undescribed, cq, btc>>
    <3>1. CASE Evt \/ Tmr
      BY <3>1 DEF Evt, TakeEvent, FreeDevice, Tmr, TimerFire, TimerReset
    <3>2. CASE App
      BY <3>2 DEF App, AppOpen, AppOpenDev, AppCtor, AppConnect, AppCall, AppRequest
    <3>3. CASE UNCHANGED vars \/ \E t \in {"btc", "app", "tmr"} : TouchesFreed(t)
      BY <3>3 DEF TouchesFreed, vars
    <3> QED BY <1>4, <3>1, <3>2, <3>3
  <2> QED BY <2>1 DEF Rests, Cq
<1>5. CASE Stack
  <2>1. UNCHANGED <<btc, cq>>
    BY <1>5 DEF Stack, StackOpen, StackDescribe, StackAdd, StackClose, StackAnswer, StackLoses,
                StackData
  <2>2. ASSUME NEW b \in Bdas, NEW good \in Good, StackOpen(b, good)
        PROVE  \E e \in Event : Brings(e)
    <3>0. PICK flag \in BOOLEAN : flag = (link[b] = "paging")
      OBVIOUS
    <3> DEFINE e == Ev("open", b, good, flag)
    <3>1. e \in Event /\ e.bda = b /\ e.k = "open" /\ e.ok = good
      <4>1. good \in BOOLEAN
        BY GoodIs
      <4> QED BY <4>1, EvTells
    <3>2. btq' = Append(btq, e) /\ undescribed' = IF good THEN Append(undescribed, b) ELSE undescribed
      BY <2>2, <3>0 DEF StackOpen, Notify
    <3> HIDE DEF e
    <3>3. Brings(e)
      BY <2>1, <3>1, <3>2 DEF Brings
    <3> QED BY <3>1, <3>3
  <2>3. ASSUME NEW b \in Bdas, NEW good \in Good, StackAdd(b, good)
        PROVE  \E e \in Event : Brings(e)
    <3>0. PICK flag \in BOOLEAN : flag = FALSE
      OBVIOUS
    <3> DEFINE e == Ev("add", b, good, flag)
    <3>1. e \in Event /\ e.bda = b /\ e.k = "add"
      <4>1. good \in BOOLEAN
        BY GoodIs
      <4> QED BY <4>1, EvTells
    <3>2. btq' = Append(btq, e) /\ UNCHANGED undescribed /\ b \notin ToSet(undescribed)
      BY <2>3, <3>0 DEF StackAdd, Notify
    <3> HIDE DEF e
    <3>3. Brings(e)
      BY <2>1, <3>1, <3>2 DEF Brings
    <3> QED BY <3>1, <3>3
  <2>4. ASSUME NEW b \in Bdas, NEW good \in Good, StackAnswer(b, good)
        PROVE  \E e \in Event : Brings(e)
    <3> DEFINE e == AnswerTo(Head(asked[b]), b, good)
    <3>0. good \in BOOLEAN /\ Head(asked[b]) \in [op : Transactions, id : Nat]
      <4>1. asked[b] \in Seq([op : Transactions, id : Nat]) /\ asked[b] # <<>>
        BY <2>4 DEF TypeInv, StackType, StackAnswer
      <4> QED BY <4>1, GoodIs, HeadTailProperties
    <3>1. e \in Event /\ e.k = "answer"
      BY <3>0, AnswerToIs
    <3>2. btq' = Append(btq, e) /\ UNCHANGED undescribed
      BY <2>4 DEF StackAnswer, Notify
    <3> HIDE DEF e
    <3>3. Brings(e)
      BY <2>1, <3>1, <3>2 DEF Brings
    <3> QED BY <3>1, <3>3
  <2>5. ASSUME NEW good \in Good, NEW added \in BOOLEAN, StackDescribe(good, added)
        PROVE  \E e \in Event : Brings(e)
    <3> DEFINE e == Ev("dscp", Head(undescribed), good, added)
    <3>0. Head(undescribed) \in Bdas
      BY <2>5 DEF StackDescribe, TypeInv, StackType
    <3>1. e \in Event /\ e.bda = Head(undescribed) /\ e.k = "dscp"
      BY <3>0, GoodIs, EvIs
    <3>2. btq' = Append(btq, e) /\ undescribed' = Tail(undescribed) /\ undescribed # <<>>
      BY <2>5 DEF StackDescribe, Notify
    <3> HIDE DEF e
    <3>3. Brings(e)
      BY <2>1, <3>1, <3>2 DEF Brings
    <3> QED BY <3>1, <3>3
  <2>6. ASSUME NEW b \in Bdas, NEW k \in {"close", "data"}, Notify(Ev(k, b, TRUE, FALSE)),
               UNCHANGED undescribed
        PROVE  \E e \in Event : Brings(e)
    <3>0. PICK good \in BOOLEAN, flag \in BOOLEAN : good = TRUE /\ flag = FALSE
      OBVIOUS
    <3> DEFINE e == Ev(k, b, good, flag)
    <3>1. e \in Event /\ e.k = k
      <4>1. k \in {"open", "dscp", "add", "close", "answer", "data"}
        OBVIOUS
      <4> QED BY <4>1, EvTells
    <3>2. btq' = Append(btq, e)
      BY <2>6, <3>0 DEF Notify
    <3> HIDE DEF e
    <3>3. Brings(e)
      BY <2>1, <2>6, <3>1, <3>2 DEF Brings
    <3> QED BY <3>1, <3>3
  <2>7. CASE \E b \in Bdas : StackLoses(b)
    BY <2>1, <2>7 DEF StackLoses, Rests, Cq
  <2> QED BY <1>5, <2>2, <2>3, <2>4, <2>5, <2>6, <2>7 DEF Stack, StackClose, StackData
<1> QED BY <1>1, <1>2, <1>3, <1>4, <1>5 DEF Next, Btc

\* Every step keeps the order of devices and descriptors.
LEMMA LinksStep ==
    ASSUME TypeInv, TypeInv', Next \/ UNCHANGED vars, ~Reboot, NEW f, NEW g, Links(f, g)
    PROVE  \E h, k : Links(h, k)' /\ Goes(f, IF Fetches THEN 1 ELSE 0, h)
<1>0. PlaceType /\ PlaceType' /\ odd \subseteq odd'
  BY PlaceIs, PlaceIsThen, OddGrows
<1>1. /\ Cq \in Seq(Slots) /\ Cq' \in Seq(Slots) /\ Len(Cq) \in Nat
  BY <1>0 DEF PlaceType
<1>2. CASE Rests
  <2>1. ~Fetches
    BY <1>1, <1>2 DEF Rests, Fetches
  <2>2. UNCHANGED <<btq, undescribed>> /\ Len(Cq') = Len(Cq) - 0 /\ \A i \in DOMAIN Cq' : Cq'[i] = Cq[i]
    BY <1>1, <1>2 DEF Rests
  <2>3. 0 \in {0, 1} /\ (btc'.pc = "open" => 0 = 0 /\ btc' = btc) /\ (0 = 1 => "skipped" \in odd')
    BY <1>2 DEF Rests
  <2>4. \E h, k : Links(h, k)' /\ Goes(f, 0, h)
    BY <1>0, <2>2, <2>3, LinksStay
  <2> QED BY <2>1, <2>4
<1>3. CASE Skips
  <2>1. ~Fetches
    BY <1>3 DEF Skips, Fetches
  <2>2. /\ UNCHANGED <<btq, undescribed>> /\ Len(Cq') = Len(Cq) - 1 /\ \A i \in DOMAIN Cq' : Cq'[i] = Cq[i]
        /\ "skipped" \in odd' /\ btc'.pc # "open"
    BY <1>0, <1>3 DEF Skips, Cq, PlaceType
  <2>3. \E h, k : Links(h, k)' /\ Goes(f, 0, h)
    BY <1>0, <2>2, LinksStay
  <2> QED BY <2>1, <2>3
<1>4. CASE Passes
  <2>1. ~Fetches
    BY <1>1, <1>4 DEF Passes, Fetches
  <2> PICK n : n = 0
    OBVIOUS
  <2>2. /\ Len(Cq') = Len(Cq) - n /\ \A i \in DOMAIN Cq' : Cq'[i] = Cq[i + n]
        /\ n \in {0, 1} /\ btc.pc # "open"
    BY <1>1, <1>4 DEF Passes
  <2>3. /\ btq # <<>> /\ btq' = Tail(btq) /\ UNCHANGED undescribed /\ btc'.pc # "open"
        /\ (Head(btq).k = "dscp" => Cq = <<>>) /\ (1 \in Opens => "skipped" \in odd')
        /\ Leaving(n)
    BY <1>4 DEF Passes, Leaving
  <2>4. \E h, k : Links(h, k)' /\ Goes(f, n, h)
    BY <1>0, <2>2, <2>3, LinksPass
  <2> QED BY <2>1, <2>4
<1>5. CASE Fetches
  <2> PICK n : n = 1
    OBVIOUS
  <2>1. /\ Len(Cq') = Len(Cq) - n /\ \A i \in DOMAIN Cq' : Cq'[i] = Cq[i + n]
        /\ n \in {0, 1} /\ btc.pc # "open" /\ btc'.pc # "open"
    BY <1>1, <1>5 DEF Fetches
  <2>2. 1 \notin Opens
    BY <1>0, <1>5 DEF Fetches, PlaceType, Opens
  <2>3. btq # <<>> /\ btq' = Tail(btq) /\ UNCHANGED undescribed /\ Leaving(n)
    BY <1>5 DEF Fetches, Leaving
  <2>4. \E h, k : Links(h, k)' /\ Goes(f, n, h)
    BY <1>0, <2>1, <2>2, <2>3, LinksPass
  <2> QED BY <1>5, <2>4
<1>6. CASE Queues
  <2>1. ~Fetches
    BY <1>6 DEF Queues, Fetches
  <2>2. Len(Cq') = Len(Cq) + 1 /\ \A i \in DOMAIN Cq : Cq'[i] = Cq[i]
    BY <1>1, <1>6 DEF Queues
  <2>3. \E h, k : Links(h, k)' /\ Goes(f, 0, h)
    BY <1>0, <1>6, <2>2, LinksOpen DEF Queues
  <2> QED BY <2>1, <2>3
<1>7. ASSUME NEW e \in Event, Brings(e)
      PROVE  \E h, k : Links(h, k)' /\ Goes(f, IF Fetches THEN 1 ELSE 0, h)
  <2>1. UNCHANGED <<btc, cq>> /\ Cq' = Cq /\ btq' = Append(btq, e)
    BY <1>7 DEF Brings, Cq
  <2>2. ~Fetches
    BY <2>1 DEF Fetches
  <2>3. CASE e.k = "dscp"
    <3>1. \E h, k : Links(h, k)' /\ Goes(f, 0, h)
      BY <1>0, <1>7, <2>1, <2>3, LinksDescribe DEF Brings
    <3> QED BY <2>2, <3>1
  <2>4. CASE e.k # "dscp"
    <3>1. \E h, k : Links(h, k)' /\ Goes(f, 0, h)
      BY <1>0, <1>7, <2>1, <2>4, LinksAdd DEF Brings
    <3> QED BY <2>2, <3>1
  <2> QED BY <2>3, <2>4
<1> QED BY <1>2, <1>3, <1>4, <1>5, <1>6, <1>7, EffectStep

-----------------------------------------------------------------------------
(* What a step does to the reports and the link of a device.               *)

Bare(s) ==
    /\ dev'[s].reports = dev[s].reports /\ dev'[s].connected = dev[s].connected
    /\ dev'[s].added = dev[s].added
Blank(s) ==
    /\ dev'[s].reports = "none" /\ dev'[s].handle = "none"
    /\ ~dev'[s].connected /\ ~dev'[s].added
\* Describe stores the reports, or fails.
Describes(s) ==
    /\ Describe /\ s = btc.dev /\ dev'[s].connected = dev[s].connected
    /\ \/ dev[s].connected /\ dev'[s].reports = btc.ev.bda /\ btc'.pc = "status"
       \/ dev'[s].reports = dev[s].reports /\ btc'.pc = "fail" /\ btc'.dev = s

\* The steps that leave all three.
LEMMA BareDevices ==
    ASSUME TypeInv, OpenFailed \/ ResetTrans \/ AppRequest \/ TimerReset
                    \/ (\E s \in Slots : TimerFire(s)) \/ UNCHANGED dev
    PROVE  \A s \in Slots : Bare(s)
<1>1. dev \in [Slots -> Device]
  BY DeviceIs DEF TypeInv
<1>2. CASE OpenFailed
  <2>1. dev' = dev \/ dev' = [dev EXCEPT ![btc.dev].in_use = FALSE]
    BY <1>2 DEF OpenFailed
  <2> QED BY <2>1, <1>1 DEF Bare, Device
<1>4. CASE ResetTrans
  <2>1. btc.dev \in Slots
    BY <1>4 DEF ResetTrans, At
  <2> QED BY <2>1, <1>1, <1>4 DEF ResetTrans, Bare, Device
<1>5. CASE AppRequest
  <2>1. app.dev \in Slots
    BY <1>5 DEF AppRequest, TypeInv, TaskType, AppType
  <2>2. CASE UNCHANGED dev
    BY <2>2 DEF Bare
  <2>3. CASE Started(app.dev, app.op, app.id)
    BY <2>1, <2>3, <1>1 DEF Started, Bare, Device
  <2> QED BY <2>2, <2>3, <1>5 DEF AppRequest
<1>6. CASE TimerReset
  <2>1. tmr.dev \in Slots
    BY <1>6 DEF TimerReset, TypeInv, TaskType, TmrType
  <2> QED BY <2>1, <1>1, <1>6 DEF TimerReset, Bare, Device
<1>7. ASSUME NEW s \in Slots, TimerFire(s) PROVE \A r \in Slots : Bare(r)
  BY <1>7, <1>1 DEF TimerFire, Bare, Device
<1>8. CASE UNCHANGED dev
  BY <1>8 DEF Bare
<1> QED BY <1>2, <1>4, <1>5, <1>6, <1>7, <1>8

\* hidh_dev_ctor makes a blank device, of memory that is not in use.
LEMMA CtorBlank ==
    ASSUME TypeInv, NEW r \in Slots, NEW b \in Bdas, Ctor(r, b), NEW s \in Slots
    PROVE  Bare(s) \/ (Blank(s) /\ ~dev[s].live)
<1>1. dev \in [Slots -> Device]
  BY DeviceIs DEF TypeInv
<1>2. ~dev[r].live /\ dev' = [dev EXCEPT ![r] = [Free EXCEPT !.live = TRUE, !.in_use = TRUE, !.bda = b]]
  BY DEF Ctor
<1>3. s # r => Bare(s)
  BY <1>1, <1>2 DEF Bare
<1>4. dev'[r].reports = "none" /\ dev'[r].handle = "none" /\ ~dev'[r].connected /\ ~dev'[r].added
  BY <1>1, <1>2 DEF Free
<1> QED BY <1>2, <1>3, <1>4 DEF Blank

\* Each step.
LEMMA BareStep ==
    ASSUME TypeInv, Next \/ UNCHANGED vars, ~Reboot, NEW s \in Slots
    PROVE  \/ Bare(s)
           \/ Blank(s) /\ (dev[s].live => FreeDevice /\ s = evt.dev)
           \/ OpenLink /\ s = btc.dev /\ dev'[s].reports = dev[s].reports /\ dev'[s].added = dev[s].added
           \/ /\ Close /\ s = btc.dev /\ dev'[s].reports = dev[s].reports /\ dev'[s].added = dev[s].added
              /\ ~dev'[s].connected
           \/ Describes(s)
           \/ /\ AddDev /\ s = btc.dev /\ dev'[s].reports = dev[s].reports
              /\ dev'[s].connected = dev[s].connected
<1>0. dev \in [Slots -> Device] /\ TaskType /\ QueueType
  BY DeviceIs DEF TypeInv
<1>1. CASE OpenFailed \/ ResetTrans \/ AppRequest \/ Tmr \/ UNCHANGED <<dev, list>>
  BY <1>1, BareDevices DEF Tmr
<1>2. CASE OpenEvt \/ AppCtor
  <2>1. \/ UNCHANGED dev
        \/ \E r \in Slots, b \in Bdas : Ctor(r, b)
    <3>1. CASE OpenEvt
      <4>1. Head(btq).bda \in Bdas
        BY <1>0, <3>1, TakeIs DEF OpenEvt
      <4> QED BY <3>1, <4>1 DEF OpenEvt
    <3>2. CASE AppCtor
      <4>1. app.op \in Bdas
        BY <1>0, <3>2 DEF AppCtor, TaskType, AppType
      <4> QED BY <3>2, <4>1 DEF AppCtor
    <3> QED BY <1>2, <3>1, <3>2
  <2> QED BY <2>1, BareDevices, CtorBlank
<1>3. CASE OpenLink
  <2>1. btc.dev \in Slots /\ dev' = [dev EXCEPT ![btc.dev].connected = TRUE, ![btc.dev].handle = btc.ev.bda]
    BY <1>3 DEF OpenLink, At
  <2>2. s # btc.dev => Bare(s)
    BY <1>0, <2>1 DEF Bare, Device
  <2>3. dev'[btc.dev].reports = dev[btc.dev].reports /\ dev'[btc.dev].added = dev[btc.dev].added
    BY <1>0, <2>1 DEF Device
  <2> QED BY <1>3, <2>2, <2>3
<1>4. CASE Close
  <2>1. btc.dev \in Slots /\ dev' = [dev EXCEPT ![btc.dev].connected = FALSE, ![btc.dev].in_use = FALSE]
    BY <1>4 DEF Close, At
  <2>2. s # btc.dev => Bare(s)
    BY <1>0, <2>1 DEF Bare, Device
  <2>3. dev'[btc.dev].reports = dev[btc.dev].reports /\ dev'[btc.dev].added = dev[btc.dev].added
        /\ ~dev'[btc.dev].connected
    BY <1>0, <2>1 DEF Device
  <2> QED BY <1>4, <2>2, <2>3
<1>5. CASE AddDev
  <2>1. btc.dev \in Slots /\ dev' = [dev EXCEPT ![btc.dev].added = btc.ev.ok]
    BY <1>5 DEF AddDev, At
  <2>2. s # btc.dev => Bare(s)
    BY <1>0, <2>1 DEF Bare, Device
  <2>3. dev'[btc.dev].reports = dev[btc.dev].reports /\ dev'[btc.dev].connected = dev[btc.dev].connected
    BY <1>0, <2>1 DEF Device
  <2> QED BY <1>5, <2>2, <2>3
<1>6. CASE FreeDevice
  <2>1. dev' = dev \/ (evt.dev \in Slots /\ dev' = [dev EXCEPT ![evt.dev] = Free])
    BY <1>0, <1>6 DEF FreeDevice, TaskType, EvtType, memVars
  <2>2. s # evt.dev \/ dev' = dev => Bare(s)
    BY <1>0, <2>1 DEF Bare
  <2>3. dev' # dev => Blank(evt.dev)
    BY <1>0, <2>1 DEF Free, Blank
  <2> QED BY <1>6, <2>2, <2>3
<1>7. CASE Describe
  <2>0. btc.dev \in Slots /\ "fail" \in Steps /\ "status" \in Steps
    BY <1>7 DEF Describe, At, Steps, Working
  <2>1. CASE dev' = dev /\ btc' = [btc EXCEPT !.pc = "fail"]
    BY <2>1, BareDevices
  <2>2. CASE /\ dev[btc.dev].connected /\ btc' = [btc EXCEPT !.pc = "status", !.ok = TRUE]
             /\ dev' = [dev EXCEPT ![btc.dev].added = btc.ev.flag, ![btc.dev].reports = btc.ev.bda]
    <3>1. s # btc.dev => Bare(s)
      BY <1>0, <2>0, <2>2 DEF Bare, Device
    <3>2. dev'[btc.dev].reports = btc.ev.bda /\ dev'[btc.dev].connected = dev[btc.dev].connected
      BY <1>0, <2>0, <2>2 DEF Device
    <3>3. btc'.pc = "status"
      BY <1>0, <2>0, <2>2, StepIs
    <3> QED BY <1>7, <2>2, <3>1, <3>2, <3>3 DEF Describes
  <2>3. CASE /\ dev' = [dev EXCEPT ![btc.dev].added = btc.ev.flag]
             /\ btc' = [btc EXCEPT !.pc = "fail"]
    <3>1. s # btc.dev => Bare(s)
      BY <1>0, <2>0, <2>3 DEF Bare, Device
    <3>2. dev'[btc.dev].reports = dev[btc.dev].reports /\ dev'[btc.dev].connected = dev[btc.dev].connected
      BY <1>0, <2>0, <2>3 DEF Device
    <3>3. btc'.pc = "fail" /\ btc'.dev = btc.dev
      BY <1>0, <2>0, <2>3, StepIs
    <3> QED BY <1>7, <2>3, <3>1, <3>2, <3>3 DEF Describes
  <2> QED BY <1>7, <2>1, <2>2, <2>3 DEF Describe
<1> QED BY <1>1, <1>2, <1>3, <1>4, <1>5, <1>6, <1>7, Frames

\* A device that is live stays so, and of its address, until it is freed.
LEMMA LiveStep ==
    ASSUME TypeInv, ListInv, Next \/ UNCHANGED vars, ~Reboot, NEW s \in Slots, dev[s].live
    PROVE  \/ dev'[s].live /\ dev'[s].bda = dev[s].bda
           \/ /\ FreeDevice /\ s = evt.dev
              /\ s \in ToSet(cq) => "queued" \in odd'
              /\ Pointer("btc") = s => "btc" \in dangling'
              /\ UNCHANGED <<btc, cq>> /\ Listed(s) /\ ~Listed(s)' /\ dev' # dev
<1>1. CASE ~Moves
  <2>1. Same(s)
    BY <1>1, DevicesStep
  <2> QED BY <2>1 DEF Same
<1>2. CASE OpenLink \/ OpenFailed \/ Close
  BY <1>2, MarkedDevices DEF Same
<1>3. CASE OpenEvt \/ AppCtor
  <2>1. \/ UNCHANGED dev
        \/ \E r \in Slots, b \in Bdas : Ctor(r, b)
    <3>1. CASE OpenEvt
      <4>1. Head(btq).bda \in Bdas
        BY <3>1, TakeIs DEF OpenEvt, TypeInv
      <4> QED BY <3>1, <4>1 DEF OpenEvt
    <3>2. CASE AppCtor
      <4>1. app.op \in Bdas
        BY <3>2 DEF AppCtor, TypeInv, TaskType, AppType
      <4> QED BY <3>2, <4>1 DEF AppCtor
    <3> QED BY <1>3, <3>1, <3>2
  <2> QED BY <2>1, CtorSets DEF Same
<1>4. CASE FreeDevice
  <2>1. CASE s # evt.dev \/ dev' = dev
    <3>1. \A r \in Slots \ {evt.dev} : Same(r)
      BY <1>4, FreeSets DEF Same
    <3> QED BY <2>1, <3>1 DEF Same
  <2>2. CASE s = evt.dev /\ dev' # dev
    <3>1. /\ dangling' = dangling \cup {t \in {"btc", "app", "tmr"} : Pointer(t) = evt.dev}
          /\ odd' = odd \cup IF evt.dev \in ToSet(cq) THEN {"queued"} ELSE {}
          /\ UNCHANGED <<btc, cq>>
      BY <1>4, <2>2 DEF FreeDevice, memVars, restOfEvt
    <3>2. Listed(s) /\ \A r \in Slots : Listed(r)' <=> Listed(r) /\ r # s
      BY <1>4, <2>2, FreeSets
    <3>3. ~Listed(s)'
      BY <3>2
    <3> QED BY <1>4, <2>2, <3>1, <3>2, <3>3
  <2> QED BY <2>1, <2>2
<1> QED BY <1>1, <1>2, <1>3, <1>4 DEF Moves

-----------------------------------------------------------------------------
(* The devices that are queued.                                            *)

NoSkip == odd \cap {"skipped", "queued"} = {}

\* A descriptor is fetched by one kind of step.
LEMMA FetchesAlone ==
    ASSUME PlaceType, Fetches
    PROVE  ~Rests /\ ~Skips /\ ~Passes /\ ~Queues /\ \A e \in Event : ~Brings(e)
<1>1. PICK n, m \in Nat : n = Len(Cq) /\ Len(Cq') = m /\ m = n - 1
  BY DEF PlaceType, Fetches
<1>2. Cq' # Cq /\ btc'.pc = "exists" /\ btc.pc = "idle"
  <2>1. Len(Cq') # Len(Cq)
    BY <1>1
  <2> QED BY <2>1 DEF Fetches
<1>3. \A e \in Event : ~Brings(e)
  BY <1>2 DEF Brings
<1>4. ~Rests /\ ~Skips /\ ~Passes /\ ~Queues
  BY <1>2 DEF Rests, Skips, Passes, Queues
<1> QED BY <1>3, <1>4

\* Where the queued devices go: only the first is fetched, and the last skipped.
LEMMA IndexStep ==
    ASSUME TypeInv, TypeInv', Next \/ UNCHANGED vars, ~Reboot, NEW n, n = IF Fetches THEN 1 ELSE 0
    PROVE  /\ \A i \in DOMAIN Cq' : i + n \in DOMAIN Cq \/ (Queues /\ i = Len(Cq'))
           /\ \A m \in DOMAIN Cq : \/ \E i \in DOMAIN Cq' : i + n = m
                                   \/ Fetches /\ m = 1
                                   \/ Skips /\ m = Len(Cq)
<1>0. PlaceType /\ PlaceType' /\ Cq \in Seq(Slots) /\ Len(Cq) \in Nat /\ Cq' \in Seq(Slots)
  BY PlaceIs, PlaceIsThen DEF PlaceType
<1>1. CASE Rests \/ \E e \in Event : Brings(e)
  <2>1. n = 0 /\ Cq' = Cq
    BY <1>0, <1>1, FetchesAlone DEF Rests, Brings, Cq
  <2>2. \A i \in DOMAIN Cq : i + n = i
    BY <1>0, <2>1
  <2> QED BY <2>1, <2>2
<1>2. CASE Passes
  <2>1. n = 0 /\ Cq' = Cq
    BY <1>0, <1>2, FetchesAlone DEF Passes
  <2>2. \A i \in DOMAIN Cq : i + n = i
    BY <1>0, <2>1
  <2> QED BY <2>1, <2>2
<1>3. CASE Skips
  <2>1. n = 0 /\ Cq = Append(Cq', btc.dev)
    BY <1>0, <1>3, FetchesAlone DEF Skips, Cq
  <2>2. Len(Cq') \in Nat /\ Len(Cq) = Len(Cq') + 1
    BY <1>0, <2>1
  <2> QED BY <1>0, <1>3, <2>1, <2>2
<1>4. CASE Queues
  <2>1. n = 0 /\ Cq' = Append(Cq, btc'.dev)
    BY <1>0, <1>4, FetchesAlone DEF Queues
  <2>2. Len(Cq') \in Nat /\ Len(Cq') = Len(Cq) + 1
    BY <1>0, <2>1
  <2> QED BY <1>0, <1>4, <2>1, <2>2
<1>5. CASE Fetches
  <2>1. n = 1 /\ Cq # <<>> /\ Cq' = Tail(Cq)
    BY <1>5 DEF Fetches
  <2>2. Len(Cq') \in Nat /\ Len(Cq') = Len(Cq) - 1
    BY <1>0, <2>1
  <2>3. \A i \in DOMAIN Cq' : i + n \in DOMAIN Cq
    BY <1>0, <2>1, <2>2
  <2>4. \A m \in DOMAIN Cq : m # 1 => m - 1 \in DOMAIN Cq' /\ (m - 1) + n = m
    BY <1>0, <2>1, <2>2
  <2> QED BY <1>5, <2>3, <2>4
<1> QED BY <1>1, <1>2, <1>3, <1>4, <1>5, EffectStep

\* The device that OPEN_EVT will queue is of its address.
LEMMA QueuedIs ==
    ASSUME TypeInv, ListInv, Queues
    PROVE  dev'[btc'.dev].live /\ dev'[btc'.dev].bda = btc'.ev.bda
<1> DEFINE ev == Head(btq)
           step == IF ev.ok THEN "open" ELSE "fail"
<1>0. OpenEvt /\ ev.bda \in Bdas /\ btc'.pc = "open" /\ btc'.ev = ev /\ "none" \notin Slots
  BY TakeIs, BtAssumption DEF TypeInv, Queues, OpenEvt
<1>1. CASE ByBda(ev.bda) # "none" /\ Goto(step, ev, ByBda(ev.bda), ev.ok) /\ UNCHANGED <<dev, list>>
  <2>1. PICK d : d = ByBda(ev.bda)
    OBVIOUS
  <2>2. d \in Slots /\ Listed(d) /\ dev[d].bda = ev.bda
    BY <1>0, <1>1, <2>1, ByBdaIs DEF TypeInv
  <2>3. dev[d].live
    BY <2>2 DEF ListInv, Listed, ToSet
  <2>4. btc'.dev = d
    BY <1>1, <2>1 DEF Goto
  <2> QED BY <1>0, <1>1, <2>2, <2>3, <2>4
<1>2. CASE Goto("fail", ev, "none", FALSE)
  BY <1>0, <1>2 DEF Goto
<1>3. ASSUME NEW s \in Slots, Ctor(s, ev.bda), Goto(step, ev, s, ev.ok)
      PROVE  dev'[btc'.dev].live /\ dev'[btc'.dev].bda = btc'.ev.bda
  <2>1. dev'[s].live /\ dev'[s].bda = ev.bda
    BY <1>0, <1>3, CtorSets
  <2>2. btc'.dev = s
    <3>1. \A p, good : Goto(p, ev, s, good) => btc'.dev = s
      BY DEF Goto
    <3> QED BY <1>3, <3>1
  <2> QED BY <1>0, <2>1, <2>2
<1> QED BY <1>0, <1>1, <1>2, <1>3 DEF OpenEvt

\* Only esp_hh_cb takes up another pointer.
LEMMA DanglingStep ==
    ASSUME Next \/ UNCHANGED vars, ~Reboot, ~Btc, "btc" \in dangling
    PROVE  "btc" \in dangling'
BY DEF Next, vars, Evt, TakeEvent, FreeDevice, App, AppOpen, AppOpenDev, AppCtor, AppConnect, AppCall,
       AppRequest, Tmr, TimerFire, TimerReset, Stack, StackOpen, StackDescribe, StackAdd, StackClose,
       StackAnswer, StackLoses, StackData, TouchesFreed, Forget, memVars, restOfApp, restOfTmr, restOfStack

\* A queued device stays the one that its descriptor is of.
LEMMA OwnedStep ==
    ASSUME TypeInv, TypeInv', ListInv, Next \/ UNCHANGED vars, ~Reboot, NoSkip',
           NEW f, NEW g, NEW h, NEW k, Links(f, g), Links(h, k)', Owned(f),
           NEW n, n = IF Fetches THEN 1 ELSE 0, Goes(f, n, h)
    PROVE  Owned(h)'
<1>0. PlaceType /\ PlaceType' /\ Cq \in Seq(Slots) /\ Len(Cq) \in Nat /\ Cq' \in Seq(Slots)
  BY PlaceIs, PlaceIsThen DEF PlaceType
<1> SUFFICES ASSUME NEW i \in DOMAIN Cq'
             PROVE  \/ dev'[Cq'[i]].live /\ dev'[Cq'[i]].bda = Of(h[i])'
                    \/ btc'.pc = "open" /\ i = Len(Cq') /\ "btc" \in dangling'
  BY DEF Owned
<1>1. CASE Queues /\ i = Len(Cq')
  <2>1. Cq'[i] = btc'.dev
    BY <1>0, <1>1 DEF Queues
  <2>2. Of(h[i])' = btc'.ev.bda
    <3>1. Match(h, k)' /\ btc'.pc = "open"
      BY <1>1 DEF Links, Queues
    <3> QED BY <1>1, <3>1 DEF Match
  <2> QED BY <1>1, <2>1, <2>2, QueuedIs
<1>2. CASE i + n \in DOMAIN Cq
  <2>1. PICK s \in Slots, m \in DOMAIN Cq : m = i + n /\ s = Cq[m]
    BY <1>0, <1>2
  <2>2. Cq'[i] = s /\ Of(h[i])' = Of(f[m])
    BY <2>1 DEF Goes
  <2>3. CASE dev[s].live /\ dev[s].bda = Of(f[m])
    <3>1. CASE dev'[s].live /\ dev'[s].bda = dev[s].bda
      BY <2>2, <2>3, <3>1
    <3>2. CASE /\ FreeDevice /\ s = evt.dev
               /\ s \in ToSet(cq) => "queued" \in odd'
               /\ Pointer("btc") = s => "btc" \in dangling'
               /\ UNCHANGED <<btc, cq>>
      <4>1. s \notin ToSet(cq)
        BY <3>2 DEF NoSkip
      <4>2. btc.pc = "open" /\ m = Len(Cq) /\ s = btc.dev
        BY <1>0, <2>1, <4>1 DEF Cq, ToSet, PlaceType
      <4>3. "btc" \in dangling' /\ btc'.pc = "open"
        BY <3>2, <4>2 DEF Pointer
      <4>4. n = 0
        BY <4>2 DEF Fetches
      <4>5. Len(Cq') = Len(Cq) /\ i \in Nat
        BY <1>0, <3>2 DEF Cq
      <4> QED BY <2>1, <4>2, <4>3, <4>4, <4>5
    <3> QED BY <2>3, <3>1, <3>2, LiveStep
  <2>4. CASE btc.pc = "open" /\ m = Len(Cq) /\ "btc" \in dangling
    <3>1. ~OpenLink /\ ~Btc
      <4>1. ~OpenLink /\ ~Fetches
        BY <2>4 DEF OpenLink, At, Fetches
      <4> QED BY <2>4, <4>1 DEF Btc, OpenEvt, OpenFailed, Status, PostEvent, DscpEvt, DscpExists,
                   Describe, AddDevEvt, AddDev, CloseEvt, Close, AnswerEvt, Answer, ResetTrans,
                   DataEvt, Data, Take, At
    <3>2. UNCHANGED <<btc, cq>>
      <4>1. UNCHANGED btc
        BY <3>1, Frames
      <4>2. ~DscpEvt
        BY <2>4 DEF DscpEvt, Take
      <4> QED BY <3>1, <4>1, <4>2, Frames
    <3>3. "btc" \in dangling'
      BY <2>4, <3>1, DanglingStep
    <3>4. n = 0 /\ Len(Cq') = Len(Cq) /\ i \in Nat
      BY <1>0, <2>4, <3>2 DEF Fetches, Cq
    <3> QED BY <2>1, <2>4, <3>2, <3>3, <3>4
  <2> QED BY <2>1, <2>3, <2>4 DEF Owned
<1> QED BY <1>1, <1>2, IndexStep

-----------------------------------------------------------------------------
(* What esp_hh_cb goes on with.                                            *)

\* The event that is being handled is one.
EventInv == btc.pc \in {"exists", "describe"} => btc.ev.bda \in Bdas

\* The steps that lead to those of a descriptor, and to AddDev.
LEMMA PcIs ==
    ASSUME TypeInv, Btc
    PROVE  \/ DscpEvt /\ cq = <<>> /\ btc'.pc = "dequeue"
           \/ DscpEvt /\ cq # <<>> /\ btc'.pc = "exists" /\ btc'.ev = Head(btq) /\ btc'.dev = Head(cq)
           \/ DscpExists /\ Listed(btc.dev) /\ btc'.pc = "describe" /\ btc'.ev = btc.ev /\ btc'.dev = btc.dev
           \/ /\ AddDevEvt /\ ByHandle(Head(btq).bda) # "none" /\ btc'.pc = "add"
              /\ btc'.dev = ByHandle(Head(btq).bda)
           \/ btc'.pc \notin {"dequeue", "exists", "describe", "add"}
<1>0. TaskType /\ btc \in Callback
  BY DEF TypeInv, TaskType, BtcType
<1>1. ASSUME NEW out, Post(out) PROVE btc'.pc = "post"
  <2>1. "pc" \in DOMAIN btc
    BY <1>0 DEF Callback
  <2> QED BY <1>1, <2>1 DEF Post
<1>2. ASSUME NEW p \in Steps, btc' = [btc EXCEPT !.pc = p] \/ btc' = [btc EXCEPT !.pc = p, !.out = NoPost]
      PROVE  btc'.pc = p
  BY <1>0, <1>2, StepIs
<1>3. ASSUME NEW p \in Steps, NEW good \in BOOLEAN, btc' = [btc EXCEPT !.pc = p, !.ok = good]
      PROVE  btc'.pc = p
  BY <1>0, <1>3, StepIs
<1>4. \A p \in {"idle", "open", "fail", "status", "post", "reset", "close", "answer", "data"} :
          p \in Steps /\ p \notin {"dequeue", "exists", "describe", "add"}
  BY DEF Steps, Working
<1>5. CASE OpenEvt
  <2>1. \E p \in {"open", "fail"} : \E d, good : Goto(p, Head(btq), d, good)
    BY <1>5 DEF OpenEvt
  <2> QED BY <1>4, <2>1 DEF Goto
<1>6. CASE OpenLink \/ Describe \/ AddDev
  <2>1. \E p \in {"fail", "status"} :
           btc' = [btc EXCEPT !.pc = p] \/ \E good \in BOOLEAN : btc' = [btc EXCEPT !.pc = p, !.ok = good]
    BY <1>0, <1>6, BtcIs DEF OpenLink, Describe, AddDev
  <2> QED BY <1>2, <1>3, <1>4, <2>1
<1>7. CASE OpenFailed \/ Status \/ Close \/ Data
  BY <1>1, <1>4, <1>7, IdleIs DEF OpenFailed, Status, Close, Data
<1>8. CASE PostEvent \/ Answer \/ ResetTrans
  BY <1>1, <1>2, <1>4, <1>8, IdleIs DEF PostEvent, Answer, ResetTrans
<1>9. CASE DscpEvt
  BY <1>9 DEF DscpEvt, Goto
<1>10. CASE DscpExists
  <2>1. CASE Listed(btc.dev) /\ btc' = [btc EXCEPT !.pc = "describe"]
    <3>1. "describe" \in Steps
      BY DEF Steps, Working
    <3> QED BY <1>0, <1>10, <2>1, <3>1, StepIs
  <2>2. CASE btc' = [btc EXCEPT !.pc = "fail", !.dev = "none"]
    <3>1. btc'.pc = "fail"
      BY <1>0, <1>4, <2>2, StepIs
    <3> QED BY <3>1
  <2> QED BY <1>10, <2>1, <2>2 DEF DscpExists
<1>11. CASE AddDevEvt
  BY <1>11 DEF AddDevEvt, Goto
<1>12. CASE CloseEvt
  <2>1. CASE btc' = [Idle EXCEPT !.pc = "post", !.out = Told("close", "none", FALSE)]
    <3>1. btc'.pc = "post"
      BY <2>1 DEF Idle
    <3> QED BY <3>1
  <2> QED BY <1>12, <2>1 DEF CloseEvt, Goto
<1>13. CASE AnswerEvt \/ DataEvt
  BY <1>13, IdleIs DEF AnswerEvt, DataEvt, Goto
<1> QED BY <1>5, <1>6, <1>7, <1>8, <1>9, <1>10, <1>11, <1>12, <1>13 DEF Btc

\* Each step keeps that.
LEMMA EventStep ==
    ASSUME TypeInv, EventInv, Next \/ UNCHANGED vars, ~Reboot
    PROVE  EventInv'
<1>1. CASE UNCHANGED btc
  BY <1>1 DEF EventInv
<1>2. CASE Btc
  <2>1. DscpEvt => Head(btq).bda \in Bdas
    BY TakeIs DEF DscpEvt, TypeInv
  <2>2. DscpExists => btc.pc = "exists"
    BY DEF DscpExists
  <2> QED BY <1>2, <2>1, <2>2, PcIs DEF EventInv
<1> QED BY <1>1, <1>2, Frames

\* A device in the list that has a link was there before, and its link is new only if
\* OPEN_EVT gave it.
LEMMA LinkedStep ==
    ASSUME TypeInv, ListInv, Next \/ UNCHANGED vars, ~Reboot, NEW s \in Slots,
           Listed(s)', dev'[s].handle # "none"
    PROVE  Listed(s) /\ (dev'[s].handle = dev[s].handle \/ (OpenLink /\ s = btc.dev))
<1>1. CASE ~Moves
  <2>1. Same(s) /\ UNCHANGED list
    BY <1>1, DevicesStep
  <2> QED BY <2>1 DEF Same, Listed
<1>2. CASE OpenLink \/ OpenFailed \/ Close
  <2>1. UNCHANGED list
    BY <1>2 DEF OpenLink, OpenFailed, Close, restOfBtc
  <2> QED BY <1>2, <2>1, MarkedDevices DEF Same, Listed
<1>3. CASE OpenEvt \/ AppCtor
  <2>1. \/ UNCHANGED <<dev, list>>
        \/ \E r \in Slots, b \in Bdas : Ctor(r, b)
    <3>1. CASE OpenEvt
      <4>1. Head(btq).bda \in Bdas
        BY <3>1, TakeIs DEF OpenEvt, TypeInv
      <4> QED BY <3>1, <4>1 DEF OpenEvt
    <3>2. CASE AppCtor
      <4>1. app.op \in Bdas
        BY <3>2 DEF AppCtor, TypeInv, TaskType, AppType
      <4> QED BY <3>2, <4>1 DEF AppCtor
    <3> QED BY <1>3, <3>1, <3>2
  <2>2. CASE UNCHANGED <<dev, list>>
    BY <2>2 DEF Listed
  <2>3. ASSUME NEW r \in Slots, NEW b \in Bdas, Ctor(r, b)
        PROVE  Listed(s) /\ dev'[s].handle = dev[s].handle
    <3>1. /\ dev'[r].handle = "none" /\ (Listed(s)' <=> Listed(s) \/ s = r)
          /\ \A q \in Slots \ {r} : Same(q)
      BY <2>3, CtorSets
    <3> QED BY <3>1 DEF Same
  <2> QED BY <2>1, <2>2, <2>3
<1>4. CASE FreeDevice
  <2>1. \/ UNCHANGED <<dev, list>>
        \/ /\ \A r \in Slots \ {evt.dev} : Same(r)
           /\ \A r \in Slots : Listed(r)' <=> Listed(r) /\ r # evt.dev
    BY <1>4, FreeSets
  <2>2. CASE UNCHANGED <<dev, list>>
    BY <2>2 DEF Listed
  <2>3. CASE /\ \A r \in Slots \ {evt.dev} : Same(r)
             /\ \A r \in Slots : Listed(r)' <=> Listed(r) /\ r # evt.dev
    BY <2>3 DEF Same
  <2> QED BY <2>1, <2>2, <2>3
<1> QED BY <1>1, <1>2, <1>3, <1>4 DEF Moves

\* A device without a descriptor had none before.
LEMMA NeedsStep ==
    ASSUME TypeInv, ListInv, EventInv, Next \/ UNCHANGED vars, ~Reboot, NEW s \in Slots, Needs(s)',
           ~(OpenLink /\ s = btc.dev)
    PROVE  Needs(s) /\ dev'[s].handle = dev[s].handle /\ (Describe /\ s = btc.dev => btc'.pc = "fail" /\ btc'.dev = s)
<1>1. Listed(s) /\ dev'[s].handle = dev[s].handle /\ dev'[s].handle # "none" /\ dev'[s].reports = "none"
  BY LinkedStep DEF Needs
<1>2. ~Blank(s)
  BY <1>1 DEF Blank
<1>3. Describe => btc.ev.bda # "none" /\ btc.pc = "describe"
  BY BtAssumption DEF EventInv, Describe, At
<1>4. dev[s].reports = "none"
  BY <1>1, <1>2, <1>3, BareStep DEF Bare, Describes
<1>5. ASSUME Describe, s = btc.dev PROVE btc'.pc = "fail" /\ btc'.dev = s
  <2>1. btc' = [btc EXCEPT !.pc = "fail"] \/
           dev' = [dev EXCEPT ![btc.dev].added = btc.ev.flag, ![btc.dev].reports = btc.ev.bda]
    BY <1>5 DEF Describe
  <2>2. dev \in [Slots -> Device] /\ TaskType /\ "fail" \in Steps
    BY DeviceIs DEF TypeInv, Steps
  <2>3. btc' = [btc EXCEPT !.pc = "fail"]
    BY <1>1, <1>3, <1>5, <2>1, <2>2 DEF Device
  <2> QED BY <1>5, <2>2, <2>3, StepIs
<1> QED BY <1>1, <1>4, <1>5 DEF Needs

-----------------------------------------------------------------------------
(* The pairs.                                                              *)

\* A device that needs a descriptor stays in the queue, or is being described.
LEMMA AwaitedStep ==
    ASSUME TypeInv, TypeInv', ListInv, EventInv, Next \/ UNCHANGED vars, ~Reboot, Clean',
           NEW f, NEW g, NEW h, NEW k, Links(f, g), Links(h, k)', Awaited(f),
           NEW n, n = IF Fetches THEN 1 ELSE 0, Goes(f, n, h)
    PROVE  Awaited(h)'
<1>0. /\ PlaceType /\ PlaceType' /\ Cq \in Seq(Slots) /\ Len(Cq) \in Nat /\ Cq' \in Seq(Slots)
      /\ TaskType /\ btc \in Callback /\ "none" \notin Slots
  BY PlaceIs, PlaceIsThen, BtAssumption DEF PlaceType, TypeInv, TaskType, BtcType
<1> SUFFICES ASSUME NEW s \in Slots, Needs(s)'
             PROVE  \/ \E i \in DOMAIN Cq' : Cq'[i] = s /\ Of(h[i])' = dev'[s].handle
                    \/ btc'.dev = s /\ btc'.pc \in {"exists", "describe", "fail"}
  BY DEF Awaited
<1>1. CASE OpenLink /\ s = btc.dev
  <2>1. btc.pc = "open" /\ Cq = Append(cq, btc.dev) /\ n = 0
    BY <1>1 DEF OpenLink, At, Cq, Fetches
  <2>2. CASE cq' = Append(cq, btc.dev) /\ btc' = [btc EXCEPT !.pc = "status"]
    <3>1. btc'.pc = "status"
      BY <1>0, <2>2, StepIs DEF Steps, Working
    <3>2. Cq' = Cq
      BY <2>1, <2>2, <3>1 DEF Cq
    <3>3. PICK m \in DOMAIN Cq' : m = Len(Cq) /\ Cq'[m] = s /\ m + n = m /\ m \in DOMAIN Cq
      BY <1>0, <1>1, <2>1, <3>2 DEF PlaceType
    <3>4. Of(h[m])' = Of(f[m])
      BY <3>3 DEF Goes
    <3>5. Of(f[m]) = btc.ev.bda
      BY <2>1, <3>3 DEF Links, Match
    <3>6. dev'[s].handle = btc.ev.bda
      BY <1>1, MarkedDevices
    <3> QED BY <3>3, <3>4, <3>5, <3>6
  <2>3. CASE btc' = [btc EXCEPT !.pc = "fail", !.ok = FALSE]
    <3>1. btc'.pc = "fail" /\ btc'.dev = btc.dev
      BY <1>0, <2>3, StepIs DEF Steps
    <3> QED BY <1>1, <3>1
  <2> QED BY <1>1, <2>2, <2>3 DEF OpenLink
<1>2. CASE ~(OpenLink /\ s = btc.dev)
  <2>0. Needs(s) /\ dev'[s].handle = dev[s].handle
        /\ (Describe /\ s = btc.dev => btc'.pc = "fail" /\ btc'.dev = s)
    BY <1>2, NeedsStep
  <2>1. ASSUME NEW m \in DOMAIN Cq, Cq[m] = s, Of(f[m]) = dev[s].handle
        PROVE  \/ \E i \in DOMAIN Cq' : Cq'[i] = s /\ Of(h[i])' = dev'[s].handle
               \/ btc'.dev = s /\ btc'.pc \in {"exists", "describe", "fail"}
    <3>1. CASE \E i \in DOMAIN Cq' : i + n = m
      <4>1. PICK i \in DOMAIN Cq' : i + n = m
        BY <3>1
      <4>2. Cq'[i] = Cq[m] /\ Of(h[i])' = Of(f[m])
        BY <4>1 DEF Goes
      <4> QED BY <2>0, <2>1, <4>2
    <3>2. CASE Fetches /\ m = 1
      <4>1. Head(Cq) = Cq[1] /\ btc'.dev = Head(Cq) /\ btc'.pc = "exists"
        BY <1>0, <3>2 DEF Fetches
      <4> QED BY <2>1, <3>2, <4>1
    <3>3. CASE Skips /\ m = Len(Cq)
      <4>1. Cq = Append(cq, btc.dev) /\ btc'.dev = btc.dev /\ btc'.pc = "fail"
        BY <3>3 DEF Skips, Cq
      <4>2. Cq[Len(Cq)] = btc.dev
        BY <1>0, <4>1 DEF PlaceType
      <4> QED BY <2>1, <3>3, <4>1, <4>2
    <3> QED BY <3>1, <3>2, <3>3, IndexStep
  <2>2. CASE btc.dev = s /\ btc.pc \in {"exists", "describe", "fail"}
    <3>1. CASE UNCHANGED btc
      BY <2>2, <3>1
    <3>2. CASE Btc
      <4>1. DscpExists \/ Describe \/ OpenFailed
        BY <2>2, <3>2 DEF Btc, OpenEvt, OpenLink, OpenFailed, Status, PostEvent, DscpEvt, DscpExists,
                   Describe, AddDevEvt, AddDev, CloseEvt, Close, AnswerEvt, Answer, ResetTrans,
                   DataEvt, Data, Take, At
      <4>2. CASE DscpExists
        <5>1. Listed(btc.dev) /\ btc' = [btc EXCEPT !.pc = "describe"] /\ "describe" \in Steps
          BY <2>0, <2>2, <4>2 DEF DscpExists, Needs, Steps, Working
        <5>2. btc'.pc = "describe" /\ btc'.dev = btc.dev
          BY <1>0, <5>1, StepIs
        <5> QED BY <2>2, <5>2
      <4>3. CASE Describe
        BY <2>0, <2>2, <4>3
      <4>4. CASE OpenFailed
        BY <1>0, <2>2, <4>4 DEF OpenFailed, Clean
      <4> QED BY <4>1, <4>2, <4>3, <4>4
    <3> QED BY <3>1, <3>2, Frames
  <2> QED BY <2>0, <2>1, <2>2 DEF Awaited
<1> QED BY <1>1, <1>2

\* The pairs are kept.
LEMMA PairStep ==
    ASSUME TypeInv, TypeInv', ListInv, EventInv, PairInv, Next \/ UNCHANGED vars, ~Reboot
    PROVE  PairInv'
<1>1. PICK f \in [DOMAIN Cq -> Described], g \in [Opens -> Described] :
         /\ Match(f, g) /\ Whole(f, g) /\ AddLast(f, g)
         /\ Clean => Awaited(f)
         /\ odd \cap {"skipped", "queued"} = {} => Owned(f)
  BY DEF PairInv
<1>2. Links(f, g)
  BY <1>1 DEF Links
<1>3. PICK n : n = IF Fetches THEN 1 ELSE 0
  OBVIOUS
<1>4. PICK h, k : Links(h, k)' /\ Goes(f, n, h)
  BY <1>2, <1>3, LinksStep
<1>5. odd \subseteq odd'
  BY OddGrows
<1>6. Clean' => Awaited(h)'
  <2> HAVE Clean'
  <2>1. Clean
    BY <1>5 DEF Clean
  <2> QED BY <1>1, <1>2, <1>3, <1>4, <2>1, AwaitedStep
<1>7. NoSkip' => Owned(h)'
  <2> HAVE NoSkip'
  <2>1. odd \cap {"skipped", "queued"} = {}
    BY <1>5 DEF NoSkip
  <2> QED BY <1>1, <1>2, <1>3, <1>4, <2>1, OwnedStep
<1>8. Match(h, k)' /\ Whole(h, k)' /\ AddLast(h, k)'
  BY <1>4 DEF Links
<1>9. h \in [DOMAIN Cq' -> Described'] /\ k \in [Opens' -> Described']
  BY <1>8 DEF Match
<1> QED BY <1>6, <1>7, <1>8, <1>9 DEF PairInv, NoSkip

\* If no device was skipped, the first descriptor is of the first device.
LEMMA FirstMatch ==
    ASSUME PlaceType, NEW f, NEW g, Links(f, g), "skipped" \notin odd, btq # <<>>, Head(btq).k = "dscp"
    PROVE  1 \in DOMAIN Cq /\ f[1] = 1 /\ Of(1) = Head(btq).bda
<1>0. Match(f, g) /\ Whole(f, g)
  BY DEF Links
<1>1. /\ Len(btq) \in Nat /\ Len(btq) >= 1 /\ Len(undescribed) \in Nat /\ Head(btq) = btq[1]
  BY DEF PlaceType
<1>2. 1 \in Described /\ Of(1) = Head(btq).bda
  BY <1>1 DEF Described, Of
<1>3. /\ \A i \in DOMAIN Cq : i \in Nat /\ i >= 1 /\ f[i] \in Nat /\ f[i] >= 1
      /\ \A j \in Opens : j \in Nat /\ j >= 1 /\ g[j] \in Nat /\ g[j] > j
      /\ DOMAIN Cq = 1 .. Len(Cq) /\ Len(Cq) \in Nat
  BY <1>0, LinksAre
<1>4. PICK i \in DOMAIN Cq : f[i] = 1
  BY <1>0, <1>2, <1>3 DEF Whole
<1>5. 1 \in DOMAIN Cq
  BY <1>3
<1>6. i # 1 => f[1] < f[i]
  BY <1>0, <1>3, <1>5 DEF Match
<1> QED BY <1>2, <1>3, <1>4, <1>5, <1>6

-----------------------------------------------------------------------------
(* The descriptor of a device is its own.                                  *)

\* A structure keeps its address until it is made anew.
LEMMA BdaStep ==
    ASSUME TypeInv, ListInv, Next \/ UNCHANGED vars, ~Reboot, NEW s \in Slots
    PROVE  dev'[s].bda = dev[s].bda \/ Blank(s)
<1>1. CASE ~Moves
  <2>1. Same(s)
    BY <1>1, DevicesStep
  <2> QED BY <2>1 DEF Same
<1>2. CASE OpenLink \/ OpenFailed \/ Close
  BY <1>2, MarkedDevices DEF Same
<1>3. CASE OpenEvt \/ AppCtor
  <2>1. \/ UNCHANGED dev
        \/ \E r \in Slots, b \in Bdas : Ctor(r, b)
    <3>1. CASE OpenEvt
      <4>1. Head(btq).bda \in Bdas
        BY <3>1, TakeIs DEF OpenEvt, TypeInv
      <4> QED BY <3>1, <4>1 DEF OpenEvt
    <3>2. CASE AppCtor
      <4>1. app.op \in Bdas
        BY <3>2 DEF AppCtor, TypeInv, TaskType, AppType
      <4> QED BY <3>2, <4>1 DEF AppCtor
    <3> QED BY <1>3, <3>1, <3>2
  <2>2. ASSUME NEW r \in Slots, NEW b \in Bdas, Ctor(r, b)
        PROVE  dev'[s].bda = dev[s].bda \/ Blank(s)
    <3>1. dev \in [Slots -> Device] /\ dev' = [dev EXCEPT ![r] = [Free EXCEPT !.live = TRUE, !.in_use = TRUE, !.bda = b]]
      BY <2>2, DeviceIs DEF TypeInv, Ctor
    <3>2. s = r => Blank(s)
      BY <3>1 DEF Blank, Free
    <3> QED BY <3>1, <3>2
  <2> QED BY <2>1, <2>2
<1>4. CASE FreeDevice
  <2>1. evt.dev \in Slots /\ (dev' = dev \/ dev' = [dev EXCEPT ![evt.dev] = Free]) /\ dev \in [Slots -> Device]
    BY <1>4, DeviceIs DEF FreeDevice, TypeInv, TaskType, EvtType, memVars
  <2> QED BY <2>1 DEF Blank, Free
<1> QED BY <1>1, <1>2, <1>3, <1>4 DEF Moves

\* Each step keeps what a descriptor is stored in.
LEMMA OwnStep ==
    ASSUME TypeInv, TypeInv', ListInv, PairInv, OwnInv, Next \/ UNCHANGED vars, ~Reboot
    PROVE  OwnInv'
<1>0. TaskType /\ QueueType /\ PlaceType /\ odd \subseteq odd'
  BY PlaceIs, OddGrows DEF TypeInv
<1> SUFFICES ASSUME NoSkip'
             PROVE  /\ \A s \in Slots : dev'[s].reports \in {"none", dev'[s].bda}
                    /\ btc'.pc \in {"exists", "describe"} =>
                          dev'[btc'.dev].bda = btc'.ev.bda \/ ~dev'[btc'.dev].connected
                    /\ btc'.pc # "dequeue"
  BY DEF OwnInv, NoSkip
<1>1. /\ \A s \in Slots : dev[s].reports \in {"none", dev[s].bda}
      /\ btc.pc \in {"exists", "describe"} => dev[btc.dev].bda = btc.ev.bda \/ ~dev[btc.dev].connected
      /\ btc.pc # "dequeue" /\ "skipped" \notin odd /\ odd \cap {"skipped", "queued"} = {}
  BY <1>0 DEF OwnInv, NoSkip
<1>2. PICK f, g : Links(f, g) /\ Owned(f)
  BY <1>1 DEF PairInv, Links
<1>3. ASSUME NEW s \in Slots PROVE dev'[s].reports \in {"none", dev'[s].bda}
  <2>1. CASE Describes(s) /\ dev[s].connected /\ dev'[s].reports = btc.ev.bda
    <3>1. btc.pc = "describe" /\ s = btc.dev
      BY <2>1 DEF Describes, Describe, At
    <3> QED BY <1>1, <2>1, <3>1, BdaStep DEF Blank
  <2>2. CASE dev'[s].reports = dev[s].reports
    BY <1>1, <2>2, BdaStep DEF Blank
  <2> QED BY <2>1, <2>2, BareStep DEF Bare, Blank, Describes
<1>4. ASSUME btc'.pc \in {"exists", "describe"}
      PROVE  dev'[btc'.dev].bda = btc'.ev.bda \/ ~dev'[btc'.dev].connected
  <2>1. CASE ~Btc
    <3>1. UNCHANGED btc
      BY <2>1, Frames
    <3>2. PICK d \in Slots : d = btc.dev
      BY <1>0, <1>4, <3>1 DEF TaskType, BtcType, Working
    <3>3. dev'[d].connected => dev[d].connected
      BY <2>1, BareStep DEF Bare, Blank, Describes, Btc
    <3> QED BY <1>1, <1>4, <3>1, <3>2, <3>3, BdaStep DEF Blank
  <2>2. CASE DscpEvt /\ cq # <<>> /\ btc'.pc = "exists" /\ btc'.ev = Head(btq) /\ btc'.dev = Head(cq)
    <3>1. btc.pc = "idle" /\ btq # <<>> /\ Head(btq).k = "dscp" /\ UNCHANGED dev
      BY <2>2 DEF DscpEvt, Take
    <3>2. 1 \in DOMAIN Cq /\ f[1] = 1 /\ Of(1) = Head(btq).bda
      BY <1>0, <1>1, <1>2, <3>1, FirstMatch
    <3>3. dev[Cq[1]].bda = Of(f[1])
      BY <1>2, <3>1, <3>2 DEF Owned
    <3>4. Cq[1] = Head(cq)
      BY <1>0, <2>2, <3>1 DEF Cq, PlaceType
    <3> QED BY <2>2, <3>1, <3>2, <3>3, <3>4
  <2>3. CASE DscpExists /\ btc'.ev = btc.ev /\ btc'.dev = btc.dev
    <3>1. btc.pc = "exists" /\ UNCHANGED dev
      BY <2>3 DEF DscpExists
    <3> QED BY <1>1, <2>3, <3>1
  <2> QED BY <1>4, <2>1, <2>2, <2>3, PcIs
<1>5. btc'.pc # "dequeue"
  <2>1. CASE ~Btc
    BY <1>1, <2>1, Frames
  <2>2. CASE DscpEvt /\ cq = <<>>
    <3>1. btc.pc = "idle" /\ btq # <<>> /\ Head(btq).k = "dscp"
      BY <2>2 DEF DscpEvt, Take
    <3>2. 1 \in DOMAIN Cq
      BY <1>0, <1>1, <1>2, <3>1, FirstMatch
    <3>3. Cq = <<>>
      BY <2>2, <3>1 DEF Cq
    <3> QED BY <3>2, <3>3
  <2>3. CASE Btc /\ ~(DscpEvt /\ cq = <<>>)
    BY <2>3, PcIs
  <2> QED BY <2>1, <2>2, <2>3
<1> QED BY <1>3, <1>4, <1>5

-----------------------------------------------------------------------------
(* The application is told of described devices.                           *)

\* A device leaves the list only to be freed, and what comes to it is blank.
LEMMA ListedStep ==
    ASSUME TypeInv, ListInv, Next \/ UNCHANGED vars, ~Reboot, NEW s \in Slots
    PROVE  /\ Listed(s) => Listed(s)' \/ (FreeDevice /\ s = evt.dev)
           /\ Listed(s)' => Listed(s) \/ Blank(s)
<1>1. CASE ~Moves
  BY <1>1, DevicesStep DEF Listed
<1>2. CASE OpenLink \/ OpenFailed \/ Close
  BY <1>2 DEF OpenLink, OpenFailed, Close, restOfBtc, Listed
<1>3. CASE OpenEvt \/ AppCtor
  <2>1. \/ UNCHANGED <<dev, list>>
        \/ \E r \in Slots, b \in Bdas : Ctor(r, b)
    <3>1. CASE OpenEvt
      <4>1. Head(btq).bda \in Bdas
        BY <3>1, TakeIs DEF OpenEvt, TypeInv
      <4> QED BY <3>1, <4>1 DEF OpenEvt
    <3>2. CASE AppCtor
      <4>1. app.op \in Bdas
        BY <3>2 DEF AppCtor, TypeInv, TaskType, AppType
      <4> QED BY <3>2, <4>1 DEF AppCtor
    <3> QED BY <1>3, <3>1, <3>2
  <2>2. CASE UNCHANGED <<dev, list>>
    BY <2>2 DEF Listed
  <2>3. ASSUME NEW r \in Slots, NEW b \in Bdas, Ctor(r, b)
        PROVE  /\ Listed(s) => Listed(s)'
               /\ Listed(s)' => Listed(s) \/ Blank(s)
    <3>1. Listed(s)' <=> Listed(s) \/ s = r
      BY <2>3, CtorSets
    <3>2. dev \in [Slots -> Device] /\ dev' = [dev EXCEPT ![r] = [Free EXCEPT !.live = TRUE, !.in_use = TRUE, !.bda = b]]
      BY <2>3, DeviceIs DEF TypeInv, Ctor
    <3>3. s = r => Blank(s)
      BY <3>2 DEF Blank, Free
    <3> QED BY <3>1, <3>3
  <2> QED BY <2>1, <2>2, <2>3
<1>4. CASE FreeDevice
  <2>1. \/ UNCHANGED <<dev, list>>
        \/ \A r \in Slots : Listed(r)' <=> Listed(r) /\ r # evt.dev
    BY <1>4, FreeSets
  <2>2. CASE UNCHANGED <<dev, list>>
    BY <2>2 DEF Listed
  <2>3. CASE \A r \in Slots : Listed(r)' <=> Listed(r) /\ r # evt.dev
    BY <1>4, <2>3
  <2> QED BY <2>1, <2>2, <2>3
<1> QED BY <1>1, <1>2, <1>3, <1>4 DEF Moves

\* A described device stays so until it is freed.
LEMMA ShownStep ==
    ASSUME TypeInv, ListInv, EventInv, Next \/ UNCHANGED vars, ~Reboot, NEW s \in Slots,
           Shown(s), ~(FreeDevice /\ s = evt.dev)
    PROVE  Shown(s)'
<1>1. Listed(s)' /\ dev[s].live /\ dev[s].reports # "none"
  BY ListedStep DEF Shown, ListInv, Listed, ToSet
<1>2. Describes(s) => btc.ev.bda # "none"
  BY BtAssumption DEF Describes, Describe, At, EventInv
<1>3. dev'[s].reports # "none"
  BY <1>1, <1>2, BareStep DEF Bare, Describes
<1> QED BY <1>1, <1>3 DEF Shown

\* Each step.
LEMMA OpenStep ==
    ASSUME BtInv, BtInv', EventInv, PairInv, OpenInv, Next \/ UNCHANGED vars, ~Reboot
    PROVE  OpenInv'
<1> SUFFICES ASSUME Clean'
             PROVE  /\ \A s \in Slots : Listed(s)' /\ dev'[s].added =>
                          dev'[s].reports # "none" \/ (btc'.pc = "fail" /\ btc'.dev = s)
                    /\ btc'.pc = "add" => dev'[btc'.dev].reports # "none"
                    /\ btc'.pc = "post" /\ btc'.out.e = "open" /\ btc'.out.ok =>
                          Shown(btc.out.dev)' /\ dev'[btc'.out.dev].in_use
                    /\ \A i \in DOMAIN queue' : queue'[i].e = "open" /\ queue'[i].ok =>
                          /\ Shown(queue[i].dev)'
                          /\ ~(evt'.pc = "free" /\ evt'.dev = queue'[i].dev)
                          /\ \A j \in 1 .. i - 1 : ~Frees(queue'[j], queue'[i].dev)
  BY DEF OpenInv, Frees
<1>0. odd \subseteq odd' /\ Clean /\ "failed" \notin odd'
  BY OddGrows DEF Clean
<1>1. TypeInv /\ ListInv /\ FreeInv /\ CallbackInv /\ QueueType /\ DeviceType /\ TaskType
  BY <1>0 DEF BtInv, CleanInv, TypeInv
<1>2. /\ \A s \in Slots : Listed(s) /\ dev[s].added =>
            dev[s].reports # "none" \/ (btc.pc = "fail" /\ btc.dev = s)
      /\ btc.pc = "add" => dev[btc.dev].reports # "none"
      /\ btc.pc = "post" /\ btc.out.e = "open" /\ btc.out.ok =>
            Shown(btc.out.dev) /\ dev[btc.out.dev].in_use
      /\ \A i \in DOMAIN queue : queue[i].e = "open" /\ queue[i].ok =>
            /\ Shown(queue[i].dev)
            /\ ~(evt.pc = "free" /\ evt.dev = queue[i].dev)
            /\ \A j \in 1 .. i - 1 : ~Frees(queue[j], queue[i].dev)
  BY <1>0 DEF OpenInv, Frees
<1>3. \A s : Shown(s) => s \in Slots
  BY <1>1 DEF Shown, Listed, ToSet, DeviceType
<1>4. \A s \in Slots : dev[s].in_use => ~(FreeDevice /\ s = evt.dev)
  BY <1>1 DEF FreeInv, Freeing, FreeDevice
<1>5. ASSUME NEW s \in Slots, Listed(s)', dev'[s].added
      PROVE  dev'[s].reports # "none" \/ (btc'.pc = "fail" /\ btc'.dev = s)
  <2>1. ~Blank(s) /\ Listed(s)
    BY <1>1, <1>5, ListedStep DEF Blank
  <2>2. CASE dev'[s].reports = dev[s].reports /\ dev'[s].added = dev[s].added
    <3>1. CASE btc.pc = "fail" /\ btc.dev = s
      <4>1. ~OpenFailed
        BY <1>0, <3>1, BtAssumption DEF OpenFailed
      <4>2. ~Btc
        BY <3>1, <4>1 DEF Btc, OpenEvt, OpenLink, OpenFailed, Status, PostEvent, DscpEvt, DscpExists,
                   Describe, AddDevEvt, AddDev, CloseEvt, Close, AnswerEvt, Answer, ResetTrans,
                   DataEvt, Data, Take, At
      <4> QED BY <3>1, <4>2, Frames
    <3> QED BY <1>2, <1>5, <2>1, <2>2, <3>1
  <2>3. CASE Describes(s)
    <3>1. btc.ev.bda # "none"
      BY <2>3, BtAssumption DEF Describes, Describe, At, EventInv
    <3>2. dev'[s].reports = btc.ev.bda \/ (btc'.pc = "fail" /\ btc'.dev = s)
      BY <2>3 DEF Describes
    <3> QED BY <3>1, <3>2
  <2>4. CASE AddDev /\ s = btc.dev /\ dev'[s].reports = dev[s].reports
    BY <1>2, <2>4 DEF AddDev, At
  <2> QED BY <1>1, <2>1, <2>2, <2>3, <2>4, BareStep DEF Bare
<1>6. ASSUME btc'.pc = "add"
      PROVE  dev'[btc'.dev].reports # "none"
  <2>1. CASE ~Btc
    <3>1. UNCHANGED btc
      BY <2>1, Frames
    <3>2. PICK d \in Slots : btc.dev = d /\ Listed(d) /\ dev[d].in_use
      BY <1>1, <1>6, <3>1 DEF CallbackInv, Found, Working, WorksOn
    <3>3. Shown(d)
      BY <1>2, <1>6, <3>1, <3>2 DEF Shown
    <3>4. Shown(d)'
      BY <1>1, <1>4, <3>2, <3>3, ShownStep
    <3> QED BY <3>1, <3>2, <3>4 DEF Shown
  <2>2. CASE /\ AddDevEvt /\ ByHandle(Head(btq).bda) # "none"
             /\ btc'.dev = ByHandle(Head(btq).bda)
    <3>1. /\ btc.pc = "idle" /\ UNCHANGED dev /\ Head(btq).bda \in Bdas /\ Head(btq) = btq[1]
          /\ 1 \in DOMAIN btq /\ Head(btq).k = "add"
      BY <1>1, <2>2, TakeIs DEF AddDevEvt, Take
    <3>2. PICK d \in Slots : d = btc'.dev /\ Listed(d) /\ dev[d].handle = Head(btq).bda
      BY <1>1, <2>2, <3>1, ByHandleIs
    <3>3. ASSUME dev[d].reports = "none" PROVE FALSE
      <4>1. Needs(d)
        BY <3>1, <3>2, <3>3, BtAssumption DEF Needs
      <4>2. PICK f, g : Match(f, g) /\ AddLast(f, g) /\ Awaited(f)
        BY <1>0 DEF PairInv
      <4>3. PICK i \in DOMAIN Cq : Of(f[i]) = dev[d].handle
        BY <3>1, <4>1, <4>2 DEF Awaited
      <4>4. f[i] < 1
        BY <3>1, <3>2, <4>2, <4>3 DEF AddLast
      <4>5. f[i] \in Nat /\ f[i] >= 1
        BY <1>1, <4>2, PlaceIs, LinksAre
      <4> QED BY <4>4, <4>5
    <3> QED BY <3>1, <3>2, <3>3
  <2> QED BY <1>1, <1>6, <2>1, <2>2, PcIs
<1>7. ASSUME btc'.pc = "post", btc'.out.e = "open", btc'.out.ok
      PROVE  Shown(btc.out.dev)' /\ dev'[btc'.out.dev].in_use
  <2>1. CASE ~Btc
    <3>1. UNCHANGED btc
      BY <2>1, Frames
    <3>2. PICK d \in Slots : btc.out.dev = d /\ Shown(d) /\ dev[d].in_use
      BY <1>2, <1>3, <1>7, <3>1
    <3>3. Shown(d)'
      BY <1>1, <1>4, <3>2, ShownStep
    <3>4. dev'[d].in_use
      <4>1. Listed(d) /\ ~Close
        BY <2>1, <3>2 DEF Shown, Btc
      <4> QED BY <1>0, <3>2, <4>1, InUseStep
    <3> QED BY <3>1, <3>2, <3>3, <3>4
  <2>2. CASE Btc
    <3>1. Status /\ btc'.out.dev = btc.dev
      BY <1>1, <1>7, <2>2, PostedIs
    <3>2. btc.pc = "status" /\ UNCHANGED <<dev, list>>
      BY <3>1 DEF Status, At, restOfBtc
    <3>3. PICK d \in Slots : btc.dev = d /\ Listed(d) /\ dev[d].in_use
      BY <1>1, <3>2 DEF CallbackInv, Found, Working, WorksOn
    <3>4. dev[d].added
      <4>1. btc' # Idle
        BY <1>7, IdleIs
      <4> QED BY <3>1, <3>3, <4>1 DEF Status
    <3>5. dev[d].reports # "none"
      BY <1>2, <3>2, <3>3, <3>4
    <3>6. Shown(d)'
      BY <3>2, <3>3, <3>5 DEF Shown, Listed
    <3> QED BY <3>1, <3>2, <3>3, <3>6
  <2> QED BY <2>1, <2>2
<1>8. ASSUME NEW i \in DOMAIN queue', queue'[i].e = "open", queue'[i].ok
      PROVE  /\ Shown(queue[i].dev)'
             /\ ~(evt'.pc = "free" /\ evt'.dev = queue'[i].dev)
             /\ \A j \in 1 .. i - 1 : ~Frees(queue'[j], queue'[i].dev)
  <2>0. queue \in Seq(Message) /\ Len(queue) \in Nat
    BY <1>1 DEF QueueType
  <2>1. CASE PostEvent
    <3>1. btc.pc = "post" /\ queue' = Append(queue, btc.out) /\ UNCHANGED <<dev, list, evt>>
      BY <2>1 DEF PostEvent, restOfBtc, taskVars
    <3>2. PICK n \in Nat : n = Len(queue) + 1
      BY <2>0
    <3>3. /\ \A j \in DOMAIN queue : queue'[j] = queue[j]
          /\ queue'[n] = btc.out /\ DOMAIN queue' = 1 .. n /\ DOMAIN queue = 1 .. n - 1
      BY <2>0, <3>1, <3>2
    <3>4. CASE i \in DOMAIN queue
      <4>1. PICK d \in Slots : d = queue[i].dev /\ Shown(d)
        BY <1>2, <1>3, <1>8, <3>3, <3>4
      <4>2. queue'[i].dev = d /\ Shown(d)'
        BY <3>1, <3>3, <3>4, <4>1 DEF Shown, Listed
      <4>3. \A j \in 1 .. i - 1 : ~Frees(queue[j], d) /\ j \in DOMAIN queue
        BY <1>2, <1>8, <3>2, <3>3, <3>4, <4>1
      <4>4. ~(evt.pc = "free" /\ evt.dev = d)
        BY <1>2, <1>8, <3>3, <3>4, <4>1
      <4> QED BY <3>1, <3>3, <4>2, <4>3, <4>4
    <3>5. CASE i = n
      <4>1. PICK d \in Slots : d = btc.out.dev /\ Shown(d) /\ dev[d].in_use
        BY <1>2, <1>3, <1>8, <3>1, <3>3, <3>5
      <4>2. queue'[i].dev = d /\ Shown(d)'
        BY <3>1, <3>3, <3>5, <4>1 DEF Shown, Listed
      <4>3. ~Freeing(d) /\ \A j \in DOMAIN queue : ~Frees(queue[j], d)
        BY <1>1, <4>1 DEF FreeInv
      <4> QED BY <3>1, <3>3, <3>5, <4>2, <4>3 DEF Freeing
    <3> QED BY <3>2, <3>3, <3>4, <3>5
  <2>2. CASE TakeEvent
    <3>1. queue # <<>> /\ queue' = Tail(queue) /\ UNCHANGED <<dev, list>> /\ Head(queue) = queue[1]
      BY <2>0, <2>2 DEF TakeEvent, memVars
    <3>2. \A j \in DOMAIN queue' : j \in Nat /\ j >= 1 /\ j + 1 \in DOMAIN queue /\ queue'[j] = queue[j + 1]
      BY <2>0, <3>1
    <3>3. PICK m \in DOMAIN queue : m = i + 1 /\ queue'[i] = queue[m]
      BY <3>2
    <3>4. PICK d \in Slots : d = queue[m].dev /\ Shown(d)
      BY <1>2, <1>3, <1>8, <3>3
    <3>5. \A j \in 1 .. m - 1 : ~Frees(queue[j], d)
      BY <1>2, <1>8, <3>3, <3>4
    <3>6. ~Frees(queue[1], d)
      BY <3>2, <3>3, <3>5
    <3>7. \A j \in 1 .. i - 1 : ~Frees(queue'[j], d)
      <4> TAKE j \in 1 .. i - 1
      <4>1. j \in DOMAIN queue' /\ j + 1 \in 1 .. m - 1
        BY <2>0, <3>1, <3>2, <3>3
      <4>2. queue'[j] = queue[j + 1]
        BY <3>2, <4>1
      <4> QED BY <3>5, <4>1, <4>2
    <3>8. ~(evt'.pc = "free" /\ evt'.dev = d)
      BY <2>2, <3>1, <3>6 DEF TakeEvent, Resting, Frees
    <3>9. queue'[i].dev = d /\ Shown(d)'
      BY <3>1, <3>3, <3>4 DEF Shown, Listed
    <3> QED BY <3>7, <3>8, <3>9
  <2>3. CASE ~PostEvent /\ ~TakeEvent
    <3>1. UNCHANGED queue
      BY <2>3, Frames
    <3>2. PICK d \in Slots : d = queue[i].dev /\ Shown(d) /\ ~(evt.pc = "free" /\ evt.dev = d)
      BY <1>2, <1>3, <1>8, <3>1
    <3>3. Shown(d)'
      BY <1>1, <3>2, ShownStep DEF FreeDevice
    <3>4. ~(evt'.pc = "free" /\ evt'.dev = d)
      <4>1. FreeDevice => evt'.pc # "free"
        BY <1>1 DEF FreeDevice, Resting, TaskType, EvtType
      <4> QED BY <2>3, <3>2, <4>1, Frames
    <3> QED BY <1>2, <1>8, <3>1, <3>2, <3>3, <3>4
  <2> QED BY <2>1, <2>2, <2>3
<1> QED BY <1>5, <1>6, <1>7, <1>8

-----------------------------------------------------------------------------
(* The theorems on descriptors.                                            *)

PairingInv == EventInv /\ PairInv /\ OwnInv /\ OpenInv

\* esp_bt_hidh_init, at the start and after a reset.
Fresh ==
    /\ dev = [s \in Slots |-> Free] /\ list = <<>> /\ queue = <<>> /\ cq = <<>> /\ btc = Idle
    /\ btq = <<>> /\ undescribed = <<>>

\* The invariant holds of it.
LEMMA FreshIs == Fresh => PairingInv
<1> SUFFICES ASSUME Fresh PROVE PairingInv
  OBVIOUS
<1>1. /\ \A s \in Slots : dev[s].reports = "none" /\ dev[s].handle = "none" /\ ~Listed(s)
      /\ btc.pc = "idle"
  BY IdleIs DEF Fresh, Free, Listed, ToSet
<1>2. Cq = <<>> /\ DOMAIN Cq = {} /\ Opens = {} /\ Described = {} /\ DOMAIN btq = {} /\ DOMAIN queue = {}
  BY <1>1 DEF Fresh, Cq, Opens, Described
<1>3. PairInv
  <2> PICK f \in [DOMAIN Cq -> Described], g \in [Opens -> Described] : TRUE
    <3>1. [x \in {} |-> x] \in [DOMAIN Cq -> Described] /\ [x \in {} |-> x] \in [Opens -> Described]
      BY <1>2
    <3> QED BY <3>1
  <2>1. Match(f, g) /\ Whole(f, g) /\ AddLast(f, g)
    BY <1>1, <1>2 DEF Match, Whole, AddLast
  <2>2. Awaited(f) /\ Owned(f)
    BY <1>1, <1>2 DEF Awaited, Owned, Needs
  <2> QED BY <2>1, <2>2 DEF PairInv
<1>4. EventInv /\ OwnInv /\ OpenInv
  BY <1>1, <1>2 DEF EventInv, OwnInv, OpenInv
<1> QED BY <1>3, <1>4 DEF PairingInv

\* The same for the next state.
LEMMA FreshThen == Fresh' => PairingInv'
BY FreshIs, PTL

\* The inductive invariant.
LEMMA PairingInvariant == Spec => [](BtInv /\ PairingInv)
<1>1. Init => BtInv /\ PairingInv
  BY BtInit, FreshIs DEF Init, Fresh
<1>2. ASSUME BtInv, PairingInv, Next \/ UNCHANGED vars
      PROVE  BtInv' /\ PairingInv'
  <2>1. BtInv'
    BY <1>2, BtStep
  <2>2. CASE Reboot
    BY <2>1, <2>2, FreshThen DEF Reboot, Fresh
  <2>3. CASE ~Reboot
    <3>1. TypeInv /\ ListInv /\ TypeInv' /\ EventInv /\ PairInv /\ OwnInv /\ OpenInv
      BY <1>2, <2>1 DEF BtInv, PairingInv
    <3>2. EventInv' /\ PairInv'
      BY <1>2, <2>3, <3>1, EventStep, PairStep
    <3>3. OwnInv'
      BY <1>2, <2>3, <3>1, OwnStep
    <3>4. OpenInv'
      BY <1>2, <2>1, <2>3, <3>1, OpenStep
    <3> QED BY <2>1, <3>2, <3>3, <3>4 DEF PairingInv
  <2> QED BY <2>2, <2>3
<1>3. (BtInv /\ PairingInv) /\ [Next]_vars => (BtInv /\ PairingInv)'
  BY <1>2
<1> QED BY <1>1, <1>3, PTL DEF Spec

\* A descriptor is stored in the device that it describes, as long as no connection was
\* skipped and no queued device was freed (bt_hidh.c, OPEN_EVT and GET_DSCP_EVT).
THEOREM descriptor_of_its_own == Spec => []DescriptorOfItsOwn
<1>1. OwnInv => DescriptorOfItsOwn
  BY DEF OwnInv, DescriptorOfItsOwn
<1> QED BY <1>1, PairingInvariant, PTL DEF PairingInv

\* The event that tells the application of an open device is about one that is there, with
\* its reports, unless an open failed or a closed device was connected again (bt_hidh.c,
\* GET_DSCP_EVT and ADD_DEV_EVT).
THEOREM open_is_described == Spec => []OpenIsDescribed
<1>1. BtInv /\ OpenInv => OpenIsDescribed
  <2> SUFFICES ASSUME BtInv, OpenInv, Clean, NEW i \in DOMAIN queue, queue[i].e = "open", queue[i].ok
               PROVE  dev[queue[i].dev].live /\ dev[queue[i].dev].reports # "none"
    BY DEF OpenIsDescribed, Clean
  <2>1. Shown(queue[i].dev)
    BY DEF OpenInv
  <2>2. PICK d : d = queue[i].dev
    OBVIOUS
  <2>3. Listed(d) /\ dev[d].reports # "none"
    BY <2>1, <2>2 DEF Shown
  <2>4. dev[d].live
    BY <2>3 DEF BtInv, ListInv, Listed, ToSet
  <2> QED BY <2>2, <2>3, <2>4
<1> QED BY <1>1, PairingInvariant, PTL DEF PairingInv
-----------------------------------------------------------------------------
(* The answer of a GET_REPORT.                                             *)

\* A device is about to get its link.
Opening == btc.pc = "open" /\ "btc" \notin dangling /\ Unlocked(btc.dev)
\* What is known of the links, whatever went wrong.
LinkInv ==
    /\ HandleInv /\ StackInv
    /\ \A s \in Slots : dev[s].connected =>
          dev[s].live /\ dev[s].bda \in Bdas /\ dev[s].handle = dev[s].bda
    /\ evt.pc = "destroy" => evt.dev \in held
    /\ Opening => /\ Listed(btc.dev) /\ IsFirst(btc.dev)
                  /\ btc.ev.bda \in Bdas /\ dev[btc.dev].bda = btc.ev.bda

\* Only late answers and timeouts, and requests on a new link, are excused.
Calm == odd \cap {"late", "new_link"} = {}

\* The places of the requests for a report of b, in the order in which esp_hh_cb will
\* hear of them: the answers of the backlog, and behind it the requests that wait for
\* the stack.
Pending(b) == {p \in 1 .. Len(btq) + Len(asked[b]) :
    IF p <= Len(btq)
    THEN btq[p].k = "answer" /\ btq[p].bda = b /\ btq[p].op = "get_report"
    ELSE asked[b][p - Len(btq)].op = "get_report"}
IdOf(p, b) == IF p <= Len(btq) THEN btq[p].id ELSE asked[b][p - Len(btq)].id
\* There is at most one, and its link is open.
WaitInv ==
    \A b \in Bdas :
        /\ \A p, q \in Pending(b) : p = q
        /\ \A p \in Pending(b), j \in DOMAIN btq : IsOpen(j, b) => p < j

\* The device that is to hear the answer has the link, or is about to get it.
Hears(s, b) ==
    \/ Listed(s) /\ dev[s].handle = b
    \/ Opening /\ btc.dev = s /\ btc.ev.bda = b
\* It remembers the request.
RememberInv ==
    \A s \in Slots, b \in Bdas : \A p \in Pending(b) :
        Hears(s, b) => dev[s].trans = "get_report" /\ dev[s].report_id = IdOf(p, b)

\* A GET_REPORT has no timer.
TimerInv ==
    /\ \A s \in Slots : dev[s].timer => dev[s].trans \in TimedOps
    /\ tmr.pc = "reset" => tmr.op \in TimedOps

\* esp_hh_cb is at an answer, up to reset_trans.
Answering ==
    /\ btc.pc \in {"answer", "reset"} \/ (btc.pc = "post" /\ btc.out.e = "feature")
    /\ btc.ev.op = "get_report" /\ "btc" \notin dangling /\ Unlocked(btc.dev)
AnsweringInv ==
    Answering =>
        /\ Listed(btc.dev) /\ btc.ev.bda \in Bdas /\ dev[btc.dev].handle = btc.ev.bda
        /\ dev[btc.dev].trans = "get_report"
        /\ btc.pc = "answer" => dev[btc.dev].report_id = btc.ev.id
        /\ Pending(btc.ev.bda) = {}

\* An answer that is posted, or is to be, is whole.
WholeAnswer(m) == m.op = "get_report" /\ m.ok => m.id = m.want
WholeInv == WholeAnswer(btc.out) /\ \A i \in DOMAIN queue : WholeAnswer(queue[i])

CalmInv == Calm => WaitInv /\ RememberInv /\ TimerInv /\ AnsweringInv /\ WholeInv
-----------------------------------------------------------------------------
(* The links.                                                              *)

\* The event of a new link is found by OpenEvt alone.
LEMMA OpeningIs ==
    ASSUME TypeInv, Btc, btc'.pc = "open"
    PROVE  OpenEvt /\ btc'.ev = Head(btq) /\ Head(btq).k = "open" /\ Head(btq).bda \in Bdas
<1>0. TaskType /\ btc \in Callback
  BY DEF TypeInv, TaskType, BtcType
<1>1. ASSUME NEW out, Post(out) PROVE btc'.pc = "post"
  <2>1. "pc" \in DOMAIN btc
    BY <1>0 DEF Callback
  <2> QED BY <1>1, <2>1 DEF Post
<1>2. ASSUME NEW p \in Steps, btc' = [btc EXCEPT !.pc = p] \/ btc' = [btc EXCEPT !.pc = p, !.out = NoPost]
                              \/ btc' = [btc EXCEPT !.pc = p, !.dev = "none"]
                              \/ \E good \in BOOLEAN : btc' = [btc EXCEPT !.pc = p, !.ok = good]
      PROVE  btc'.pc = p
  BY <1>0, <1>2, StepIs
<1>4. \A p \in {"fail", "status", "reset", "describe"} : p \in Steps
  BY DEF Steps, Working
<1>5. CASE OpenEvt
  <2>1. Head(btq).bda \in Bdas /\ Head(btq).k = "open"
    BY <1>5, TakeIs DEF OpenEvt, TypeInv
  <2>2. \E p, d, good : Goto(p, Head(btq), d, good)
    BY <1>5 DEF OpenEvt
  <2> QED BY <1>5, <2>1, <2>2 DEF Goto
<1>6. CASE OpenLink \/ Describe \/ AddDev
  <2>1. \E p \in {"fail", "status"} :
           btc' = [btc EXCEPT !.pc = p] \/ \E good \in BOOLEAN : btc' = [btc EXCEPT !.pc = p, !.ok = good]
    BY <1>0, <1>6, BtcIs DEF OpenLink, Describe, AddDev
  <2> QED BY <1>2, <1>4, <2>1
<1>7. CASE OpenFailed \/ Status \/ Close \/ Data
  BY <1>1, <1>4, <1>7, IdleIs DEF OpenFailed, Status, Close, Data
<1>8. CASE PostEvent \/ Answer \/ ResetTrans
  BY <1>1, <1>2, <1>4, <1>8, IdleIs DEF PostEvent, Answer, ResetTrans
<1>9. CASE DscpEvt \/ AddDevEvt
  BY <1>9 DEF DscpEvt, AddDevEvt, Goto
<1>10. CASE DscpExists
  BY <1>2, <1>4, <1>10 DEF DscpExists
<1>12. CASE CloseEvt
  <2>1. CASE btc' = [Idle EXCEPT !.pc = "post", !.out = Told("close", "none", FALSE)]
    BY <2>1 DEF Idle
  <2> QED BY <1>12, <2>1 DEF CloseEvt, Goto
<1>13. CASE AnswerEvt \/ DataEvt
  BY <1>13, IdleIs DEF AnswerEvt, DataEvt, Goto
<1> QED BY <1>5, <1>6, <1>7, <1>8, <1>9, <1>10, <1>12, <1>13 DEF Btc

\* A device that esp_hh_cb may go on with is not freed under it.
LEMMA StaysListed ==
    ASSUME TypeInv, ListInv, Next \/ UNCHANGED vars, ~Reboot, Listed(btc.dev), UNCHANGED btc,
           Unlocked(btc.dev), "btc" \notin dangling'
    PROVE  Listed(btc.dev)' /\ ~(FreeDevice /\ btc.dev = evt.dev)
<1>1. btc.dev \in Slots
  BY DEF Listed, ToSet, TypeInv, DeviceType
<1>2. ~(FreeDevice /\ btc.dev = evt.dev)
  <2> SUFFICES ASSUME FreeDevice, btc.dev = evt.dev PROVE FALSE
    OBVIOUS
  <2>1. dangling' = dangling \cup {t \in {"btc", "app", "tmr"} : Pointer(t) = evt.dev}
    BY DEF FreeDevice
  <2>2. Pointer("btc") = evt.dev
    BY DEF Pointer
  <2> QED BY <2>1, <2>2
<1>3. PICK s \in Slots : s = btc.dev /\ Listed(s)
  BY <1>1
<1>4. Listed(s)'
  BY <1>2, <1>3, ListedStep
<1> QED BY <1>2, <1>3, <1>4

\* Two devices with the link of one address are one.
LEMMA OneHears ==
    ASSUME TypeInv, LinkInv, NEW b \in Bdas, NEW r \in Slots, NEW s \in Slots, Hears(r, b), Hears(s, b)
    PROVE  r = s
<1>1. \A q \in Slots : Hears(q, b) => Listed(q) /\ IsFirst(q) /\ dev[q].bda = b
  BY BtAssumption DEF LinkInv, HandleInv, Hears
<1>2. ByBda(b) = r /\ ByBda(b) = s
  BY <1>1, FirstIsFound
<1> QED BY <1>2

\* A device that has its link kept it, or gets it now.
LEMMA ConnectedStep ==
    ASSUME TypeInv, ListInv, Next \/ UNCHANGED vars, ~Reboot, NEW s \in Slots, dev'[s].connected
    PROVE  \/ OpenLink /\ s = btc.dev
           \/ /\ dev[s].connected /\ dev'[s].live = dev[s].live /\ dev'[s].bda = dev[s].bda
              /\ dev'[s].handle = dev[s].handle
<1>0. dev[s].connected \/ (OpenLink /\ s = btc.dev)
  BY BareStep DEF Bare, Blank, Describes
<1>1. CASE ~Moves
  BY <1>0, <1>1, DevicesStep DEF Same
<1>2. CASE OpenLink \/ OpenFailed \/ Close
  BY <1>0, <1>2, MarkedDevices DEF Same
<1>3. CASE OpenEvt \/ AppCtor
  <2>1. \/ UNCHANGED dev
        \/ \E r \in Slots, b \in Bdas : Ctor(r, b)
    <3>1. CASE OpenEvt
      <4>1. Head(btq).bda \in Bdas
        BY <3>1, TakeIs DEF OpenEvt, TypeInv
      <4> QED BY <3>1, <4>1 DEF OpenEvt
    <3>2. CASE AppCtor
      <4>1. app.op \in Bdas
        BY <3>2 DEF AppCtor, TypeInv, TaskType, AppType
      <4> QED BY <3>2, <4>1 DEF AppCtor
    <3> QED BY <1>3, <3>1, <3>2
  <2>2. ASSUME NEW r \in Slots, NEW b \in Bdas, Ctor(r, b) PROVE Same(s)
    <3>1. dev \in [Slots -> Device]
      BY DeviceIs DEF TypeInv
    <3>2. ~dev'[r].connected
      BY <2>2, <3>1 DEF Ctor, Free
    <3> QED BY <2>2, <3>2, CtorSets
  <2> QED BY <1>0, <2>1, <2>2 DEF Same
<1>4. CASE FreeDevice
  <2>1. CASE s # evt.dev \/ dev' = dev
    <3>1. \A r \in Slots \ {evt.dev} : Same(r)
      BY <1>4, FreeSets DEF Same
    <3> QED BY <1>0, <2>1, <3>1 DEF Same
  <2>2. CASE s = evt.dev /\ dev' # dev
    <3>1. dev \in [Slots -> Device]
      BY DeviceIs DEF TypeInv
    <3>2. dev' = [dev EXCEPT ![evt.dev] = Free]
      BY <1>4, <2>2 DEF FreeDevice, memVars
    <3> QED BY <2>2, <3>1, <3>2 DEF Free
  <2> QED BY <2>1, <2>2
<1> QED BY <1>1, <1>2, <1>3, <1>4 DEF Moves

\* The device that OpenEvt finds, or makes, is the first of its address.
LEMMA OpensFirst ==
    ASSUME TypeInv, ListInv, OpenEvt, NEW b \in Bdas, b = Head(btq).bda, NEW d \in Slots, btc'.dev = d
    PROVE  Listed(d)' /\ IsFirst(d)' /\ dev'[d].bda = b
<1>0. DeviceType
  BY DEF TypeInv
<1>1. CASE ByBda(b) # "none" /\ d = ByBda(b) /\ UNCHANGED <<dev, list>>
  <2>1. Listed(d) /\ IsFirst(d) /\ dev[d].bda = b
    BY <1>0, <1>1, ByBdaIs
  <2> QED BY <1>1, <2>1, FirstKept DEF Listed
<1>2. CASE ByBda(b) = "none" /\ Ctor(d, b)
  <2>1. /\ Listed(d)' /\ dev'[d].bda = b
        /\ list \in Seq(Slots) /\ list' \in Seq(Slots)
        /\ Len(list') = Len(list) + 1 /\ list'[Len(list) + 1] = d
        /\ \A i \in DOMAIN list : list'[i] = list[i]
        /\ ~Listed(d) /\ \A r \in Slots \ {d} : Same(r)
    BY <1>0, <1>2, CtorSets DEF DeviceType
  <2>2. \A r \in Slots : Listed(r) => dev[r].bda # b
    BY <1>0, <1>2, ByBdaIs
  <2>3. ASSUME NEW j \in 1 .. Len(list)
        PROVE  dev'[list'[j]].bda # dev'[d].bda
    <3>1. list[j] \in Slots /\ Listed(list[j]) /\ list'[j] = list[j] /\ list[j] # d
      BY <2>1 DEF Listed, ToSet
    <3> QED BY <2>1, <2>2, <3>1 DEF Same
  <2>4. Len(list) + 1 \in DOMAIN list' /\ (Len(list) + 1) - 1 = Len(list)
    BY <2>1
  <2> QED BY <2>1, <2>3, <2>4 DEF IsFirst
<1>3. "none" \notin Slots
  BY BtAssumption
<1> QED BY <1>1, <1>2, <1>3 DEF OpenEvt, Goto

\* The device that is about to get its link is the one that OpenEvt found.
LEMMA OpeningStep ==
    ASSUME TypeInv, TypeInv', ListInv, LinkInv, Next \/ UNCHANGED vars, ~Reboot, Opening'
    PROVE  /\ Listed(btc.dev)' /\ IsFirst(btc.dev)'
           /\ btc'.ev.bda \in Bdas /\ dev'[btc'.dev].bda = btc'.ev.bda
<1>0. PICK d \in Slots : d = btc'.dev
  BY DEF TypeInv, TaskType, BtcType, Opening, Working
<1>1. btc'.pc = "open" /\ "btc" \notin dangling' /\ d \notin held'
  BY <1>0 DEF Opening, Unlocked
<1>2. CASE Btc
  <2>1. OpenEvt /\ btc'.ev = Head(btq) /\ Head(btq).bda \in Bdas
    BY <1>1, <1>2, OpeningIs
  <2>2. Listed(d)' /\ IsFirst(d)' /\ dev'[d].bda = Head(btq).bda
    BY <1>0, <2>1, OpensFirst
  <2> QED BY <1>0, <2>1, <2>2
<1>3. CASE ~Btc
  <2>1. UNCHANGED <<btc, held>>
    BY <1>3, Frames DEF Btc
  <2>2. "btc" \notin dangling
    BY <1>1, <1>3, DanglingStep
  <2>3. d = btc.dev /\ Listed(d) /\ IsFirst(d) /\ btc.ev.bda \in Bdas /\ dev[d].bda = btc.ev.bda
    BY <1>0, <1>1, <2>1, <2>2 DEF LinkInv, Opening, Unlocked
  <2>4. Listed(btc.dev)' /\ ~(FreeDevice /\ btc.dev = evt.dev)
    BY <1>1, <2>1, <2>3, StaysListed DEF Unlocked
  <2>5. dev'[d].bda = dev[d].bda
    <3>1. dev[d].live
      BY <2>3 DEF ListInv, Listed, ToSet
    <3> QED BY <2>3, <2>4, <3>1, LiveStep
  <2>6. IsFirst(d)'
    <3>1. CASE FreeDevice
      BY <2>3, <2>4, <3>1, FirstFree
    <3>2. CASE AppCtor
      <4>1. app.op \in Bdas
        BY <3>2 DEF AppCtor, TypeInv, TaskType, AppType
      <4>2. CASE UNCHANGED <<dev, list>>
        BY <2>3, <4>2, FirstKept
      <4>3. ASSUME NEW s \in Slots, Ctor(s, app.op) PROVE IsFirst(d)'
        BY <2>3, <4>1, <4>3, FirstCtor
      <4> QED BY <3>2, <4>2, <4>3 DEF AppCtor
    <3>3. CASE ~Moves
      <4>1. UNCHANGED list /\ \A r \in Slots : dev'[r].bda = dev[r].bda
        BY <3>3, DevicesStep DEF Same
      <4> QED BY <2>3, <4>1, FirstKept
    <3> QED BY <1>3, <3>1, <3>2, <3>3 DEF Moves, Btc
  <2> QED BY <1>0, <2>1, <2>3, <2>4, <2>5, <2>6
<1> QED BY <1>2, <1>3

\* Every step keeps what is known of the links.
LEMMA LinkStep ==
    ASSUME TypeInv, TypeInv', ListInv, ListInv', LinkInv, Next \/ UNCHANGED vars, ~Reboot
    PROVE  LinkInv'
<1>1. OpenLink => Opening
  BY DEF OpenLink, At, Opening
<1>2. HandleInv' /\ StackInv'
  BY <1>1, HandleStep, StackStep DEF LinkInv
<1>3. ASSUME NEW s \in Slots, dev'[s].connected
      PROVE  dev'[s].live /\ dev'[s].bda \in Bdas /\ dev'[s].handle = dev'[s].bda
  <2>1. CASE OpenLink /\ s = btc.dev
    <3>1. Listed(s) /\ btc.ev.bda \in Bdas /\ dev[s].bda = btc.ev.bda
      BY <1>1, <2>1 DEF LinkInv
    <3>2. dev[s].live
      BY <3>1 DEF ListInv, Listed, ToSet
    <3> QED BY <2>1, <3>1, <3>2, MarkedDevices
  <2>2. CASE ~(OpenLink /\ s = btc.dev)
    BY <1>3, <2>2, ConnectedStep DEF LinkInv
  <2> QED BY <2>1, <2>2
<1>4. ASSUME evt'.pc = "destroy" PROVE evt'.dev \in held'
  <2>1. held \subseteq held'
    BY Frames DEF Answer
  <2>2. CASE UNCHANGED evt
    BY <1>4, <2>1, <2>2 DEF LinkInv
  <2>3. ~TakeEvent
    <3>1. \A x : [Resting EXCEPT !.pc = "free", !.dev = x].pc = "free" /\ Resting.pc = "idle"
      BY DEF Resting
    <3>2. TakeEvent => \E x : evt' = [Resting EXCEPT !.pc = "free", !.dev = x] \/ evt' = Resting
      BY DEF TakeEvent
    <3> QED BY <1>4, <3>1, <3>2
  <2>4. CASE FreeDevice
    <3>1. evt'.dev = evt.dev /\ ~Unlocked(evt.dev)
      BY <1>4, <2>4 DEF FreeDevice, Resting, TypeInv, TaskType, EvtType
    <3> QED BY <2>1, <3>1 DEF Unlocked
  <2> QED BY <2>2, <2>3, <2>4, Frames
<1>5. Opening' => /\ Listed(btc.dev)' /\ IsFirst(btc.dev)'
                  /\ btc'.ev.bda \in Bdas /\ dev'[btc'.dev].bda = btc'.ev.bda
  BY OpeningStep
<1> QED BY <1>2, <1>3, <1>4, <1>5 DEF LinkInv

-----------------------------------------------------------------------------
(* The requests on their way.                                              *)

\* The places of the requests.
LEMMA PendingIs ==
    ASSUME TypeInv, NEW b \in Bdas
    PROVE  /\ btq \in Seq(Event) /\ asked[b] \in Seq([op : Transactions, id : Nat])
           /\ Len(btq) \in Nat /\ Len(asked[b]) \in Nat
           /\ \A p \in Pending(b) : p \in Nat /\ p >= 1 /\ p <= Len(btq) + Len(asked[b])
<1>1. btq \in Seq(Event) /\ asked[b] \in Seq([op : Transactions, id : Nat])
  BY DEF TypeInv, QueueType, StackType
<1> QED BY <1>1 DEF Pending

\* A request that the application makes, through a device with the address b.
Asks(b) ==
    /\ app.pc = "call" /\ Unlocked(app.dev) /\ "app" \notin dangling
    /\ app.dev \in Slots /\ dev[app.dev].bda = b /\ link[b] = "up"
    /\ ~Refused(app.dev, app.op) /\ Started(app.dev, app.op, app.id)
    /\ asked'[b] = Append(asked[b], [op |-> app.op, id |-> app.id])
    /\ UNCHANGED <<list, btc, btq, held>>

\* What may become of the requests for b: nothing, an event is taken, one is added that is
\* not an answer to them, one is answered, the link is closed, one is lost, one is made.
Taken(b) == btq # <<>> /\ btq' = Tail(btq) /\ asked'[b] = asked[b]
Behind(b) == \E e \in Event :
    /\ btq' = Append(btq, e) /\ asked'[b] = asked[b] /\ (e.k = "answer" => e.bda # b)
    /\ e.k = "open" /\ e.bda = b => asked[b] = <<>>
Answered(b) == \E e \in Event :
    /\ btq' = Append(btq, e) /\ asked[b] # <<>> /\ asked'[b] = Tail(asked[b])
    /\ e.k = "answer" /\ e.bda = b /\ e.op = Head(asked[b]).op /\ e.id = Head(asked[b]).id
Cut(b) == \E e \in Event : btq' = Append(btq, e) /\ e.k = "close" /\ asked'[b] = <<>>
Lost(b) == UNCHANGED btq /\ asked[b] # <<>> /\ asked'[b] = Tail(asked[b])

\* One of these is what happens.
LEMMA RequestsStep ==
    ASSUME TypeInv, LinkInv, Next \/ UNCHANGED vars, ~Reboot, NEW b \in Bdas
    PROVE  \/ UNCHANGED btq /\ asked'[b] = asked[b]
           \/ Taken(b) \/ Behind(b) \/ Answered(b) \/ Cut(b) \/ Lost(b)
           \/ AppRequest /\ Asks(b)
<1> USE DEF restOfBtc, restOfApp, stackVars
<1>0. /\ link \in [Bdas -> {"down", "paging", "up"}]
      /\ asked \in [Bdas -> Seq([op : Transactions, id : Nat])]
      /\ undescribed \in Seq(Bdas) /\ unadded \subseteq Bdas
      /\ asked[b] # <<>> => link[b] = "up"
  BY DEF TypeInv, StackType, LinkInv, StackInv
<1>1. CASE OpenEvt \/ DscpEvt \/ AddDevEvt \/ CloseEvt \/ AnswerEvt \/ DataEvt
  BY <1>1 DEF OpenEvt, DscpEvt, AddDevEvt, CloseEvt, AnswerEvt, DataEvt, Take, Taken
<1>2. CASE UNCHANGED <<btq, stackVars>> \/ AppConnect
  BY <1>2 DEF AppConnect
<1>3. CASE AppRequest
  <2>1. UNCHANGED <<btq, link, list, btc, held>>
    BY <1>3 DEF AppRequest
  <2>2. app.dev \in Slots /\ app.pc = "call"
    BY <1>3 DEF AppRequest, TypeInv, TaskType, AppType
  <2>3. CASE UNCHANGED asked
    BY <2>1, <2>3
  <2>4. CASE /\ ~Refused(app.dev, app.op) /\ Ask(app.dev) /\ Started(app.dev, app.op, app.id)
    <3>1. asked'[b] = IF b = dev[app.dev].bda /\ link[b] = "up"
                      THEN Append(asked[b], [op |-> app.op, id |-> app.id]) ELSE asked[b]
      BY <1>0, <2>4 DEF Ask
    <3>2. CASE b = dev[app.dev].bda /\ link[b] = "up"
      BY <1>3, <2>1, <2>2, <2>4, <3>1, <3>2 DEF Asks, AppRequest
    <3> QED BY <2>1, <3>1, <3>2
  <2> QED BY <1>3, <2>3, <2>4 DEF AppRequest
<1>4. ASSUME NEW c \in Bdas, NEW good \in Good, StackOpen(c, good)
      PROVE  Behind(b)
  <2>1. PICK flag \in BOOLEAN : flag = (link[c] = "paging")
    OBVIOUS
  <2>2. btq' = Append(btq, Ev("open", c, good, flag)) /\ UNCHANGED asked /\ link[c] # "up"
    BY <1>4, <2>1 DEF StackOpen, Notify
  <2>3. PICK e \in Event : e = Ev("open", c, good, flag) /\ e.k = "open" /\ e.bda = c
    BY GoodIs, EvIs
  <2>4. e.k # "answer" /\ (e.bda = b => asked[b] = <<>>)
    BY <1>0, <2>2, <2>3
  <2> QED BY <2>2, <2>3, <2>4 DEF Behind
<1>5. ASSUME NEW c \in Bdas, NEW good \in Good, StackAdd(c, good)
      PROVE  Behind(b)
  <2>1. PICK flag \in BOOLEAN : flag = FALSE
    OBVIOUS
  <2>2. btq' = Append(btq, Ev("add", c, good, flag)) /\ UNCHANGED asked
    BY <1>5, <2>1 DEF StackAdd, Notify
  <2>3. PICK e \in Event : e = Ev("add", c, good, flag) /\ e.k = "add"
    BY GoodIs, EvIs
  <2> QED BY <2>2, <2>3 DEF Behind
<1>6. ASSUME NEW good \in Good, NEW added \in BOOLEAN, StackDescribe(good, added)
      PROVE  Behind(b)
  <2>1. PICK c \in Bdas : c = Head(undescribed)
    BY <1>0, <1>6 DEF StackDescribe
  <2>2. btq' = Append(btq, Ev("dscp", c, good, added)) /\ UNCHANGED asked
    BY <1>6, <2>1 DEF StackDescribe, Notify
  <2>3. PICK e \in Event : e = Ev("dscp", c, good, added) /\ e.k = "dscp"
    BY GoodIs, EvIs
  <2> QED BY <2>2, <2>3 DEF Behind
<1>7. ASSUME NEW c \in Bdas, StackData(c)
      PROVE  Behind(b)
  <2>1. PICK yes \in BOOLEAN, no \in BOOLEAN : yes = TRUE /\ no = FALSE
    OBVIOUS
  <2>2. btq' = Append(btq, Ev("data", c, yes, no)) /\ UNCHANGED asked
    BY <1>7, <2>1 DEF StackData, Notify
  <2>3. PICK e \in Event : e = Ev("data", c, yes, no) /\ e.k = "data"
    BY EvIs
  <2> QED BY <2>2, <2>3 DEF Behind
<1>8. ASSUME NEW c \in Bdas, StackClose(c)
      PROVE  Cut(b) \/ Behind(b)
  <2>1. PICK yes \in BOOLEAN, no \in BOOLEAN : yes = TRUE /\ no = FALSE
    OBVIOUS
  <2>2. btq' = Append(btq, Ev("close", c, yes, no)) /\ asked' = [asked EXCEPT ![c] = <<>>]
    BY <1>8, <2>1 DEF StackClose, Notify
  <2>3. PICK e \in Event : e = Ev("close", c, yes, no) /\ e.k = "close"
    BY EvIs
  <2>4. asked'[b] = <<>> \/ asked'[b] = asked[b]
    BY <1>0, <2>2
  <2> QED BY <2>2, <2>3, <2>4 DEF Cut, Behind
<1>9. ASSUME NEW c \in Bdas, NEW good \in Good, StackAnswer(c, good)
      PROVE  Answered(b) \/ Behind(b)
  <2>1. PICK q \in [op : Transactions, id : Nat] : q = Head(asked[c])
    <3>1. asked[c] \in Seq([op : Transactions, id : Nat]) /\ asked[c] # <<>>
      BY <1>0, <1>9 DEF StackAnswer
    <3>2. Head(asked[c]) \in [op : Transactions, id : Nat]
      BY <3>1, HeadTailProperties
    <3> QED BY <3>2
  <2>2. /\ btq' = Append(btq, AnswerTo(q, c, good)) /\ asked' = [asked EXCEPT ![c] = Tail(@)]
        /\ asked[c] # <<>>
    BY <1>9, <2>1 DEF StackAnswer, Notify
  <2>3. PICK e \in Event : e = AnswerTo(q, c, good) /\ e.k = "answer" /\ e.bda = c
    BY GoodIs, AnswerToIs
  <2>4. e.op = q.op /\ e.id = q.id
    BY <2>3 DEF AnswerTo
  <2>5. CASE b = c
    BY <1>0, <2>1, <2>2, <2>3, <2>4, <2>5 DEF Answered
  <2>6. CASE b # c
    BY <1>0, <2>2, <2>3, <2>6 DEF Behind
  <2> QED BY <2>5, <2>6
<1>10. ASSUME NEW c \in Bdas, StackLoses(c)
       PROVE  Lost(b) \/ (UNCHANGED btq /\ asked'[b] = asked[b])
  BY <1>0, <1>10 DEF StackLoses, Lost
<1>11. CASE Stack
  BY <1>4, <1>5, <1>6, <1>7, <1>8, <1>9, <1>10, <1>11 DEF Stack
<1> QED BY <1>1, <1>2, <1>3, <1>11, Frames

\* What a step carries of them: each one was there, and no two come from one. None gets
\* behind an OPEN_EVT.
Before(p, b) == \A j \in DOMAIN btq : IsOpen(j, b) => p < j
Carried(b) == \E f : \A q \in Pending(b)' :
    \E p \in Pending(b) : q = f[p] /\ IdOf(q, b)' = IdOf(p, b) /\ (Before(p, b) => Before(q, b)')

\* Where each one stays in its place.
LEMMA CarriedSame ==
    ASSUME TypeInv, NEW b \in Bdas,
           \A q \in Pending(b)' : q \in Pending(b) /\ IdOf(q, b)' = IdOf(q, b) /\ (Before(q, b) => Before(q, b)')
    PROVE  Carried(b)
<1>1. PICK f : f = [p \in Nat |-> p]
  OBVIOUS
<1>2. \A p \in Pending(b) : p = f[p]
  BY <1>1, PendingIs
<1> QED BY <1>2 DEF Carried

\* The range of their places in the next state.
LEMMA PlacesThen ==
    ASSUME NEW b, NEW q \in Pending(b)', NEW n \in Nat, n = Len(btq'), NEW m \in Nat, m = Len(asked'[b])
    PROVE  q \in Nat /\ q >= 1 /\ q <= n + m
<1>1. q \in 1 .. n + m
  BY DEF Pending
<1> QED BY <1>1

\* An event is taken.
LEMMA PendingTaken ==
    ASSUME TypeInv, NEW b \in Bdas, Taken(b), NEW q \in Pending(b)'
    PROVE  /\ q + 1 \in Pending(b) /\ IdOf(q, b)' = IdOf(q + 1, b)
           /\ Before(q + 1, b) => Before(q, b)'
<1>1. /\ btq \in Seq(Event) /\ asked[b] \in Seq([op : Transactions, id : Nat])
      /\ Len(btq) \in Nat /\ Len(asked[b]) \in Nat
  BY PendingIs
<1>2. /\ Len(btq) >= 1 /\ Len(btq') = Len(btq) - 1 /\ asked'[b] = asked[b]
      /\ \A i \in 1 .. Len(btq) - 1 : btq'[i] = btq[i + 1]
      /\ DOMAIN btq' = 1 .. Len(btq) - 1 /\ DOMAIN btq = 1 .. Len(btq)
  BY <1>1 DEF Taken
<1>3. q \in Nat /\ q >= 1 /\ q <= Len(btq) - 1 + Len(asked[b])
  BY <1>1, <1>2 DEF Pending
<1>4. q + 1 \in Pending(b) /\ IdOf(q, b)' = IdOf(q + 1, b)
  <2>1. CASE q <= Len(btq')
    <3>1. btq'[q] = btq[q + 1] /\ q + 1 <= Len(btq)
      BY <1>1, <1>2, <1>3, <2>1
    <3> QED BY <1>1, <1>2, <1>3, <2>1, <3>1 DEF Pending, IdOf
  <2>2. CASE ~(q <= Len(btq'))
    <3>1. q - Len(btq') = q + 1 - Len(btq) /\ ~(q + 1 <= Len(btq))
      BY <1>1, <1>2, <1>3, <2>2
    <3> QED BY <1>1, <1>2, <1>3, <2>2, <3>1 DEF Pending, IdOf
  <2> QED BY <2>1, <2>2
<1>5. ASSUME Before(q + 1, b) PROVE Before(q, b)'
  <2> SUFFICES ASSUME NEW j \in DOMAIN btq', IsOpen(j, b)' PROVE q < j
    BY DEF Before
  <2>1. j \in Nat /\ j + 1 \in DOMAIN btq /\ IsOpen(j + 1, b)
    BY <1>1, <1>2 DEF IsOpen
  <2>2. q + 1 < j + 1
    BY <1>5, <2>1 DEF Before
  <2> QED BY <1>3, <2>1, <2>2
<1> QED BY <1>4, <1>5

\* One is added behind the others.
LEMMA PendingBehind ==
    ASSUME TypeInv, NEW b \in Bdas, Behind(b)
    PROVE  Carried(b)
<1>1. /\ btq \in Seq(Event) /\ asked[b] \in Seq([op : Transactions, id : Nat])
      /\ Len(btq) \in Nat /\ Len(asked[b]) \in Nat
  BY PendingIs
<1>2. PICK e \in Event :
         /\ btq' = Append(btq, e) /\ asked'[b] = asked[b] /\ (e.k = "answer" => e.bda # b)
         /\ e.k = "open" /\ e.bda = b => asked[b] = <<>>
  BY DEF Behind
<1>3. /\ Len(btq') = Len(btq) + 1 /\ \A i \in 1 .. Len(btq) : btq'[i] = btq[i]
      /\ btq'[Len(btq) + 1] = e /\ DOMAIN btq' = 1 .. Len(btq) + 1 /\ DOMAIN btq = 1 .. Len(btq)
  BY <1>1, <1>2
<1>f. PICK f : f = [p \in Nat |-> IF p <= Len(btq) THEN p ELSE p + 1]
  OBVIOUS
<1>4. ASSUME NEW q \in Pending(b)'
      PROVE  \E p \in Pending(b) : q = f[p] /\ IdOf(q, b)' = IdOf(p, b) /\ (Before(p, b) => Before(q, b)')
  <2>0. q \in Nat /\ q >= 1 /\ q <= Len(btq) + 1 + Len(asked[b])
    <3>n. PICK n \in Nat, m \in Nat : n = Len(btq) /\ m = Len(asked[b])
      BY <1>1
    <3>1. Len(btq') = n + 1 /\ Len(asked'[b]) = m
      BY <1>2, <1>3, <3>n
    <3>2. q \in Nat /\ q >= 1 /\ q <= (n + 1) + m
      BY <3>1, PlacesThen
    <3> QED BY <3>2, <3>n
  <2>1. q \in Nat /\ q >= 1 /\ q <= Len(btq) + 1 + Len(asked[b]) /\ q # Len(btq) + 1
    <3> SUFFICES ASSUME q = Len(btq) + 1 PROVE FALSE
      BY <2>0
    <3>1. btq'[q] = e /\ q <= Len(btq')
      BY <1>1, <1>3
    <3>2. e.k = "answer" /\ e.bda = b
      BY <3>1 DEF Pending
    <3> QED BY <1>2, <3>2
  <2>2. CASE q <= Len(btq)
    <3>1. q \in Pending(b) /\ IdOf(q, b)' = IdOf(q, b)
      BY <1>1, <1>3, <2>1, <2>2 DEF Pending, IdOf
    <3>3. q = f[q]
      BY <1>f, <2>1, <2>2
    <3>2. ASSUME Before(q, b), NEW j \in DOMAIN btq', IsOpen(j, b)' PROVE q < j
      <4>1. CASE j \in DOMAIN btq
        BY <1>1, <1>3, <3>2, <4>1 DEF Before, IsOpen
      <4>2. CASE j = Len(btq) + 1
        BY <1>1, <2>1, <2>2, <4>2
      <4> QED BY <1>1, <1>3, <4>1, <4>2
    <3> QED BY <3>1, <3>2, <3>3 DEF Before
  <2>3. CASE q > Len(btq) + 1
    <3>0. PICK p \in Nat : p = q - 1 /\ p > Len(btq) /\ q - Len(btq') = p - Len(btq)
      BY <1>1, <1>3, <2>1, <2>3
    <3>1. p \in Pending(b) /\ IdOf(q, b)' = IdOf(p, b) /\ q = f[p]
      <4>1. /\ ~(p <= Len(btq)) /\ ~(q <= Len(btq')) /\ q = p + 1 /\ p >= 1
            /\ p <= Len(btq) + Len(asked[b])
        <5>n. PICK n \in Nat, m \in Nat : n = Len(btq) /\ m = Len(asked[b])
          BY <1>1
        <5>1. q \in Nat /\ q <= n + 1 + m /\ q > n + 1 /\ p = q - 1
          BY <2>1, <2>3, <3>0, <5>n
        <5>2. ~(p <= n) /\ ~(q <= n + 1) /\ q = p + 1 /\ p >= 1 /\ p <= n + m
          BY <5>1
        <5> QED BY <1>3, <5>n, <5>2
      <4>2. asked'[b][q - Len(btq')] = asked[b][p - Len(btq)]
        BY <1>2, <3>0
      <4>3. asked'[b][q - Len(btq')].op = "get_report"
        BY <4>1 DEF Pending
      <4>4. p \in Pending(b)
        BY <1>1, <4>1, <4>2, <4>3 DEF Pending
      <4>5. IdOf(q, b)' = IdOf(p, b)
        BY <4>1, <4>2 DEF IdOf
      <4> QED BY <1>1, <1>f, <4>1, <4>4, <4>5
    <3>2. ASSUME Before(p, b), NEW j \in DOMAIN btq', IsOpen(j, b)' PROVE q < j
      <4>1. CASE j \in DOMAIN btq
        <5>1. p < j
          BY <1>1, <1>3, <3>2, <4>1 DEF Before, IsOpen
        <5> QED BY <1>1, <1>3, <3>0, <4>1, <5>1
      <4>2. CASE j = Len(btq) + 1
        <5>1. asked[b] = <<>>
          BY <1>2, <1>3, <3>2, <4>2 DEF IsOpen
        <5> QED BY <1>1, <2>1, <2>3, <5>1
      <4> QED BY <1>1, <1>3, <4>1, <4>2
    <3> QED BY <3>1, <3>2 DEF Before
  <2>4. q <= Len(btq) \/ q > Len(btq) + 1
    BY <1>1, <2>1
  <2> QED BY <2>2, <2>3, <2>4
<1> QED BY <1>4 DEF Carried

\* One is answered: its answer takes its place.
LEMMA PendingAnswered ==
    ASSUME TypeInv, NEW b \in Bdas, Answered(b)
    PROVE  Carried(b)
<1>1. /\ btq \in Seq(Event) /\ asked[b] \in Seq([op : Transactions, id : Nat])
      /\ Len(btq) \in Nat /\ Len(asked[b]) \in Nat
  BY PendingIs
<1>2. PICK e \in Event :
         /\ btq' = Append(btq, e) /\ asked[b] # <<>> /\ asked'[b] = Tail(asked[b])
         /\ e.k = "answer" /\ e.bda = b /\ e.op = Head(asked[b]).op /\ e.id = Head(asked[b]).id
  BY DEF Answered
<1>3. /\ Len(btq') = Len(btq) + 1 /\ \A i \in 1 .. Len(btq) : btq'[i] = btq[i]
      /\ btq'[Len(btq) + 1] = e /\ DOMAIN btq' = 1 .. Len(btq) + 1 /\ DOMAIN btq = 1 .. Len(btq)
  BY <1>1, <1>2
<1>4. /\ Len(asked[b]) >= 1 /\ Len(asked'[b]) = Len(asked[b]) - 1 /\ Head(asked[b]) = asked[b][1]
      /\ \A i \in 1 .. Len(asked[b]) - 1 : asked'[b][i] = asked[b][i + 1]
  BY <1>1, <1>2
<1>5. ASSUME NEW q \in Pending(b)'
      PROVE  q \in Pending(b) /\ IdOf(q, b)' = IdOf(q, b) /\ (Before(q, b) => Before(q, b)')
  <2>1. q \in Nat /\ q >= 1 /\ q <= Len(btq) + Len(asked[b])
    <3>n. PICK n \in Nat, m \in Nat : n = Len(btq) /\ m = Len(asked[b])
      BY <1>1
    <3>1. m >= 1 /\ Len(btq') = n + 1 /\ Len(asked'[b]) = m - 1
      BY <1>3, <1>4, <3>n
    <3>2. q \in Nat /\ q >= 1 /\ q <= (n + 1) + (m - 1)
      BY <3>1, PlacesThen
    <3>3. q <= n + m
      BY <3>2
    <3> QED BY <3>2, <3>3, <3>n
  <2>2. q \in Pending(b) /\ IdOf(q, b)' = IdOf(q, b)
    <3>1. CASE q <= Len(btq)
      BY <1>1, <1>3, <2>1, <3>1 DEF Pending, IdOf
    <3>2. CASE q = Len(btq) + 1
      <4>1. q <= Len(btq') /\ ~(q <= Len(btq)) /\ q - Len(btq) = 1 /\ btq'[q] = e
        BY <1>1, <1>3, <2>1, <3>2
      <4> QED BY <1>2, <1>4, <2>1, <4>1 DEF Pending, IdOf
    <3>3. CASE q > Len(btq) + 1
      <4>1. /\ ~(q <= Len(btq')) /\ ~(q <= Len(btq))
            /\ q - Len(btq') \in 1 .. Len(asked[b]) - 1 /\ q - Len(btq) = q - Len(btq') + 1
        BY <1>1, <1>3, <2>1, <3>3
      <4>2. asked'[b][q - Len(btq')] = asked[b][q - Len(btq)]
        BY <1>4, <4>1
      <4> QED BY <1>1, <2>1, <4>1, <4>2 DEF Pending, IdOf
    <3>4. q <= Len(btq) \/ q = Len(btq) + 1 \/ q > Len(btq) + 1
      BY <1>1, <2>1
    <3> QED BY <3>1, <3>2, <3>3, <3>4
  <2>3. ASSUME Before(q, b), NEW j \in DOMAIN btq', IsOpen(j, b)' PROVE q < j
    <3>1. j \in DOMAIN btq /\ IsOpen(j, b)
      BY <1>1, <1>2, <1>3, <2>3 DEF IsOpen
    <3> QED BY <2>3, <3>1 DEF Before
  <2> QED BY <2>1, <2>2, <2>3 DEF Before
<1> QED BY <1>5, CarriedSame

\* The link is closed, or the first of them is lost.
LEMMA PendingCut ==
    ASSUME TypeInv, NEW b \in Bdas, Cut(b) \/ Lost(b)
    PROVE  Carried(b)
<1>1. /\ btq \in Seq(Event) /\ asked[b] \in Seq([op : Transactions, id : Nat])
      /\ Len(btq) \in Nat /\ Len(asked[b]) \in Nat
  BY PendingIs
<1>2. CASE Cut(b)
  <2>1. PICK e \in Event : btq' = Append(btq, e) /\ e.k = "close" /\ asked'[b] = <<>>
    BY <1>2 DEF Cut
  <2>2. /\ Len(btq') = Len(btq) + 1 /\ \A i \in 1 .. Len(btq) : btq'[i] = btq[i]
        /\ btq'[Len(btq) + 1] = e /\ DOMAIN btq' = 1 .. Len(btq) + 1 /\ DOMAIN btq = 1 .. Len(btq)
    BY <1>1, <2>1
  <2>3. ASSUME NEW q \in Pending(b)'
        PROVE  q \in Pending(b) /\ IdOf(q, b)' = IdOf(q, b) /\ (Before(q, b) => Before(q, b)')
    <3>1. q \in Nat /\ q >= 1 /\ q <= Len(btq)
      BY <1>1, <2>1, <2>2 DEF Pending
    <3>2. q \in Pending(b) /\ IdOf(q, b)' = IdOf(q, b)
      BY <1>1, <2>2, <3>1 DEF Pending, IdOf
    <3>3. ASSUME Before(q, b), NEW j \in DOMAIN btq', IsOpen(j, b)' PROVE q < j
      <4>1. j \in DOMAIN btq /\ IsOpen(j, b)
        BY <1>1, <2>1, <2>2, <3>3 DEF IsOpen
      <4> QED BY <3>3, <4>1 DEF Before
    <3> QED BY <3>1, <3>2, <3>3 DEF Before
  <2> QED BY <2>3, CarriedSame
<1>3. CASE Lost(b)
  <2>1. /\ Len(asked[b]) >= 1 /\ Len(asked'[b]) = Len(asked[b]) - 1 /\ btq' = btq
        /\ \A i \in 1 .. Len(asked[b]) - 1 : asked'[b][i] = asked[b][i + 1]
    BY <1>1, <1>3 DEF Lost
  <2>f. PICK f : f = [p \in Nat |-> IF p <= Len(btq) THEN p ELSE p - 1]
    OBVIOUS
  <2>2. ASSUME NEW q \in Pending(b)'
        PROVE  \E p \in Pending(b) : q = f[p] /\ IdOf(q, b)' = IdOf(p, b) /\ (Before(p, b) => Before(q, b)')
    <3>1. q \in Nat /\ q >= 1 /\ q <= Len(btq) + Len(asked[b]) - 1
      BY <1>1, <2>1 DEF Pending
    <3>2. CASE q <= Len(btq)
      <4>1. q \in Pending(b) /\ IdOf(q, b)' = IdOf(q, b)
        BY <1>1, <2>1, <3>1, <3>2 DEF Pending, IdOf
      <4>2. q = f[q]
        BY <2>f, <3>1, <3>2
      <4> QED BY <2>1, <4>1, <4>2 DEF Before, IsOpen
    <3>3. CASE ~(q <= Len(btq))
      <4>1. /\ q - Len(btq) \in 1 .. Len(asked[b]) - 1 /\ ~(q + 1 <= Len(btq))
            /\ q + 1 - Len(btq) = q - Len(btq) + 1
        BY <1>1, <3>1, <3>3
      <4>2. asked'[b][q - Len(btq)] = asked[b][q + 1 - Len(btq)]
        BY <2>1, <4>1
      <4>3. q + 1 \in Pending(b) /\ IdOf(q, b)' = IdOf(q + 1, b) /\ q = f[q + 1]
        <5>1. ~(q <= Len(btq')) /\ asked'[b][q - Len(btq')].op = "get_report"
          BY <2>1, <3>3 DEF Pending
        <5>2. q + 1 \in Pending(b)
          <6>n. PICK n \in Nat, m \in Nat : n = Len(btq) /\ m = Len(asked[b])
            BY <1>1
          <6>1. q \in Nat /\ q <= n + m - 1 /\ ~(q <= n)
            BY <3>1, <3>3, <6>n
          <6>2. q + 1 \in 1 .. n + m /\ ~(q + 1 <= n)
            BY <6>1
          <6>3. q + 1 \in 1 .. Len(btq) + Len(asked[b]) /\ ~(q + 1 <= Len(btq))
            BY <6>2, <6>n
          <6> QED BY <2>1, <4>2, <5>1, <6>3 DEF Pending
        <5>3. IdOf(q, b)' = IdOf(q + 1, b)
          <6>1. IdOf(q, b)' = asked'[b][q - Len(btq)].id
            BY <2>1, <5>1 DEF IdOf
          <6>p. PICK p : p = q + 1
            OBVIOUS
          <6>2. IdOf(q + 1, b) = asked[b][q + 1 - Len(btq)].id
            <7>1. ~(p <= Len(btq)) => IdOf(p, b) = asked[b][p - Len(btq)].id
              BY DEF IdOf
            <7> QED BY <1>1, <3>1, <4>1, <6>p, <7>1
          <6> QED BY <4>2, <6>1, <6>2
        <5>4. q = f[q + 1]
          BY <1>1, <2>f, <3>1, <4>1
        <5> QED BY <5>2, <5>3, <5>4
      <4>4. ASSUME Before(q + 1, b), NEW j \in DOMAIN btq', IsOpen(j, b)' PROVE q < j
        <5>1. j \in Nat /\ q + 1 < j
          BY <1>1, <2>1, <4>4 DEF Before, IsOpen
        <5> QED BY <3>1, <5>1
      <4> QED BY <4>3, <4>4 DEF Before
    <3> QED BY <3>2, <3>3
  <2> QED BY <2>2 DEF Carried
<1> QED BY <1>2, <1>3

\* The step does not ask for a report of b.
AsksGet(b) == AppRequest /\ Asks(b) /\ app.op = "get_report"

\* Each step but a new request carries them.
LEMMA PendingStep ==
    ASSUME TypeInv, LinkInv, Next \/ UNCHANGED vars, ~Reboot, NEW b \in Bdas, ~AsksGet(b)
    PROVE  Carried(b)
<1>1. /\ btq \in Seq(Event) /\ asked[b] \in Seq([op : Transactions, id : Nat])
      /\ Len(btq) \in Nat /\ Len(asked[b]) \in Nat
      /\ \A p \in Pending(b) : p \in Nat
  BY PendingIs
<1>2. CASE UNCHANGED btq /\ asked'[b] = asked[b]
  <2>1. Pending(b)' = Pending(b) /\ \A q \in Pending(b) : IdOf(q, b)' = IdOf(q, b)
    BY <1>1, <1>2 DEF Pending, IdOf
  <2>2. \A q : Before(q, b) => Before(q, b)'
    BY <1>2 DEF Before, IsOpen
  <2> QED BY <2>1, <2>2, CarriedSame
<1>3. CASE Taken(b)
  <2>f. PICK f : f = [p \in Nat |-> p - 1]
    OBVIOUS
  <2>1. ASSUME NEW q \in Pending(b)'
        PROVE  \E p \in Pending(b) : q = f[p] /\ IdOf(q, b)' = IdOf(p, b) /\ (Before(p, b) => Before(q, b)')
    <3>1. q + 1 \in Pending(b) /\ IdOf(q, b)' = IdOf(q + 1, b) /\ (Before(q + 1, b) => Before(q, b)')
      BY <1>3, PendingTaken
    <3>2. q \in Int /\ q + 1 \in Nat
      BY <1>1, <3>1 DEF Pending
    <3>3. q = f[q + 1]
      BY <2>f, <3>2
    <3> QED BY <3>1, <3>3
  <2> QED BY <2>1 DEF Carried
<1>4. CASE AppRequest /\ Asks(b)
  <2>1. /\ btq' = btq /\ app.op # "get_report"
        /\ asked'[b] = Append(asked[b], [op |-> app.op, id |-> app.id])
    BY <1>4 DEF Asks, AsksGet
  <2>2. /\ Len(asked'[b]) = Len(asked[b]) + 1
        /\ \A i \in 1 .. Len(asked[b]) : asked'[b][i] = asked[b][i]
        /\ asked'[b][Len(asked[b]) + 1].op # "get_report"
    BY <1>1, <2>1
  <2>3. ASSUME NEW q \in Pending(b)'
        PROVE  q \in Pending(b) /\ IdOf(q, b)' = IdOf(q, b)
    <3>1. q \in Nat /\ q >= 1 /\ q <= Len(btq) + Len(asked[b]) + 1
      BY <1>1, <2>1, <2>2 DEF Pending
    <3>2. CASE q <= Len(btq)
      BY <1>1, <2>1, <2>2, <3>1, <3>2 DEF Pending, IdOf
    <3>3. CASE ~(q <= Len(btq))
      <4>1. q - Len(btq) \in 1 .. Len(asked[b]) + 1 /\ asked'[b][q - Len(btq)].op = "get_report"
        BY <1>1, <2>1, <3>1, <3>3 DEF Pending
      <4>2. q - Len(btq) \in 1 .. Len(asked[b])
        BY <1>1, <2>2, <4>1
      <4> QED BY <1>1, <2>1, <2>2, <3>1, <3>3, <4>1, <4>2 DEF Pending, IdOf
    <3> QED BY <3>2, <3>3
  <2>4. \A q : Before(q, b) => Before(q, b)'
    BY <2>1 DEF Before, IsOpen
  <2> QED BY <2>3, <2>4, CarriedSame
<1> QED BY <1>2, <1>3, <1>4, RequestsStep, PendingBehind, PendingAnswered, PendingCut

-----------------------------------------------------------------------------
(* What a device remembers.                                                *)

\* Its transaction, and the report of it, are left.
Remembers(s) ==
    dev'[s].trans = dev[s].trans /\ dev'[s].report_id = dev[s].report_id

\* Who changes the transaction of a device: hidh_dev_ctor and free, reset_trans, the request
\* of the application, and the timer.
LEMMA TransStep ==
    ASSUME TypeInv, ListInv, Next \/ UNCHANGED vars, ~Reboot, NEW s \in Slots
    PROVE  \/ Remembers(s) /\ dev'[s].timer = dev[s].timer
           \/ /\ ~dev'[s].timer /\ dev'[s].trans = "max"
              /\ ~dev[s].live \/ (FreeDevice /\ s = evt.dev) \/ (ResetTrans /\ s = btc.dev)
           \/ /\ AppRequest /\ s = app.dev /\ ~Refused(s, app.op) /\ app.op \in Transactions
              /\ Started(s, app.op, app.id) /\ dev'[s].trans = app.op
              /\ \/ /\ dev'[s].timer = TimerAfter(s, app.op)
                    /\ app.op = "get_report" => dev'[s].report_id = app.id
                 \/ app.op \in TimedOps
           \/ TimerReset /\ s = tmr.dev /\ dev'[s].trans = "max" /\ dev'[s].timer = dev[s].timer
           \/ TimerFire(s) /\ Remembers(s) /\ ~dev'[s].timer
<1>0. dev \in [Slots -> Device]
  BY DeviceIs DEF TypeInv
<1>1. CASE OpenLink \/ OpenFailed \/ Describe \/ AddDev \/ Close
  <2>1. CASE OpenLink
    BY <1>0, <2>1 DEF OpenLink, Remembers, Device
  <2>2. CASE OpenFailed
    <3>1. UNCHANGED dev \/ dev' = [dev EXCEPT ![btc.dev].in_use = FALSE]
      BY <2>2 DEF OpenFailed
    <3> QED BY <1>0, <3>1 DEF Remembers, Device
  <2>3. CASE Describe
    <3>1. \/ UNCHANGED dev
          \/ dev' = [dev EXCEPT ![btc.dev].added = btc.ev.flag, ![btc.dev].reports = btc.ev.bda]
          \/ dev' = [dev EXCEPT ![btc.dev].added = btc.ev.flag]
      BY <2>3 DEF Describe
    <3> QED BY <1>0, <3>1 DEF Remembers, Device
  <2>4. CASE AddDev
    BY <1>0, <2>4 DEF AddDev, Remembers, Device
  <2>5. CASE Close
    BY <1>0, <2>5 DEF Close, Remembers, Device
  <2> QED BY <1>1, <2>1, <2>2, <2>3, <2>4, <2>5
<1>2. CASE UNCHANGED dev
  BY <1>2 DEF Remembers
<1>3. CASE ResetTrans
  <2>1. btc.dev \in Slots
    BY <1>3 DEF ResetTrans, At
  <2>n. PICK no \in BOOLEAN : no = FALSE
    OBVIOUS
  <2>2. dev' = [dev EXCEPT ![btc.dev].trans = "max", ![btc.dev].report_id = 0, ![btc.dev].timer = no]
    BY <1>3, <2>n DEF ResetTrans
  <2>3. CASE s = btc.dev
    <3>1. dev'[s].trans = "max" /\ dev'[s].timer = no
      BY <1>0, <2>2, <2>3 DEF Device
    <3> QED BY <1>3, <2>n, <2>3, <3>1
  <2>4. CASE s # btc.dev
    BY <1>0, <2>1, <2>2, <2>4 DEF Remembers
  <2> QED BY <2>3, <2>4
<1>4. CASE AppRequest
  <2>1. app.dev \in Slots
    BY <1>4 DEF AppRequest, TypeInv, TaskType, AppType
  <2>2. CASE /\ ~Refused(app.dev, app.op) /\ app.op \in Transactions
             /\ Started(app.dev, app.op, app.id) /\ s = app.dev
    <3>p. PICK op, id, after : op = app.op /\ id = app.id /\ after = TimerAfter(s, app.op)
      OBVIOUS
    <3>1. \/ dev' = [dev EXCEPT ![s].trans = op, ![s].timer = after,
                                ![s].report_id = IF op = "get_report" THEN id ELSE @]
          \/ op \in TimedOps /\ dev' = [dev EXCEPT ![s].trans = op]
      BY <2>2, <3>p DEF Started
    <3>2. dev'[s].trans = op /\ ((dev'[s].timer = after /\ (op = "get_report" => dev'[s].report_id = id)) \/ op \in TimedOps)
      BY <1>0, <3>1 DEF Device
    <3> QED BY <1>4, <2>2, <3>p, <3>2
  <2>3. CASE Started(app.dev, app.op, app.id) /\ s # app.dev
    BY <1>0, <2>1, <2>3 DEF Started, Remembers
  <2> QED BY <1>2, <1>4, <2>2, <2>3 DEF AppRequest
<1>5. CASE TimerReset
  <2>1. tmr.dev \in Slots
    BY <1>5 DEF TimerReset, TypeInv, TaskType, TmrType
  <2> QED BY <2>1, <1>0, <1>5 DEF TimerReset, Remembers, Device
<1>6. ASSUME NEW r \in Slots, TimerFire(r)
      PROVE  (Remembers(s) /\ dev'[s].timer = dev[s].timer) \/ (TimerFire(s) /\ Remembers(s) /\ ~dev'[s].timer)
  BY <1>0, <1>6 DEF TimerFire, Remembers, Device
<1>7. ASSUME NEW r \in Slots, NEW b, Ctor(r, b)
      PROVE  (Remembers(s) /\ dev'[s].timer = dev[s].timer) \/ (~dev'[s].timer /\ dev'[s].trans = "max" /\ ~dev[s].live)
  <2>p. PICK new : new = [Free EXCEPT !.live = TRUE, !.in_use = TRUE, !.bda = b]
    OBVIOUS
  <2>1. ~new.timer /\ new.trans = "max"
    BY <2>p DEF Free
  <2>2. dev' = [dev EXCEPT ![r] = new] /\ ~dev[r].live
    BY <1>7, <2>p DEF Ctor
  <2> QED BY <1>0, <2>1, <2>2 DEF Remembers
<1>8. CASE FreeDevice
  <2>1. evt.dev \in Slots
    BY <1>8 DEF FreeDevice, TypeInv, TaskType, EvtType
  <2>p. PICK new : new = Free
    OBVIOUS
  <2>2. ~new.timer /\ new.trans = "max"
    BY <2>p DEF Free
  <2>3. UNCHANGED dev \/ dev' = [dev EXCEPT ![evt.dev] = new]
    BY <1>8, <2>p DEF FreeDevice, memVars
  <2> QED BY <1>0, <1>2, <1>8, <2>1, <2>2, <2>3 DEF Remembers
<1> QED BY <1>1, <1>2, <1>3, <1>4, <1>5, <1>6, <1>7, <1>8, Frames DEF OpenEvt, AppCtor, Tmr

\* Nothing late happens as long as it is calm.
LEMMA CalmGrows ==
    ASSUME Next \/ UNCHANGED vars, ~Reboot, Calm'
    PROVE  Calm
BY OddGrows DEF Calm

\* A GET_REPORT is remembered until reset_trans: neither the application nor the timer ends
\* it.
LEMMA MemoryStep ==
    ASSUME TypeInv, ListInv, TimerInv, Next \/ UNCHANGED vars, ~Reboot, Calm', NEW s \in Slots,
           Listed(s), Listed(s)', dev[s].trans = "get_report", ~(ResetTrans /\ s = btc.dev)
    PROVE  dev'[s].trans = "get_report" /\ dev'[s].report_id = dev[s].report_id
<1>1. dev[s].live
  BY DEF ListInv, Listed, ToSet
<1>2. ~(FreeDevice /\ s = evt.dev) \/ UNCHANGED dev
  BY FreeSets
<1>3. ASSUME UNCHANGED dev PROVE Remembers(s)
  BY <1>3 DEF Remembers
<1>4. ~Refused(s, app.op) => dev[s].trans = "max"
  BY DEF Refused
<1>5. ~(TimerReset /\ s = tmr.dev)
  <2> SUFFICES ASSUME TimerReset, s = tmr.dev PROVE FALSE
    OBVIOUS
  <2>1. tmr.op \in TimedOps
    BY DEF TimerReset, TimerInv
  <2>2. "late" \in odd'
    BY <2>1 DEF TimerReset, TimedOps
  <2> QED BY <2>2 DEF Calm
<1> QED BY <1>1, <1>2, <1>3, <1>4, <1>5, TransStep DEF Remembers

\* reset_trans ends a GET_REPORT for its own answer only.
LEMMA ResetOwn ==
    ASSUME TypeInv, AnsweringInv, ResetTrans, Calm', dev[btc.dev].trans = "get_report"
    PROVE  Answering
<1>1. Late(btc.ev, btc.dev) = {}
  <2>1. odd' = odd \cup Late(btc.ev, btc.dev)
    BY DEF ResetTrans
  <2> QED BY <2>1 DEF Calm, Late
<1>2. btc.ev.op = "get_report"
  BY <1>1 DEF Late
<1> QED BY <1>2 DEF ResetTrans, At, Answering

\* Which device hears the answers changes with OPEN_EVT only.
LEMMA HearsStep ==
    ASSUME TypeInv, ListInv, LinkInv, Next \/ UNCHANGED vars, ~Reboot, NEW s \in Slots, NEW b \in Bdas, Hears(s, b)'
    PROVE  Hears(s, b) \/ (OpenEvt /\ IsOpen(1, b) /\ 1 \in DOMAIN btq)
<1>1. CASE Listed(s)' /\ dev'[s].handle = b
  <2>1. Listed(s) /\ (dev'[s].handle = dev[s].handle \/ (OpenLink /\ s = btc.dev))
    BY <1>1, LinkedStep, BtAssumption
  <2>2. CASE OpenLink /\ s = btc.dev
    BY <1>1, <2>2, MarkedDevices DEF OpenLink, At, Opening, Hears
  <2> QED BY <1>1, <2>1, <2>2 DEF Hears
<1>2. CASE Opening' /\ btc'.dev = s /\ btc'.ev.bda = b
  <2>1. CASE Btc
    <3>1. OpenEvt /\ btc'.ev = Head(btq) /\ Head(btq).k = "open"
      BY <1>2, <2>1, OpeningIs DEF Opening
    <3>2. Head(btq) = btq[1] /\ 1 \in DOMAIN btq
      BY <3>1, TakeIs DEF OpenEvt, TypeInv
    <3> QED BY <1>2, <3>1, <3>2 DEF IsOpen
  <2>2. CASE ~Btc
    <3>1. UNCHANGED <<btc, held>> /\ ("btc" \in dangling => "btc" \in dangling')
      BY <2>2, Frames, DanglingStep DEF Btc
    <3> QED BY <1>2, <3>1 DEF Opening, Hears, Unlocked
  <2> QED BY <2>1, <2>2
<1> QED BY <1>1, <1>2 DEF Hears

\* A device whose link is known, and for which a request is made, hears the answer.
LEMMA AskerHears ==
    ASSUME TypeInv, ListInv, LinkInv, NEW b \in Bdas, Asks(b), Calm'
    PROVE  /\ Listed(app.dev) /\ Hears(app.dev, b) /\ dev[app.dev].trans = "max"
           /\ \A j \in DOMAIN btq : ~IsOpen(j, b)
<1>1. app.dev \in Slots /\ dev[app.dev].bda = b /\ link[b] = "up" /\ Unlocked(app.dev)
  BY DEF Asks
<1>2. ~LinkIsNew(app.dev)
  <2>1. LinkIsNew(app.dev) => "new_link" \in odd'
    BY DEF Asks, Started
  <2> QED BY <2>1 DEF Calm
<1>3. dev[app.dev].connected /\ \A j \in DOMAIN btq : ~IsOpen(j, b)
  BY <1>1, <1>2 DEF LinkIsNew, IsOpen
<1>4. dev[app.dev].live /\ dev[app.dev].handle = b
  BY <1>1, <1>3 DEF LinkInv
<1>5. Listed(app.dev)
  BY <1>1, <1>4 DEF ListInv, LinkInv, Unlocked
<1>6. dev[app.dev].trans = "max"
  BY DEF Asks, Refused
<1> QED BY <1>3, <1>4, <1>5, <1>6 DEF Hears

\* A GET_REPORT is asked for where none is under way, and remembered.
LEMMA GetAsked ==
    ASSUME TypeInv, ListInv, LinkInv, RememberInv, Next \/ UNCHANGED vars, ~Reboot,
           NEW b \in Bdas, AsksGet(b), Calm'
    PROVE  /\ Pending(b) = {}
           /\ dev'[app.dev].trans = "get_report" /\ dev'[app.dev].report_id = app.id
           /\ \A q \in Pending(b)' : q = Len(btq) + Len(asked[b]) + 1 /\ IdOf(q, b)' = app.id
           /\ \A j \in DOMAIN btq' : ~IsOpen(j, b)'
<1>0. /\ Asks(b) /\ app.op = "get_report" /\ AppRequest /\ app.dev \in Slots /\ app.pc = "call"
      /\ btq' = btq
      /\ asked'[b] = Append(asked[b], [op |-> "get_report", id |-> app.id])
  BY DEF AsksGet, Asks
<1>1. Hears(app.dev, b) /\ dev[app.dev].trans = "max" /\ \A j \in DOMAIN btq : ~IsOpen(j, b)
  BY <1>0, AskerHears
<1>2. Pending(b) = {}
  BY <1>0, <1>1 DEF RememberInv
<1>3. dev'[app.dev].trans = "get_report" /\ dev'[app.dev].report_id = app.id
  <2>s. PICK s \in Slots : s = app.dev
    BY <1>0
  <2>p. PICK op, id, after : op = app.op /\ id = app.id /\ after = TimerAfter(app.dev, app.op)
    OBVIOUS
  <2>1. dev' = [dev EXCEPT ![s].trans = op, ![s].timer = after, ![s].report_id = IF op = "get_report" THEN id ELSE @]
    BY <1>0, <2>p, <2>s DEF Asks, Started, TimedOps
  <2>2. dev \in [Slots -> Device] /\ op = "get_report"
    BY <1>0, <2>p, DeviceIs DEF TypeInv
  <2>3. dev'[s].trans = op /\ dev'[s].report_id = id
    BY <2>1, <2>2 DEF Device
  <2> QED BY <1>0, <2>p, <2>s, <2>2, <2>3
<1>n. PICK n \in Nat, m \in Nat : n = Len(btq) /\ m = Len(asked[b])
  BY PendingIs
<1>4. /\ Len(asked'[b]) = m + 1 /\ \A i \in 1 .. m : asked'[b][i] = asked[b][i]
      /\ asked'[b][m + 1].id = app.id
  BY <1>0, <1>n, PendingIs
<1>5. ASSUME NEW q \in Pending(b)'
      PROVE  q = Len(btq) + Len(asked[b]) + 1 /\ IdOf(q, b)' = app.id
  <2>1. q \in Nat /\ q >= 1 /\ q <= n + (m + 1)
    <3>1. PICK k \in Nat : k = m + 1
      OBVIOUS
    <3>2. n = Len(btq') /\ k = Len(asked'[b])
      BY <1>0, <1>4, <1>n, <3>1
    <3>3. q \in Nat /\ q >= 1 /\ q <= n + k
      BY <3>2, PlacesThen
    <3> QED BY <3>1, <3>3
  <2>2. CASE q <= n
    <3>1. q <= Len(btq) /\ q <= Len(btq') /\ btq'[q] = btq[q] /\ q \in 1 .. Len(btq) + Len(asked[b])
      BY <1>0, <1>n, <2>1, <2>2
    <3>2. q \in Pending(b)
      BY <3>1 DEF Pending
    <3> QED BY <1>2, <3>2
  <2>3. CASE ~(q <= n) /\ q # n + m + 1
    <3>1. q \in 1 .. n + m /\ q - n \in 1 .. m
      BY <2>1, <2>3
    <3>2. asked'[b][q - n] = asked[b][q - n] /\ ~(q <= Len(btq)) /\ ~(q <= Len(btq')) /\ Len(btq') = n
      BY <1>0, <1>4, <1>n, <2>3, <3>1
    <3>3. q \in Pending(b)
      BY <1>n, <3>1, <3>2 DEF Pending
    <3> QED BY <1>2, <3>3
  <2>4. CASE q = n + m + 1
    <3>1. ~(q <= n) /\ q - n = m + 1
      BY <2>4
    <3>2. ~(q <= Len(btq')) /\ Len(btq') = n
      BY <1>0, <1>n, <3>1
    <3>3. IdOf(q, b)' = asked'[b][m + 1].id
      BY <3>1, <3>2 DEF IdOf
    <3> QED BY <1>4, <1>n, <2>4, <3>3
  <2> QED BY <2>2, <2>3, <2>4
<1>6. \A j \in DOMAIN btq' : ~IsOpen(j, b)'
  BY <1>0, <1>1 DEF IsOpen
<1> QED BY <1>2, <1>3, <1>5, <1>6

-----------------------------------------------------------------------------
(* The requests and the answers, step by step.                             *)

\* One request for a report of a device is under way at a time, on a link that is open.
LEMMA WaitStep ==
    ASSUME TypeInv, ListInv, LinkInv, WaitInv, RememberInv, Next \/ UNCHANGED vars, ~Reboot, Calm'
    PROVE  WaitInv'
<1> SUFFICES ASSUME NEW b \in Bdas
             PROVE  /\ \A p, q \in Pending(b)' : p = q
                    /\ \A p \in Pending(b)' : Before(p, b)'
  BY DEF WaitInv, Before
<1>1. CASE AsksGet(b)
  BY <1>1, GetAsked DEF Before
<1>2. CASE ~AsksGet(b)
  <2>1. PICK f : \A q \in Pending(b)' :
           \E p \in Pending(b) : q = f[p] /\ IdOf(q, b)' = IdOf(p, b) /\ (Before(p, b) => Before(q, b)')
    BY <1>2, PendingStep DEF Carried
  <2>2. /\ \A p, q \in Pending(b) : p = q
        /\ \A p \in Pending(b) : Before(p, b)
    BY DEF WaitInv, Before
  <2> QED BY <2>1, <2>2
<1> QED BY <1>1, <1>2

\* The application makes a request without OPEN_EVT.
LEMMA AskingOnly ==
    ASSUME TypeInv, OpenEvt, NEW b \in Bdas
    PROVE  ~AsksGet(b)
<1>1. Len(btq') = Len(btq) - 1 /\ Len(btq) \in Nat
  BY TakeIs, PendingIs DEF OpenEvt, TypeInv
<1> QED BY <1>1 DEF AsksGet, Asks

\* The device that will hear the answer remembers the request.
LEMMA RememberStep ==
    ASSUME TypeInv, ListInv, LinkInv, LinkInv', WaitInv, RememberInv, TimerInv, AnsweringInv,
           Next \/ UNCHANGED vars, ~Reboot, Calm'
    PROVE  RememberInv'
<1> SUFFICES ASSUME NEW s \in Slots, NEW b \in Bdas, NEW q \in Pending(b)', Hears(s, b)'
             PROVE  dev'[s].trans = "get_report" /\ dev'[s].report_id = IdOf(q, b)'
  BY DEF RememberInv
<1>1. Hears(s, b) \/ (OpenEvt /\ IsOpen(1, b) /\ 1 \in DOMAIN btq)
  BY HearsStep
<1>2. CASE AsksGet(b)
  <2>1. Hears(s, b) /\ Hears(app.dev, b) /\ app.dev \in Slots
    BY <1>1, <1>2, AskingOnly, AskerHears DEF AsksGet, Asks
  <2>2. s = app.dev
    BY <2>1, OneHears
  <2> QED BY <1>2, <2>2, GetAsked
<1>3. CASE ~AsksGet(b)
  <2>1. PICK p \in Pending(b) : IdOf(q, b)' = IdOf(p, b)
    BY <1>3, PendingStep DEF Carried
  <2>2. Hears(s, b)
    <3> SUFFICES ASSUME IsOpen(1, b), 1 \in DOMAIN btq PROVE FALSE
      BY <1>1
    <3>1. p < 1 /\ p \in Nat /\ p >= 1
      BY PendingIs DEF WaitInv
    <3> QED BY <3>1
  <2>3. dev[s].trans = "get_report" /\ dev[s].report_id = IdOf(p, b)
    BY <2>2 DEF RememberInv
  <2>4. Listed(s) /\ Listed(s)'
    BY <2>2 DEF Hears, LinkInv
  <2>5. ~(ResetTrans /\ s = btc.dev)
    <3> SUFFICES ASSUME ResetTrans, s = btc.dev PROVE FALSE
      OBVIOUS
    <3>1. Answering
      BY <2>3, ResetOwn
    <3>2. Pending(btc.ev.bda) = {} /\ dev[s].handle = btc.ev.bda
      BY <3>1 DEF AnsweringInv
    <3>3. btc.ev.bda = b
      BY <2>2, <3>2 DEF Hears
    <3> QED BY <3>2, <3>3
  <2> QED BY <2>1, <2>3, <2>4, <2>5, MemoryStep
<1> QED BY <1>2, <1>3

\* A timer is that of a transaction which has one.
LEMMA TimerStep ==
    ASSUME TypeInv, ListInv, TimerInv, Next \/ UNCHANGED vars, ~Reboot, Calm'
    PROVE  TimerInv'
<1>1. ASSUME NEW s \in Slots, dev'[s].timer PROVE dev'[s].trans \in TimedOps
  <2>1. CASE Remembers(s) /\ dev'[s].timer = dev[s].timer
    BY <1>1, <2>1 DEF TimerInv, Remembers
  <2>2. CASE AppRequest /\ ~Refused(s, app.op) /\ dev'[s].trans = app.op /\ app.op \in Transactions
             /\ (dev'[s].timer = TimerAfter(s, app.op) \/ app.op \in TimedOps)
    <3>1. ~dev[s].timer
      BY <2>2 DEF TimerInv, Refused, TimedOps
    <3>2. app.op = "get_report" => ~dev'[s].timer
      BY <2>2, <3>1 DEF TimerAfter, TimedOps
    <3> QED BY <1>1, <2>2, <3>1, <3>2 DEF Transactions
  <2>3. CASE TimerReset /\ s = tmr.dev /\ dev'[s].timer = dev[s].timer
    <3>1. "late" \in odd'
      BY <1>1, <2>3 DEF TimerReset
    <3> QED BY <3>1 DEF Calm
  <2> QED BY <1>1, <2>1, <2>2, <2>3, TransStep
<1>2. ASSUME tmr'.pc = "reset" PROVE tmr'.op \in TimedOps
  <2>1. CASE UNCHANGED tmr
    BY <1>2, <2>1 DEF TimerInv
  <2>2. CASE TimerReset
    BY <1>2, <2>2 DEF TimerReset, Resting
  <2>3. ASSUME NEW s \in Slots, TimerFire(s) PROVE tmr'.op \in TimedOps
    <3>1. tmr' = [Resting EXCEPT !.pc = "reset", !.dev = s, !.op = dev[s].trans] /\ dev[s].timer
      BY <2>3 DEF TimerFire
    <3>2. tmr'.op = dev[s].trans
      BY <3>1 DEF Resting
    <3> QED BY <3>1, <3>2 DEF TimerInv
  <2> QED BY <2>1, <2>2, <2>3, Frames DEF Tmr
<1> QED BY <1>1, <1>2 DEF TimerInv

\* How esp_hh_cb comes to an answer, and goes on with it.
LEMMA AnsweringIs ==
    ASSUME TypeInv, Btc, Answering'
    PROVE  \/ /\ AnswerEvt /\ ByHandle(Head(btq).bda) # "none"
              /\ btc'.pc = "answer" /\ btc'.ev = Head(btq) /\ btc'.dev = ByHandle(Head(btq).bda)
           \/ Answer /\ btc'.pc # "answer" /\ btc'.ev = btc.ev /\ btc'.dev = btc.dev
           \/ /\ PostEvent /\ btc.out.e = "feature"
              /\ btc'.pc # "answer" /\ btc'.ev = btc.ev /\ btc'.dev = btc.dev
<1>0. TaskType /\ btc \in Callback
  BY DEF TypeInv, TaskType, BtcType
<1>p. \A p \in {"fail", "status", "reset", "describe"} : p \in Steps
  BY DEF Steps, Working
<1>1. /\ btc'.pc \in {"answer", "reset"} \/ (btc'.pc = "post" /\ btc'.out.e = "feature")
      /\ btc'.ev.op = "get_report"
  BY DEF Answering
<1>2. CASE btc'.pc = "post"
  <2>1. Answer /\ btc'.dev = btc.dev
    BY <1>1, <1>2, PostedIs
  <2>2. CASE Post(Feature(btc.ev, btc.dev))
    <3>1. Feature(btc.ev, btc.dev) \in Message
      BY <2>1, FeatureIs DEF Answer, At
    <3>2. btc'.ev = IF Feature(btc.ev, btc.dev).e = "feature" THEN btc.ev ELSE NoEvent
      BY <1>0, <2>2, <3>1, PostIs
    <3> QED BY <1>2, <2>1, <3>2 DEF Feature
  <2>3. CASE btc' = [btc EXCEPT !.pc = "reset"]
    BY <1>0, <1>2, <1>p, <2>3, StepIs
  <2> QED BY <2>1, <2>2, <2>3 DEF Answer
<1>3. CASE btc'.pc \in {"answer", "reset"}
  <2>1. CASE OpenEvt \/ DscpEvt \/ AddDevEvt \/ CloseEvt \/ DataEvt
    <3>1. \/ \E p \in {"open", "fail", "dequeue", "exists", "add", "close", "data"} : btc'.pc = p
          \/ btc' = Idle \/ btc' = [Idle EXCEPT !.pc = "post", !.out = Told("close", "none", FALSE)]
      BY <2>1 DEF OpenEvt, DscpEvt, AddDevEvt, CloseEvt, DataEvt, Goto
    <3> QED BY <1>3, <3>1, IdleIs DEF Idle
  <2>2. CASE AnswerEvt
    BY <1>3, <2>2, IdleIs DEF AnswerEvt, Goto
  <2>3. CASE OpenLink \/ DscpExists \/ Describe \/ AddDev \/ ResetTrans
    <3>1. \/ \E p \in {"status", "fail", "describe"} : btc'.pc = p
          \/ btc' = Idle
      BY <1>0, <2>3 DEF OpenLink, DscpExists, Describe, AddDev, ResetTrans, Callback
    <3> QED BY <1>3, <3>1, IdleIs
  <2>4. CASE OpenFailed \/ Status \/ Close \/ Data
    <3>1. (\E out : Post(out)) \/ btc' = Idle
      BY <2>4 DEF OpenFailed, Status, Close, Data
    <3>2. \A out : Post(out) => btc'.pc = "post"
      BY <1>0 DEF Post, Callback
    <3> QED BY <1>3, <3>1, <3>2, IdleIs
  <2>5. CASE Answer
    <3>1. \A out : Post(out) => btc'.pc = "post"
      BY <1>0 DEF Post, Callback
    <3>2. btc' = [btc EXCEPT !.pc = "reset"]
      BY <1>3, <2>5, <3>1 DEF Answer
    <3>3. btc'.pc = "reset" /\ btc'.ev = btc.ev /\ btc'.dev = btc.dev
      BY <1>0, <1>p, <3>2, StepIs
    <3> QED BY <2>5, <3>3
  <2>6. CASE PostEvent
    <3>1. CASE btc' = [btc EXCEPT !.pc = "status", !.out = NoPost] \/ btc' = Idle
      <4>1. btc'.pc \in {"status", "idle"}
        BY <1>0, <1>p, <3>1, StepIs, IdleIs
      <4> QED BY <1>3, <4>1
    <3>2. CASE btc' = [btc EXCEPT !.pc = "reset", !.out = NoPost] /\ btc.out.e = "feature"
      <4>1. btc'.pc = "reset" /\ btc'.ev = btc.ev /\ btc'.dev = btc.dev
        BY <1>0, <1>p, <3>2, StepIs
      <4> QED BY <2>6, <3>2, <4>1
    <3>3. \/ btc' = [btc EXCEPT !.pc = "status", !.out = NoPost] \/ btc' = Idle
          \/ btc' = [btc EXCEPT !.pc = "reset", !.out = NoPost] /\ btc.out.e = "feature"
      BY <2>6 DEF PostEvent
    <3> QED BY <3>1, <3>2, <3>3
  <2> QED BY <2>1, <2>2, <2>3, <2>4, <2>5, <2>6 DEF Btc
<1> QED BY <1>1, <1>2, <1>3

\* A device that esp_hh_cb works on is left as it is by the other tasks.
LEMMA OthersStep ==
    ASSUME TypeInv, ListInv, Next \/ UNCHANGED vars, ~Reboot, ~Btc, NEW s \in Slots, Listed(s),
           ~(FreeDevice /\ s = evt.dev)
    PROVE  Same(s)
<1>1. CASE ~Moves
  BY <1>1, DevicesStep
<1>2. CASE FreeDevice
  <2>1. UNCHANGED dev \/ \A r \in Slots \ {evt.dev} : Same(r)
    BY <1>2, FreeSets
  <2> QED BY <1>2, <2>1 DEF Same
<1>3. CASE AppCtor
  <2>1. app.op \in Bdas
    BY <1>3 DEF AppCtor, TypeInv, TaskType, AppType
  <2>2. \A r \in Slots : Ctor(r, app.op) => Same(s)
    BY <2>1, CtorSets
  <2>3. UNCHANGED dev => Same(s)
    BY DEF Same
  <2> QED BY <1>3, <2>2, <2>3 DEF AppCtor
<1> QED BY <1>1, <1>2, <1>3 DEF Moves, Btc

\* An answer is handled for the device that asked.
LEMMA AnsweringStep ==
    ASSUME TypeInv, TypeInv', ListInv, LinkInv, WaitInv, RememberInv, TimerInv, AnsweringInv,
           Next \/ UNCHANGED vars, ~Reboot, Calm'
    PROVE  AnsweringInv'
<1> SUFFICES ASSUME Answering'
             PROVE  /\ Listed(btc.dev)' /\ btc'.ev.bda \in Bdas /\ dev'[btc'.dev].handle = btc'.ev.bda
                    /\ dev'[btc'.dev].trans = "get_report"
                    /\ btc'.pc = "answer" => dev'[btc'.dev].report_id = btc'.ev.id
                    /\ Pending(btc.ev.bda)' = {}
  BY DEF AnsweringInv
<1>1. CASE ~Btc
  <2>1. UNCHANGED <<btc, held>> /\ "btc" \notin dangling /\ "btc" \notin dangling'
    BY <1>1, Frames, DanglingStep DEF Btc, Answering
  <2>2. Answering /\ Unlocked(btc.dev)
    BY <2>1 DEF Answering, Unlocked
  <2>3. PICK s \in Slots, b \in Bdas :
           /\ s = btc.dev /\ b = btc.ev.bda /\ Listed(s) /\ dev[s].handle = b
           /\ dev[s].trans = "get_report" /\ (btc.pc = "answer" => dev[s].report_id = btc.ev.id)
           /\ Pending(b) = {}
    BY <2>2 DEF AnsweringInv, Listed, ToSet, TypeInv, DeviceType
  <2>4. Listed(s)' /\ ~(FreeDevice /\ s = evt.dev)
    <3>1. Listed(btc.dev)' /\ ~(FreeDevice /\ btc.dev = evt.dev)
      BY <2>1, <2>2, <2>3, StaysListed
    <3> QED BY <2>1, <2>3, <3>1
  <2>5. dev'[s].handle = b
    BY <1>1, <2>3, <2>4, OthersStep DEF Same
  <2>6. dev'[s].trans = "get_report" /\ dev'[s].report_id = dev[s].report_id
    BY <1>1, <2>3, <2>4, MemoryStep DEF Btc
  <2>7. Pending(b)' = {}
    <3>1. ~AsksGet(b)
      <4> SUFFICES ASSUME AsksGet(b) PROVE FALSE
        OBVIOUS
      <4>1. Hears(app.dev, b) /\ app.dev \in Slots /\ dev[app.dev].trans = "max"
        BY AskerHears DEF AsksGet, Asks
      <4>2. app.dev = s
        BY <2>3, <4>1, OneHears DEF Hears
      <4> QED BY <2>3, <4>1, <4>2
    <3> QED BY <2>3, <3>1, PendingStep DEF Carried
  <2> QED BY <2>1, <2>3, <2>4, <2>5, <2>6, <2>7
<1>2. CASE AnswerEvt /\ ByHandle(Head(btq).bda) # "none" /\ btc'.pc = "answer" /\ btc'.ev = Head(btq)
           /\ btc'.dev = ByHandle(Head(btq).bda)
  <2>1. PICK b \in Bdas : b = Head(btq).bda
    BY <1>2, TakeIs DEF AnswerEvt, TypeInv
  <2>2. Head(btq).k = "answer" /\ Head(btq) = btq[1] /\ 1 \in DOMAIN btq
    BY <1>2, TakeIs DEF AnswerEvt, TypeInv
  <2>3. PICK d \in Slots : d = ByHandle(b) /\ Listed(d) /\ dev[d].handle = b
    BY <1>2, <2>1, ByHandleIs DEF TypeInv
  <2>4. UNCHANGED <<dev, list, asked>> /\ Taken(b)
    BY <1>2 DEF AnswerEvt, Take, Taken, restOfBtc, stackVars
  <2>5. btq[1].op = "get_report"
    BY <1>2, <2>2 DEF Answering
  <2>6. 1 \in Pending(b) /\ IdOf(1, b) = btq[1].id
    <3>n. PICK n \in Nat, m \in Nat : n = Len(btq) /\ m = Len(asked[b])
      BY PendingIs
    <3>1. 1 <= n /\ 1 \in 1 .. n + m
      <4>1. 1 <= n
        BY <2>2, <3>n, PendingIs
      <4> QED BY <4>1
    <3> QED BY <2>1, <2>2, <2>5, <3>1, <3>n DEF Pending, IdOf
  <2>7. dev[d].trans = "get_report" /\ dev[d].report_id = btq[1].id
    BY <2>3, <2>6 DEF RememberInv, Hears
  <2>8. Pending(b)' = {}
    <3> SUFFICES ASSUME NEW q \in Pending(b)' PROVE FALSE
      OBVIOUS
    <3>1. q + 1 \in Pending(b) /\ q \in Nat /\ q >= 1
      BY <2>4, PendingTaken DEF Pending
    <3>2. q + 1 = 1
      BY <2>6, <3>1 DEF WaitInv
    <3> QED BY <3>1, <3>2
  <2>9. Listed(d)'
    BY <2>3, <2>4 DEF Listed
  <2> QED BY <1>2, <2>1, <2>2, <2>3, <2>4, <2>7, <2>8, <2>9
<1>3. CASE (Answer \/ (PostEvent /\ btc.out.e = "feature")) /\ btc'.pc # "answer" /\ btc'.ev = btc.ev /\ btc'.dev = btc.dev
  <2>1. UNCHANGED <<dev, list, asked, btq, dangling>>
    BY <1>3 DEF Answer, PostEvent, restOfBtc, stackVars
  <2>2. Answering
    <3>1. CASE Answer
      BY <1>3, <3>1 DEF Answer, At, Answering
    <3>2. CASE PostEvent /\ btc.out.e = "feature"
      <4>1. UNCHANGED held
        BY <3>2 DEF PostEvent
      <4> QED BY <1>3, <2>1, <3>2, <4>1 DEF PostEvent, Answering, Unlocked
    <3> QED BY <1>3, <3>1, <3>2
  <2>3. PICK s, b : s = btc.dev /\ b = btc.ev.bda
    OBVIOUS
  <2>4. Listed(s) /\ b \in Bdas /\ dev[s].handle = b /\ dev[s].trans = "get_report" /\ Pending(b) = {}
    BY <2>2, <2>3 DEF AnsweringInv
  <2>5. Pending(b)' = Pending(b) /\ Listed(s)'
    BY <2>1, <2>4 DEF Pending, Listed
  <2> QED BY <1>3, <2>1, <2>3, <2>4, <2>5
<1> QED BY <1>1, <1>2, <1>3, AnsweringIs

\* What esp_hh_cb has to post is about no report, but for an answer.
LEMMA OutIs ==
    ASSUME TypeInv, Btc
    PROVE  btc'.out.op = "none" \/ btc'.out = btc.out \/ (Answer /\ btc'.out = Feature(btc.ev, btc.dev))
<1>0. TaskType /\ btc \in Callback
  BY DEF TypeInv, TaskType, BtcType
<1>n. NoPost.op = "none" /\ \A e, d, good : Told(e, d, good).op = "none"
  BY DEF NoPost, Told
<1>1. CASE OpenEvt \/ DscpEvt \/ AddDevEvt \/ AnswerEvt \/ DataEvt
  <2>1. btc' = Idle \/ \E p, ev, d, good : Goto(p, ev, d, good)
    BY <1>1 DEF OpenEvt, DscpEvt, AddDevEvt, AnswerEvt, DataEvt
  <2> QED BY <1>n, <2>1 DEF Goto, Idle
<1>2. CASE CloseEvt
  <2>1. CASE btc' = [Idle EXCEPT !.pc = "post", !.out = Told("close", "none", FALSE)]
    <3>1. btc'.out = Told("close", "none", FALSE)
      BY <2>1 DEF Idle
    <3> QED BY <1>n, <3>1
  <2>2. CASE \E p, ev, d, good : Goto(p, ev, d, good)
    BY <1>n, <2>2 DEF Goto
  <2> QED BY <1>2, <2>1, <2>2 DEF CloseEvt
<1>3. CASE OpenLink \/ DscpExists \/ Describe \/ AddDev \/ ResetTrans
  <2>1. \/ btc'.out = btc.out
        \/ btc' = Idle
    BY <1>0, <1>3 DEF OpenLink, DscpExists, Describe, AddDev, ResetTrans, Callback
  <2> QED BY <1>n, <2>1 DEF Idle
<1>4. ASSUME NEW out, Post(out) PROVE btc'.out = out
  BY <1>0, <1>4 DEF Post, Callback
<1>5. CASE OpenFailed \/ Status \/ Close \/ Data
  <2>1. (\E e, d, good : Post(Told(e, d, good))) \/ btc' = Idle
    BY <1>5 DEF OpenFailed, Status, Close, Data, Failed
  <2> QED BY <1>4, <1>n, <2>1 DEF Idle
<1>6. CASE Answer
  <2>1. Post(Feature(btc.ev, btc.dev)) \/ btc' = [btc EXCEPT !.pc = "reset"]
    BY <1>6 DEF Answer
  <2>2. CASE btc' = [btc EXCEPT !.pc = "reset"]
    BY <1>0, <2>2 DEF Callback
  <2> QED BY <1>4, <1>6, <2>1, <2>2
<1>7. CASE PostEvent
  <2>1. \/ btc' = Idle
        \/ \E p : btc' = [btc EXCEPT !.pc = p, !.out = NoPost]
    BY <1>7 DEF PostEvent
  <2>2. ASSUME NEW p, btc' = [btc EXCEPT !.pc = p, !.out = NoPost] PROVE btc'.out = NoPost
    BY <1>0, <2>2 DEF Callback
  <2>3. Idle.out = NoPost
    BY DEF Idle
  <2> QED BY <1>n, <2>1, <2>2, <2>3
<1> QED BY <1>1, <1>2, <1>3, <1>5, <1>6, <1>7 DEF Btc

\* An answer is cut by the id that it was asked with.
LEMMA WholeStep ==
    ASSUME TypeInv, AnsweringInv, WholeInv, Next \/ UNCHANGED vars, ~Reboot
    PROVE  WholeInv'
<1>0. queue \in Seq(Message) /\ Len(queue) \in Nat
  BY QueuesAre DEF TypeInv
<1>1. WholeAnswer(btc'.out)
  <2>1. CASE UNCHANGED btc
    BY <2>1 DEF WholeInv
  <2>2. CASE Answer /\ btc'.out = Feature(btc.ev, btc.dev)
    <3> SUFFICES ASSUME btc.ev.op = "get_report" PROVE dev[btc.dev].report_id = btc.ev.id
      BY <2>2 DEF WholeAnswer, Feature
    <3>1. Answering /\ btc.pc = "answer"
      BY <2>2 DEF Answer, At, Answering
    <3> QED BY <3>1 DEF AnsweringInv
  <2>3. CASE btc'.out.op = "none" \/ btc'.out = btc.out
    BY <2>3 DEF WholeAnswer, WholeInv
  <2> QED BY <2>1, <2>2, <2>3, OutIs, Frames
<1>2. ASSUME NEW i \in DOMAIN queue' PROVE WholeAnswer(queue'[i])
  <2>1. CASE UNCHANGED queue
    BY <2>1 DEF WholeInv
  <2>2. CASE PostEvent
    <3>1. queue' = Append(queue, btc.out)
      BY <2>2 DEF PostEvent
    <3>2. (i \in DOMAIN queue /\ queue'[i] = queue[i]) \/ queue'[i] = btc.out
      BY <1>0, <3>1
    <3> QED BY <3>2 DEF WholeInv
  <2>3. CASE TakeEvent
    <3>1. queue # <<>> /\ queue' = Tail(queue)
      BY <2>3 DEF TakeEvent
    <3>2. i + 1 \in DOMAIN queue /\ queue'[i] = queue[i + 1]
      BY <1>0, <3>1
    <3> QED BY <3>2 DEF WholeInv
  <2> QED BY <2>1, <2>2, <2>3, Frames
<1> QED BY <1>1, <1>2 DEF WholeInv

\* All of it, for each step.
LEMMA CalmStep ==
    ASSUME TypeInv, TypeInv', ListInv, LinkInv, LinkInv', CalmInv, Next \/ UNCHANGED vars, ~Reboot
    PROVE  CalmInv'
<1> SUFFICES ASSUME Calm' PROVE WaitInv' /\ RememberInv' /\ TimerInv' /\ AnsweringInv' /\ WholeInv'
  BY DEF CalmInv
<1>1. WaitInv /\ RememberInv /\ TimerInv /\ AnsweringInv /\ WholeInv
  BY CalmGrows DEF CalmInv
<1>2. WaitInv' /\ RememberInv' /\ TimerInv' /\ AnsweringInv' /\ WholeInv'
  BY <1>1, WaitStep, RememberStep, TimerStep, AnsweringStep, WholeStep
<1> QED BY <1>2

\* At the start and after a reset no report is asked for.
FreshLinks ==
    /\ dev = [s \in Slots |-> Free] /\ list = <<>> /\ queue = <<>> /\ btc = Idle
    /\ evt = Resting /\ tmr = Resting /\ btq = <<>>
    /\ link = [b \in Bdas |-> "down"] /\ asked = [b \in Bdas |-> <<>>]

\* The invariants of the links and of the answers hold of it.
LEMMA FreshLinksAre == FreshLinks => LinkInv /\ CalmInv
<1> SUFFICES ASSUME FreshLinks PROVE LinkInv /\ CalmInv
  OBVIOUS
<1>1. /\ \A s \in Slots : /\ dev[s].handle = "none" /\ ~dev[s].connected /\ ~dev[s].timer
                          /\ ~Listed(s)
      /\ btc.pc = "idle" /\ evt.pc = "idle" /\ tmr.pc = "idle" /\ btc.out.op = "none"
  BY IdleIs DEF FreshLinks, Free, Listed, ToSet, Idle, Resting, NoPost, Told
<1>2. /\ DOMAIN btq = {} /\ DOMAIN queue = {} /\ Len(btq) = 0
      /\ \A b \in Bdas : asked[b] = <<>> /\ link[b] = "down" /\ Len(asked[b]) = 0
  BY DEF FreshLinks
<1>3. \A b \in Bdas : Pending(b) = {}
  BY <1>2 DEF Pending
<1>4. LinkInv
  BY <1>1, <1>2 DEF LinkInv, HandleInv, StackInv, Opening
<1>5. CalmInv
  BY <1>1, <1>2, <1>3 DEF CalmInv, WaitInv, RememberInv, TimerInv, AnsweringInv, Answering, WholeInv, WholeAnswer
<1> QED BY <1>4, <1>5

\* The same for the next state.
LEMMA FreshLinksThen == FreshLinks' => LinkInv' /\ CalmInv'
BY FreshLinksAre, PTL

\* The inductive invariant.
LEMMA AnswerInvariant == Spec => [](BtInv /\ LinkInv /\ CalmInv)
<1>1. Init => BtInv /\ LinkInv /\ CalmInv
  BY BtInit, FreshLinksAre DEF Init, FreshLinks
<1>2. ASSUME BtInv, LinkInv, CalmInv, Next \/ UNCHANGED vars
      PROVE  BtInv' /\ LinkInv' /\ CalmInv'
  <2>1. BtInv'
    BY <1>2, BtStep
  <2>2. CASE Reboot
    BY <2>1, <2>2, FreshLinksThen DEF Reboot, FreshLinks
  <2>3. CASE ~Reboot
    <3>1. TypeInv /\ ListInv /\ TypeInv' /\ ListInv'
      BY <1>2, <2>1 DEF BtInv
    <3>2. LinkInv'
      BY <1>2, <2>3, <3>1, LinkStep
    <3>3. CalmInv'
      BY <1>2, <2>3, <3>1, <3>2, CalmStep
    <3> QED BY <2>1, <3>2, <3>3
  <2> QED BY <2>2, <2>3
<1>3. (BtInv /\ LinkInv /\ CalmInv) /\ [Next]_vars => (BtInv /\ LinkInv /\ CalmInv)'
  BY <1>2
<1> QED BY <1>1, <1>3, PTL DEF Spec

\* The answer of a GET_REPORT is delivered with the id it was asked with, unless another
\* answer, or a timeout, came late, or the request was made on a link that its device does
\* not have (bt_hidh.c, GET_RPT_EVT and reset_trans; esp_bt_hidh_dev_report_read).
THEOREM answer_is_whole == Spec => []AnswerIsWhole
<1>1. CalmInv => AnswerIsWhole
  BY DEF CalmInv, Calm, WholeInv, WholeAnswer, AnswerIsWhole
<1> QED BY <1>1, AnswerInvariant, PTL
=============================================================================
