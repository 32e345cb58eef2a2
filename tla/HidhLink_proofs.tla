--------------------------- MODULE HidhLink_proofs ---------------------------
(***************************************************************************)
(* Proofs about HidhLink, for any set of addresses, any discovery and      *)
(* listener scripts, any queue length and any faults.                      *)
(***************************************************************************)
EXTENDS HidhLink, SequenceTheorems, TLAPS

\* The scripts of both calls are sequences of known steps.
LEMMA ScriptType ==
    ASSUME NEW call
    PROVE  Script(call) \in Seq(OpsKinds)
<1>1. DiscoveryOps \in Seq(OpsKinds) /\ ListenerOps \in Seq(OpsKinds)
  BY ScriptAssumption, SeqMonotonic DEF OpsKinds
<1>2. /\ <<"connected", "post">> \in Seq(OpsKinds)
      /\ <<"connected">> \in Seq(OpsKinds)
      /\ <<"post">> \in Seq(OpsKinds)
  BY DEF OpsKinds
<1>. QED
  BY <1>1, <1>2, ConcatProperties DEF Script


-----------------------------------------------------------------------------
(* The inductive invariant.  TypeOK and the three safety properties are    *)
(* not inductive: the conjuncts below add what each party knows of the     *)
(* others between two of its steps.                                        *)

\* A handle that is stored belongs to a structure in the list, and stays stored
\* while N works through the DISCONNECT of its link; no other link comes up
\* before N is done.
HandleInv ==
    /\ \A a \in Addr : conn_id[a] => a \in devices
    /\ npc \in {"lookup", "forget", "closing"} =>
          link = NoAddr /\ ndev \in devices /\ conn_id[ndev]
    /\ link # NoAddr => gap_conn = NoAddr
    /\ LinkKnown

\* The connect and GATT semaphore.
WakeInv ==
    /\ NoStaleWake
    /\ hpc = "wait" => todo # <<>>

\* The security semaphore: nothing is pending when a connection is set up, and
\* only a link can have a security procedure.
SecurityInv ==
    /\ NoStaleSecurity
    /\ hpc \in {"connect", "secure"} => ~pairing /\ ~sec_sem
    /\ pairing => link # NoAddr

\* The parts of NoUseAfterFree, and why a failed open may free its structure:
\* it is new, so that no event and no DISCONNECT handler can have seen it.
MemoryInv ==
    /\ \A i \in 1..Len(evq) : evq[i].dev \in devices
    /\ npc \in {"post", "input"} => ndev \in devices
    /\ hpc \notin {"none", "failed", "aborted"} => hdev \in devices
    /\ hpc = "connect" /\ hcall = "open" =>
          /\ ~dev_connected[hdev]
          /\ \A i \in 1..Len(evq) : evq[i].dev # hdev
          /\ ~(npc \in {"closing", "post", "input"} /\ ndev = hdev)

LinkInv == TypeOK /\ HandleInv /\ WakeInv /\ SecurityInv /\ MemoryInv


-----------------------------------------------------------------------------
(* Type correctness.                                                       *)

\* What an action does to the queue: an event of a known device at its end ...
LEMMA AppendEvent ==
    ASSUME TypeOK, Len(evq) < EvqLen,
           NEW t \in {"OPEN", "CLOSE", "INPUT"}, NEW a \in Addr,
           evq' = Append(evq, Ev(t, a))
    PROVE  /\ evq' \in Seq(Event) /\ Len(evq') <= EvqLen
           /\ Len(evq') = Len(evq) + 1
           /\ \A i \in 1..Len(evq) : evq'[i].dev = evq[i].dev
           /\ evq'[Len(evq) + 1].dev = a
<1>1. Ev(t, a) \in Event /\ Ev(t, a).dev = a
  BY DEF Ev, Event
<1>2. evq \in Seq(Event) /\ Len(evq) \in Nat
  BY LenProperties DEF TypeOK
<1>. QED
  BY <1>1, <1>2, AppendProperties, EvqLenAssumption

\* ... or one less at its head.
LEMMA TailEvents ==
    ASSUME TypeOK, evq # <<>>, evq' = Tail(evq)
    PROVE  /\ evq' \in Seq(Event) /\ Len(evq') <= EvqLen
           /\ Len(evq') = Len(evq) - 1
           /\ Len(evq) \in Nat
           /\ \A i \in 1..Len(evq') : evq'[i] = evq[i + 1]
<1>1. evq \in Seq(Event) /\ Len(evq) \in Nat
  BY LenProperties DEF TypeOK
<1>. QED
  BY <1>1, HeadTailProperties, EvqLenAssumption DEF TypeOK

\* The same for the rest of a call.
LEMMA TailTodo ==
    ASSUME TypeOK, todo # <<>>
    PROVE  Head(todo) \in OpsKinds /\ Tail(todo) \in Seq(OpsKinds)
BY HeadTailProperties DEF TypeOK

\* Every action keeps the types.
LEMMA TypeStep ==
    ASSUME LinkInv, LinkNext
    PROVE  TypeOK'
<1>. USE NoAddrAssumption DEF LinkInv
<1>1. ASSUME NEW a \in Addr, DevOpen(a) PROVE TypeOK'
  <2>1. /\ devices' \subseteq Addr
        /\ conn_id' \in [Addr -> BOOLEAN]
        /\ dev_connected' \in [Addr -> BOOLEAN]
    BY <1>1 DEF DevOpen, TypeOK, devVars
  <2>2. gap_conn' \in Addr \cup {NoAddr}
    BY <1>1 DEF DevOpen, TypeOK, devVars
  <2>3. /\ cb_sem' \in BOOLEAN
        /\ sec_sem' \in BOOLEAN
    BY <1>1 DEF DevOpen, TypeOK, devVars, semVars, DrainSems
  <2>4. hpc' \in {"connect", "failed"}
    BY <1>1 DEF DevOpen
  <2>. QED
    BY <1>1, <2>1, <2>2, <2>3, <2>4 DEF DevOpen, TypeOK, devVars, gapVars,
           procVars, semVars, nVars, callVars
<1>2. ASSUME NEW a \in Addr, DevReconnect(a) PROVE TypeOK'
  BY <1>2 DEF DevReconnect, TypeOK, DrainSems, devVars, gapVars, procVars,
         semVars, nVars, callVars
<1>3. ASSUME NEW a \in Addr, DevClose(a) PROVE TypeOK'
  BY <1>3 DEF DevClose, TypeOK, devVars, gapVars, procVars, semVars, nVars,
         callVars
<1>4. CASE TakeResult
  BY <1>4, EmptySeq DEF TakeResult, TypeOK, devVars, gapVars, procVars,
         semVars, nVars, callVars
<1>5. CASE Disc
  BY <1>5 DEF Disc, TypeOK, devVars, gapVars, procVars, semVars, nVars,
         callVars
<1>6. CASE DiscCancel
  <2>1. scanning' \in BOOLEAN
    BY <1>6 DEF DiscCancel
  <2>. QED
    BY <1>6, <2>1 DEF DiscCancel, TypeOK, devVars, gapVars, procVars, semVars,
           nVars, callVars
<1>7. CASE StoreClear
  BY <1>7 DEF StoreClear, TypeOK, devVars, gapVars, procVars, semVars, nVars,
         callVars
<1>8. CASE ConnectReturn
  <2>1. cb_sem' \in BOOLEAN
    BY <1>8 DEF ConnectReturn
  <2>2. devices' \subseteq Addr
    BY <1>8 DEF ConnectReturn, TypeOK, devVars
  <2>3. hpc' \in {"secure", "failed"}
    BY <1>8 DEF ConnectReturn
  <2>. QED
    BY <1>8, <2>1, <2>2, <2>3 DEF ConnectReturn, TypeOK, devVars, gapVars,
           procVars, semVars, nVars, callVars
<1>9. CASE InitiateSecurity
  <2>1. pairing' \in BOOLEAN
    BY <1>9 DEF InitiateSecurity, TypeOK, devVars
  <2>2. todo' \in Seq(OpsKinds)
    BY <1>9, ScriptType DEF InitiateSecurity
  <2>3. hpc' \in {"encrypt", "run"}
    BY <1>9 DEF InitiateSecurity
  <2>. QED
    BY <1>9, <2>1, <2>2, <2>3 DEF InitiateSecurity, TypeOK, devVars, gapVars,
           procVars, semVars, nVars, callVars
<1>10. CASE SecurityReturn
  <2>1. sec_sem' \in BOOLEAN
    BY <1>10 DEF SecurityReturn
  <2>. QED
    BY <1>10, <2>1 DEF SecurityReturn, TypeOK, devVars, gapVars, procVars,
           semVars, nVars, callVars
<1>11. CASE SecurityTimeout
  BY <1>11 DEF SecurityTimeout, TypeOK, devVars, gapVars, procVars, semVars,
         nVars, callVars
<1>12. CASE StartGattOp
  <2>1. gatt_op' \in {"none", "disc", "read", "write"}
    BY <1>12 DEF StartGattOp, TypeOK, devVars
  <2>2. todo' \in Seq(OpsKinds)
    BY <1>12, TailTodo DEF StartGattOp, TypeOK, devVars
  <2>3. hpc' \in {"run", "wait"}
    BY <1>12 DEF StartGattOp
  <2>. QED
    BY <1>12, <2>1, <2>2, <2>3 DEF StartGattOp, TypeOK, devVars, gapVars,
           procVars, semVars, nVars, callVars
<1>13. CASE GattReturn
  <2>1. cb_sem' \in BOOLEAN
    BY <1>13 DEF GattReturn
  <2>2. todo' \in Seq(OpsKinds)
    BY <1>13, TailTodo DEF GattReturn, TypeOK, devVars, WakeInv
  <2>3. hpc' \in {"run", "aborted"}
    BY <1>13 DEF GattReturn
  <2>. QED
    BY <1>13, <2>1, <2>2, <2>3 DEF GattReturn, TypeOK, devVars, gapVars,
           procVars, semVars, nVars, callVars
<1>14. CASE MarkConnected
  <2>1. dev_connected' \in [Addr -> BOOLEAN]
    BY <1>14 DEF MarkConnected, TypeOK, devVars
  <2>2. todo' \in Seq(OpsKinds)
    BY <1>14, TailTodo DEF MarkConnected
  <2>. QED
    BY <1>14, <2>1, <2>2 DEF MarkConnected, TypeOK, devVars, gapVars,
           procVars, semVars, nVars, callVars
<1>15. CASE PostOpen
  BY <1>15, AppendEvent, TailTodo DEF PostOpen, TypeOK, MemoryInv, devVars,
         gapVars, procVars, semVars, nVars, callVars
<1>16. CASE CallDone
  BY <1>16 DEF CallDone, TypeOK, devVars, gapVars, procVars, semVars, nVars,
         callVars
<1>17. CASE ConnectOk
  <2>1. /\ link' \in Addr \cup {NoAddr}
        /\ gap_conn' \in Addr \cup {NoAddr}
    BY <1>17 DEF ConnectOk, TypeOK, devVars
  <2>2. conn_id' \in [Addr -> BOOLEAN]
    BY <1>17 DEF ConnectOk, TypeOK, devVars
  <2>3. cb_sem' \in BOOLEAN
    BY <1>17 DEF ConnectOk
  <2>4. UNCHANGED <<devices, dev_connected, scanning, terminating, procVars,
                    sec_sem, bonds, nVars, evq, callVars>>
    BY <1>17 DEF ConnectOk
  <2>. QED
    BY <2>1, <2>2, <2>3, <2>4 DEF TypeOK, procVars, nVars, callVars
<1>18. CASE ConnectFail
  BY <1>18 DEF ConnectFail, TypeOK, devVars, gapVars, procVars, semVars,
         nVars, callVars
<1>19. CASE EncChange
  <2>1. /\ pairing' \in BOOLEAN
        /\ sec_sem' \in BOOLEAN
    BY <1>19 DEF EncChange
  <2>2. bonds' \subseteq Addr
    BY <1>19 DEF EncChange, TypeOK, SecurityInv
  <2>. QED
    BY <1>19, <2>1, <2>2 DEF EncChange, TypeOK, devVars, gapVars, procVars,
           semVars, nVars, callVars
<1>20. CASE RepeatPairing
  BY <1>20 DEF RepeatPairing, TypeOK, devVars, gapVars, procVars, semVars,
         nVars, callVars
<1>21. ASSUME NEW ok \in BOOLEAN, GattEnd(ok) PROVE TypeOK'
  BY <1>21 DEF GattEnd, TypeOK, devVars, gapVars, procVars, semVars, nVars,
         callVars
<1>22. CASE LinkDrop
  BY <1>22 DEF LinkDrop, TypeOK, devVars, gapVars, procVars, semVars, nVars,
         callVars
<1>23. CASE DisconnectLookup
  <2>1. dev_connected' \in [Addr -> BOOLEAN]
    BY <1>23 DEF DisconnectLookup, TypeOK, devVars
  <2>2. /\ npc' \in {"idle", "lookup", "forget", "closing", "post", "input"}
        /\ ndev' \in Addr \cup {NoAddr}
    BY <1>23 DEF DisconnectLookup, TypeOK, devVars
  <2>. QED
    BY <1>23, <2>1, <2>2 DEF DisconnectLookup, TypeOK, devVars, gapVars,
           procVars, semVars, nVars, callVars
<1>24. CASE ForgetConnId
  <2>1. conn_id' \in [Addr -> BOOLEAN]
    BY <1>24 DEF ForgetConnId, TypeOK, devVars
  <2>2. /\ npc' \in {"idle", "lookup", "forget", "closing", "post", "input"}
        /\ ndev' \in Addr \cup {NoAddr}
    BY <1>24 DEF ForgetConnId, TypeOK, devVars
  <2>. QED
    BY <1>24, <2>1, <2>2 DEF ForgetConnId, TypeOK, devVars, gapVars, procVars,
           semVars, nVars, callVars
<1>25. CASE PostClose
  BY <1>25, AppendEvent DEF PostClose, TypeOK, MemoryInv, devVars, gapVars,
         procVars, semVars, nVars, callVars
<1>26. CASE NotifyRx
  BY <1>26 DEF NotifyRx, TypeOK, devVars, gapVars, procVars, semVars, nVars,
         callVars
<1>27. CASE PostInput
  BY <1>27, AppendEvent DEF PostInput, TypeOK, MemoryInv, devVars, gapVars,
         procVars, semVars, nVars, callVars
<1>28. CASE Deliver
  BY <1>28, TailEvents DEF Deliver, TypeOK, devVars, gapVars, procVars,
         semVars, nVars, callVars
<1>29. CASE Reboot
  <2>1. /\ devices' \subseteq Addr
        /\ conn_id' \in [Addr -> BOOLEAN]
        /\ dev_connected' \in [Addr -> BOOLEAN]
    BY <1>29 DEF Reboot, TypeOK, devVars
  <2>2. /\ link' \in Addr \cup {NoAddr}
        /\ gap_conn' \in Addr \cup {NoAddr}
        /\ ndev' \in Addr \cup {NoAddr}
        /\ hdev' \in Addr \cup {NoAddr}
    BY <1>29 DEF Reboot
  <2>3. /\ scanning' \in BOOLEAN
        /\ pairing' \in BOOLEAN
        /\ terminating' \in BOOLEAN
        /\ status_ok' \in BOOLEAN
        /\ cb_sem' \in BOOLEAN
        /\ sec_sem' \in BOOLEAN
    BY <1>29 DEF Reboot
  <2>4. /\ gatt_op' \in {"none", "disc", "read", "write"}
        /\ npc' \in {"idle", "lookup", "forget", "closing", "post", "input"}
        /\ hcall' \in {"open", "reconnect"}
    BY <1>29 DEF Reboot
  <2>5. hpc' \in {"none"}
    BY <1>29 DEF Reboot
  <2>6. evq' \in Seq(Event) /\ Len(evq') <= EvqLen
    BY <1>29, EmptySeq, EvqLenAssumption DEF Reboot
  <2>7. todo' \in Seq(OpsKinds)
    BY <1>29, EmptySeq DEF Reboot
  <2>. QED
    BY <1>29, <2>1, <2>2, <2>3, <2>4, <2>5, <2>6, <2>7 DEF Reboot, TypeOK,
           devVars, gapVars, procVars, semVars, nVars, callVars
<1>. QED
  BY <1>1, <1>2, <1>3, <1>4, <1>5, <1>6, <1>7, <1>8, <1>9, <1>10, <1>11,
         <1>12, <1>13, <1>14, <1>15, <1>16, <1>17, <1>18, <1>19, <1>20, <1>21,
         <1>22, <1>23, <1>24, <1>25, <1>26, <1>27, <1>28, <1>29 DEF LinkNext,
         CallStep, HostStep

-----------------------------------------------------------------------------
(* The other parts of the invariant, one action at a time.                 *)

\* What a step does to the handles.
LEMMA HandleStep ==
    ASSUME LinkInv, LinkNext
    PROVE  HandleInv'
<1>. USE NoAddrAssumption DEF LinkInv, TypeOK, devVars, gapVars, procVars,
          semVars, nVars, callVars
<1>1. ASSUME NEW a \in Addr, DevOpen(a) PROVE HandleInv'
  BY <1>1 DEF DevOpen, HandleInv, LinkKnown, ConnectRefused, MemoryInv
<1>2. ASSUME NEW a \in Addr, DevReconnect(a) PROVE HandleInv'
  BY <1>2 DEF DevReconnect, HandleInv, LinkKnown, ConnectRefused
<1>3. ASSUME NEW a \in Addr, DevClose(a) PROVE HandleInv'
  BY <1>3 DEF DevClose, HandleInv, LinkKnown
<1>4. CASE TakeResult
  BY <1>4 DEF TakeResult, HandleInv, LinkKnown
<1>5. CASE Disc
  BY <1>5 DEF Disc, HandleInv, LinkKnown
<1>6. CASE DiscCancel
  BY <1>6 DEF DiscCancel, HandleInv, LinkKnown
<1>7. CASE StoreClear
  BY <1>7 DEF StoreClear, HandleInv, LinkKnown
<1>8. CASE ConnectReturn
  BY <1>8 DEF ConnectReturn, HandleInv, LinkKnown, MemoryInv
<1>9. CASE InitiateSecurity
  BY <1>9 DEF InitiateSecurity, HandleInv, LinkKnown
<1>10. CASE SecurityReturn
  BY <1>10 DEF SecurityReturn, HandleInv, LinkKnown
<1>11. CASE SecurityTimeout
  BY <1>11 DEF SecurityTimeout, HandleInv, LinkKnown
<1>12. CASE StartGattOp
  BY <1>12 DEF StartGattOp, HandleInv, LinkKnown
<1>13. CASE GattReturn
  BY <1>13 DEF GattReturn, HandleInv, LinkKnown
<1>14. CASE MarkConnected
  BY <1>14 DEF MarkConnected, HandleInv, LinkKnown
<1>15. CASE PostOpen
  BY <1>15 DEF PostOpen, HandleInv, LinkKnown
<1>16. CASE CallDone
  BY <1>16 DEF CallDone, HandleInv, LinkKnown
<1>17. CASE ConnectOk
  BY <1>17 DEF ConnectOk, HandleInv, LinkKnown, MemoryInv, WakeInv, NoStaleWake
<1>18. CASE ConnectFail
  BY <1>18 DEF ConnectFail, HandleInv, LinkKnown
<1>19. CASE EncChange
  BY <1>19 DEF EncChange, HandleInv, LinkKnown
<1>20. CASE RepeatPairing
  BY <1>20 DEF RepeatPairing, HandleInv, LinkKnown
<1>21. ASSUME NEW ok \in BOOLEAN, GattEnd(ok) PROVE HandleInv'
  BY <1>21 DEF GattEnd, HandleInv, LinkKnown
<1>22. CASE LinkDrop
  BY <1>22 DEF LinkDrop, HandleInv, LinkKnown
<1>23. CASE DisconnectLookup
  BY <1>23 DEF DisconnectLookup, HandleInv, LinkKnown
<1>24. CASE ForgetConnId
  BY <1>24 DEF ForgetConnId, HandleInv, LinkKnown
<1>25. CASE PostClose
  BY <1>25 DEF PostClose, HandleInv, LinkKnown
<1>26. CASE NotifyRx
  BY <1>26 DEF NotifyRx, HandleInv, LinkKnown
<1>27. CASE PostInput
  BY <1>27 DEF PostInput, HandleInv, LinkKnown
<1>28. CASE Deliver
  BY <1>28 DEF Deliver, HandleInv, LinkKnown
<1>29. CASE Reboot
  BY <1>29 DEF Reboot, HandleInv, LinkKnown
<1>. QED
  BY <1>1, <1>2, <1>3, <1>4, <1>5, <1>6, <1>7, <1>8, <1>9, <1>10, <1>11,
       <1>12, <1>13, <1>14, <1>15, <1>16, <1>17, <1>18, <1>19, <1>20, <1>21,
       <1>22, <1>23, <1>24, <1>25, <1>26, <1>27, <1>28, <1>29 DEF LinkNext,
     CallStep, HostStep

\* What a step does to the connect and GATT semaphore.
LEMMA WakeStep ==
    ASSUME LinkInv, LinkNext
    PROVE  WakeInv'
<1>. USE NoAddrAssumption DEF LinkInv, TypeOK, devVars, gapVars, procVars,
          semVars, nVars, callVars
<1>1. ASSUME NEW a \in Addr, DevOpen(a) PROVE WakeInv'
  BY <1>1 DEF DevOpen, WakeInv, NoStaleWake, ConnectRefused, DrainSems
<1>2. ASSUME NEW a \in Addr, DevReconnect(a) PROVE WakeInv'
  BY <1>2 DEF DevReconnect, WakeInv, NoStaleWake, ConnectRefused, DrainSems
<1>3. ASSUME NEW a \in Addr, DevClose(a) PROVE WakeInv'
  BY <1>3 DEF DevClose, WakeInv, NoStaleWake
<1>4. CASE TakeResult
  BY <1>4 DEF TakeResult, WakeInv, NoStaleWake
<1>5. CASE Disc
  BY <1>5 DEF Disc, WakeInv, NoStaleWake
<1>6. CASE DiscCancel
  BY <1>6 DEF DiscCancel, WakeInv, NoStaleWake
<1>7. CASE StoreClear
  BY <1>7 DEF StoreClear, WakeInv, NoStaleWake
<1>8. CASE ConnectReturn
  BY <1>8 DEF ConnectReturn, WakeInv, NoStaleWake
<1>9. CASE InitiateSecurity
  BY <1>9 DEF InitiateSecurity, WakeInv, NoStaleWake
<1>10. CASE SecurityReturn
  BY <1>10 DEF SecurityReturn, WakeInv, NoStaleWake
<1>11. CASE SecurityTimeout
  BY <1>11 DEF SecurityTimeout, WakeInv, NoStaleWake
<1>12. CASE StartGattOp
  BY <1>12, TailTodo DEF StartGattOp, WakeInv, NoStaleWake, LinkAlive
<1>13. CASE GattReturn
  BY <1>13 DEF GattReturn, WakeInv, NoStaleWake
<1>14. CASE MarkConnected
  BY <1>14 DEF MarkConnected, WakeInv, NoStaleWake
<1>15. CASE PostOpen
  BY <1>15 DEF PostOpen, WakeInv, NoStaleWake
<1>16. CASE CallDone
  BY <1>16 DEF CallDone, WakeInv, NoStaleWake
<1>17. CASE ConnectOk
  BY <1>17 DEF ConnectOk, WakeInv, NoStaleWake, HandleInv
<1>18. CASE ConnectFail
  BY <1>18 DEF ConnectFail, WakeInv, NoStaleWake
<1>19. CASE EncChange
  BY <1>19 DEF EncChange, WakeInv, NoStaleWake
<1>20. CASE RepeatPairing
  BY <1>20 DEF RepeatPairing, WakeInv, NoStaleWake
<1>21. ASSUME NEW ok \in BOOLEAN, GattEnd(ok) PROVE WakeInv'
  BY <1>21 DEF GattEnd, WakeInv, NoStaleWake
<1>22. CASE LinkDrop
  BY <1>22 DEF LinkDrop, WakeInv, NoStaleWake, HandleInv
<1>23. CASE DisconnectLookup
  BY <1>23 DEF DisconnectLookup, WakeInv, NoStaleWake
<1>24. CASE ForgetConnId
  BY <1>24 DEF ForgetConnId, WakeInv, NoStaleWake
<1>25. CASE PostClose
  BY <1>25 DEF PostClose, WakeInv, NoStaleWake
<1>26. CASE NotifyRx
  BY <1>26 DEF NotifyRx, WakeInv, NoStaleWake
<1>27. CASE PostInput
  BY <1>27 DEF PostInput, WakeInv, NoStaleWake
<1>28. CASE Deliver
  BY <1>28 DEF Deliver, WakeInv, NoStaleWake
<1>29. CASE Reboot
  BY <1>29 DEF Reboot, WakeInv, NoStaleWake
<1>. QED
  BY <1>1, <1>2, <1>3, <1>4, <1>5, <1>6, <1>7, <1>8, <1>9, <1>10, <1>11,
       <1>12, <1>13, <1>14, <1>15, <1>16, <1>17, <1>18, <1>19, <1>20, <1>21,
       <1>22, <1>23, <1>24, <1>25, <1>26, <1>27, <1>28, <1>29 DEF LinkNext,
     CallStep, HostStep

\* What a step does to the security semaphore.
LEMMA SecurityStep ==
    ASSUME LinkInv, LinkNext
    PROVE  SecurityInv'
<1>. USE NoAddrAssumption DEF LinkInv, TypeOK, devVars, gapVars, procVars,
          semVars, nVars, callVars
<1>1. ASSUME NEW a \in Addr, DevOpen(a) PROVE SecurityInv'
  BY <1>1 DEF DevOpen, SecurityInv, NoStaleSecurity, ConnectRefused, DrainSems
<1>2. ASSUME NEW a \in Addr, DevReconnect(a) PROVE SecurityInv'
  BY <1>2 DEF DevReconnect, SecurityInv, NoStaleSecurity, ConnectRefused,
       DrainSems
<1>3. ASSUME NEW a \in Addr, DevClose(a) PROVE SecurityInv'
  BY <1>3 DEF DevClose, SecurityInv, NoStaleSecurity
<1>4. CASE TakeResult
  BY <1>4 DEF TakeResult, SecurityInv, NoStaleSecurity
<1>5. CASE Disc
  BY <1>5 DEF Disc, SecurityInv, NoStaleSecurity
<1>6. CASE DiscCancel
  BY <1>6 DEF DiscCancel, SecurityInv, NoStaleSecurity
<1>7. CASE StoreClear
  BY <1>7 DEF StoreClear, SecurityInv, NoStaleSecurity
<1>8. CASE ConnectReturn
  BY <1>8 DEF ConnectReturn, SecurityInv, NoStaleSecurity
<1>9. CASE InitiateSecurity
  BY <1>9 DEF InitiateSecurity, SecurityInv, NoStaleSecurity, LinkAlive,
       MemoryInv
<1>10. CASE SecurityReturn
  BY <1>10 DEF SecurityReturn, SecurityInv, NoStaleSecurity
<1>11. CASE SecurityTimeout
  BY <1>11 DEF SecurityTimeout, SecurityInv, NoStaleSecurity
<1>12. CASE StartGattOp
  BY <1>12 DEF StartGattOp, SecurityInv, NoStaleSecurity
<1>13. CASE GattReturn
  BY <1>13 DEF GattReturn, SecurityInv, NoStaleSecurity
<1>14. CASE MarkConnected
  BY <1>14 DEF MarkConnected, SecurityInv, NoStaleSecurity
<1>15. CASE PostOpen
  BY <1>15 DEF PostOpen, SecurityInv, NoStaleSecurity
<1>16. CASE CallDone
  BY <1>16 DEF CallDone, SecurityInv, NoStaleSecurity
<1>17. CASE ConnectOk
  BY <1>17 DEF ConnectOk, SecurityInv, NoStaleSecurity
<1>18. CASE ConnectFail
  BY <1>18 DEF ConnectFail, SecurityInv, NoStaleSecurity
<1>19. CASE EncChange
  BY <1>19 DEF EncChange, SecurityInv, NoStaleSecurity
<1>20. CASE RepeatPairing
  BY <1>20 DEF RepeatPairing, SecurityInv, NoStaleSecurity
<1>21. ASSUME NEW ok \in BOOLEAN, GattEnd(ok) PROVE SecurityInv'
  BY <1>21 DEF GattEnd, SecurityInv, NoStaleSecurity
<1>22. CASE LinkDrop
  BY <1>22 DEF LinkDrop, SecurityInv, NoStaleSecurity
<1>23. CASE DisconnectLookup
  BY <1>23 DEF DisconnectLookup, SecurityInv, NoStaleSecurity
<1>24. CASE ForgetConnId
  BY <1>24 DEF ForgetConnId, SecurityInv, NoStaleSecurity
<1>25. CASE PostClose
  BY <1>25 DEF PostClose, SecurityInv, NoStaleSecurity
<1>26. CASE NotifyRx
  BY <1>26 DEF NotifyRx, SecurityInv, NoStaleSecurity
<1>27. CASE PostInput
  BY <1>27 DEF PostInput, SecurityInv, NoStaleSecurity
<1>28. CASE Deliver
  BY <1>28 DEF Deliver, SecurityInv, NoStaleSecurity
<1>29. CASE Reboot
  BY <1>29 DEF Reboot, SecurityInv, NoStaleSecurity
<1>. QED
  BY <1>1, <1>2, <1>3, <1>4, <1>5, <1>6, <1>7, <1>8, <1>9, <1>10, <1>11,
       <1>12, <1>13, <1>14, <1>15, <1>16, <1>17, <1>18, <1>19, <1>20, <1>21,
       <1>22, <1>23, <1>24, <1>25, <1>26, <1>27, <1>28, <1>29 DEF LinkNext,
     CallStep, HostStep

\* What a step does to the list and the pointers into it.
LEMMA MemoryStep ==
    ASSUME LinkInv, LinkNext
    PROVE  MemoryInv'
<1>. USE NoAddrAssumption DEF LinkInv, TypeOK, devVars, gapVars, procVars,
          semVars, nVars, callVars
<1>1. ASSUME NEW a \in Addr, DevOpen(a) PROVE MemoryInv'
  BY <1>1 DEF DevOpen, MemoryInv, HandleInv
<1>2. ASSUME NEW a \in Addr, DevReconnect(a) PROVE MemoryInv'
  BY <1>2 DEF DevReconnect, MemoryInv
<1>3. ASSUME NEW a \in Addr, DevClose(a) PROVE MemoryInv'
  BY <1>3 DEF DevClose, MemoryInv
<1>4. CASE TakeResult
  BY <1>4 DEF TakeResult, MemoryInv
<1>5. CASE Disc
  BY <1>5 DEF Disc, MemoryInv
<1>6. CASE DiscCancel
  BY <1>6 DEF DiscCancel, MemoryInv
<1>7. CASE StoreClear
  BY <1>7 DEF StoreClear, MemoryInv
<1>8. CASE ConnectReturn
  BY <1>8 DEF ConnectReturn, MemoryInv, HandleInv
<1>9. CASE InitiateSecurity
  BY <1>9 DEF InitiateSecurity, MemoryInv
<1>10. CASE SecurityReturn
  BY <1>10 DEF SecurityReturn, MemoryInv
<1>11. CASE SecurityTimeout
  BY <1>11 DEF SecurityTimeout, MemoryInv
<1>12. CASE StartGattOp
  BY <1>12 DEF StartGattOp, MemoryInv
<1>13. CASE GattReturn
  BY <1>13 DEF GattReturn, MemoryInv
<1>14. CASE MarkConnected
  BY <1>14 DEF MarkConnected, MemoryInv
<1>15. CASE PostOpen
  BY <1>15, AppendEvent DEF PostOpen, MemoryInv
<1>16. CASE CallDone
  BY <1>16 DEF CallDone, MemoryInv
<1>17. CASE ConnectOk
  BY <1>17 DEF ConnectOk, MemoryInv
<1>18. CASE ConnectFail
  BY <1>18 DEF ConnectFail, MemoryInv
<1>19. CASE EncChange
  BY <1>19 DEF EncChange, MemoryInv
<1>20. CASE RepeatPairing
  BY <1>20 DEF RepeatPairing, MemoryInv
<1>21. ASSUME NEW ok \in BOOLEAN, GattEnd(ok) PROVE MemoryInv'
  BY <1>21 DEF GattEnd, MemoryInv
<1>22. CASE LinkDrop
  BY <1>22 DEF LinkDrop, MemoryInv
<1>23. CASE DisconnectLookup
  BY <1>23 DEF DisconnectLookup, MemoryInv, HandleInv
<1>24. CASE ForgetConnId
  BY <1>24 DEF ForgetConnId, MemoryInv, HandleInv
<1>25. CASE PostClose
  BY <1>25, AppendEvent DEF PostClose, MemoryInv
<1>26. CASE NotifyRx
  BY <1>26 DEF NotifyRx, MemoryInv
<1>27. CASE PostInput
  BY <1>27, AppendEvent DEF PostInput, MemoryInv
<1>28. CASE Deliver
  BY <1>28, TailEvents DEF Deliver, MemoryInv
<1>29. CASE Reboot
  BY <1>29 DEF Reboot, MemoryInv
<1>. QED
  BY <1>1, <1>2, <1>3, <1>4, <1>5, <1>6, <1>7, <1>8, <1>9, <1>10, <1>11,
       <1>12, <1>13, <1>14, <1>15, <1>16, <1>17, <1>18, <1>19, <1>20, <1>21,
       <1>22, <1>23, <1>24, <1>25, <1>26, <1>27, <1>28, <1>29 DEF LinkNext,
     CallStep, HostStep

-----------------------------------------------------------------------------
(* The theorems.                                                           *)

\* The invariant holds when the component starts ...
LEMMA InitHolds == LinkInit => LinkInv
<1>1. LinkInit => TypeOK
  <2>. SUFFICES ASSUME LinkInit PROVE TypeOK
    OBVIOUS
  <2>1. /\ devices \subseteq Addr /\ bonds \subseteq Addr
        /\ conn_id \in [Addr -> BOOLEAN] /\ dev_connected \in [Addr -> BOOLEAN]
    BY DEF LinkInit
  <2>2. /\ scanning \in BOOLEAN /\ pairing \in BOOLEAN
        /\ terminating \in BOOLEAN /\ status_ok \in BOOLEAN
        /\ cb_sem \in BOOLEAN /\ sec_sem \in BOOLEAN
    BY DEF LinkInit
  <2>3. /\ evq \in Seq(Event) /\ Len(evq) <= EvqLen
        /\ todo \in Seq(OpsKinds)
    BY EmptySeq, EvqLenAssumption DEF LinkInit
  <2>. QED
    BY <2>1, <2>2, <2>3 DEF LinkInit, TypeOK
<1>2. LinkInit => HandleInv /\ WakeInv /\ SecurityInv /\ MemoryInv
  BY EmptySeq DEF LinkInit, HandleInv, LinkKnown, WakeInv, NoStaleWake,
     SecurityInv, NoStaleSecurity, MemoryInv
<1>. QED
  BY <1>1, <1>2 DEF LinkInv

\* ... and a step that changes nothing keeps it.
LEMMA StutterHolds == LinkInv /\ UNCHANGED linkVars => LinkInv'
BY DEF LinkInv, TypeOK, HandleInv, LinkKnown, WakeInv, NoStaleWake, SecurityInv,
       NoStaleSecurity, MemoryInv, linkVars, devVars, gapVars, procVars, semVars,
       nVars, callVars

\* The invariant that carries every safety property of this module.
THEOREM LinkInvariant == LinkSpec => []LinkInv
<1>1. LinkInit => LinkInv
  BY InitHolds
<1>2. LinkInv /\ [LinkNext]_linkVars => LinkInv'
  BY StutterHolds, TypeStep, HandleStep, WakeStep, SecurityStep, MemoryStep
     DEF LinkInv
<1>. QED
  BY <1>1, <1>2, PTL DEF LinkSpec

\* The event queue never holds more than its length, a call never runs out of
\* script, and every field keeps its type.
THEOREM TypeCorrect == LinkSpec => []TypeOK
<1>1. LinkInv => TypeOK
  BY DEF LinkInv
<1>. QED
  BY <1>1, LinkInvariant, PTL

\* esp_hidh_dev_free_inner of a failed open: no event, no handler and no caller
\* still holds the structure.
THEOREM MemorySafe == LinkSpec => []NoUseAfterFree
<1>1. LinkInv => NoUseAfterFree
  <2>. SUFFICES ASSUME LinkInv PROVE HeldDevices \subseteq devices
    BY DEF NoUseAfterFree
  <2>1. DOMAIN evq = 1..Len(evq)
    BY LenProperties DEF LinkInv, TypeOK
  <2>. QED
    BY <2>1 DEF HeldDevices, LinkInv, MemoryInv, HandleInv
<1>. QED
  BY <1>1, LinkInvariant, PTL

\* The list and the host agree on which link is whose.
THEOREM HandlesAgree == LinkSpec => []LinkKnown
<1>1. LinkInv => LinkKnown
  BY DEF LinkInv, HandleInv
<1>. QED
  BY <1>1, LinkInvariant, PTL

\* One binary semaphore is enough for all WAIT_CBs.
THEOREM NoEarlyWake == LinkSpec => []NoStaleWake
<1>1. LinkInv => NoStaleWake
  BY DEF LinkInv, WakeInv
<1>. QED
  BY <1>1, LinkInvariant, PTL

\* The 30 s security wait never ends for an earlier link.
THEOREM NoEarlySecurity == LinkSpec => []NoStaleSecurity
<1>1. LinkInv => NoStaleSecurity
  BY DEF LinkInv, SecurityInv
<1>. QED
  BY <1>1, LinkInvariant, PTL
=============================================================================
