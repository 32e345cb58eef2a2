---------------------------- MODULE KbdHost_proofs ----------------------------
(***************************************************************************)
(* Proofs about KbdHost, in two parts.  The first, for any constants: it   *)
(* uses the HIDH layer as HidhLink allows, so that everything proved of    *)
(* HidhLink holds in it, and the pointers and indices it keeps stay valid. *)
(* The second part is about calm surroundings.                             *)
(***************************************************************************)
EXTENDS KbdHost, HidhLink_proofs

\* The inductive invariant.  A failed open frees its own structure only: while
\* it waits for the connection, that structure is not the one hidh_cb knows.
KbdInv ==
    /\ LinkInv /\ KbdTypeOK
    /\ SelectedInRange /\ ScanLoopScans /\ HidhDevAlive
    /\ hpc = "connect" /\ hcall = "open" => s_hidh_dev # hdev

-----------------------------------------------------------------------------

\* Every step of the component is a step of the HIDH layer or leaves it alone.
LEMMA CallsAreAllowed ==
    ASSUME KbdInv, Next
    PROVE  [LinkNext]_linkVars
<1>1. CASE Top
  BY <1>1 DEF Top, LinkNext
<1>2. CASE WaitReceive
  BY <1>2 DEF WaitReceive, LinkNext
<1>3. CASE WaitEmpty
  BY <1>3 DEF WaitEmpty, LinkNext
<1>4. CASE LightReconnect
  BY <1>4 DEF LightReconnect, KbdInv, KbdTypeOK, LinkNext
<1>5. CASE LightReturn
  BY <1>5 DEF LightReturn, LinkNext
<1>6. CASE NoBond
  BY <1>6 DEF NoBond, LinkNext
<1>7. CASE BondedOpen
  BY <1>7 DEF BondedOpen, KbdInv, LinkInv, TypeOK, LinkNext
<1>8. CASE OpenReturn
  BY <1>8 DEF OpenReturn, LinkNext
<1>9. CASE OpenDone
  BY <1>9 DEF OpenDone, LinkNext
<1>10. CASE OpenWaitTimeout
  BY <1>10 DEF OpenWaitTimeout, LinkNext
<1>11. CASE BondedBail
  BY <1>11 DEF BondedBail, LinkNext
<1>12. CASE OpenBail
  BY <1>12 DEF OpenBail, LinkNext
<1>13. CASE Bail
  BY <1>13 DEF Bail, LinkNext
<1>14. CASE CheckTake
  BY <1>14 DEF CheckTake, LinkNext
<1>15. CASE CheckGive
  BY <1>15 DEF CheckGive, LinkNext
<1>16. CASE CheckFails
  BY <1>16 DEF CheckFails, LinkNext
<1>17. CASE DoPair
  BY <1>17 DEF DoPair, LinkNext
<1>18. CASE StartScan
  BY <1>18 DEF StartScan, LinkNext
<1>19. CASE ScanStart
  BY <1>19 DEF ScanStart, LinkNext
<1>20. CASE ScanClear
  BY <1>20 DEF ScanClear, LinkNext
<1>21. CASE ScanSelect
  BY <1>21 DEF ScanSelect, LinkNext
<1>22. CASE ScanNoCmd
  BY <1>22 DEF ScanNoCmd, LinkNext
<1>23. CASE ScanTimeout
  BY <1>23 DEF ScanTimeout, LinkNext
<1>24. CASE ScanAgain
  BY <1>24 DEF ScanAgain, LinkNext
<1>25. CASE ScanPause
  BY <1>25 DEF ScanPause, LinkNext
<1>26. CASE CancelScan
  BY <1>26 DEF CancelScan, LinkNext
<1>27. CASE OpenSelected
  <2>1. s_scan_devs[selected + 1] \in Addr
    BY <1>27, ElementOfSeq, LenProperties
       DEF OpenSelected, KbdInv, KbdTypeOK, SelectedInRange
  <2>. QED
    BY <1>27, <2>1 DEF OpenSelected, LinkNext
<1>28. CASE EnterConnected
  BY <1>28 DEF EnterConnected, LinkNext
<1>29. CASE Disconnected
  BY <1>29 DEF Disconnected, LinkNext
<1>30. CASE RepairClose
  BY <1>30 DEF RepairClose, KbdInv, KbdTypeOK, LinkNext
<1>31. CASE CloseWait
  BY <1>31 DEF CloseWait, LinkNext
<1>32. CASE CallStep /\ UNCHANGED kbdVars
  BY <1>32 DEF LinkNext
<1>33. CASE CbOpen
  BY <1>33 DEF CbOpen, LinkNext
<1>34. CASE CbConnected
  BY <1>34 DEF CbConnected, LinkNext
<1>35. CASE CbOpenDone
  BY <1>35 DEF CbOpenDone, LinkNext
<1>36. CASE CbClose
  BY <1>36 DEF CbClose, LinkNext
<1>37. CASE CbDisconnected
  BY <1>37 DEF CbDisconnected, LinkNext
<1>38. CASE CbInput
  BY <1>38 DEF CbInput, LinkNext
<1>39. CASE Advertise
  BY <1>39 DEF Advertise, LinkNext
<1>40. CASE Host
  BY <1>40 DEF Host, LinkNext
<1>41. ASSUME NEW c \in Cmds, SendCmd(c) PROVE [LinkNext]_linkVars
  BY <1>41 DEF SendCmd, LinkNext
<1>42. CASE Restart
  BY <1>42 DEF Restart, LinkNext
<1>. QED
  BY <1>1, <1>2, <1>3, <1>4, <1>5, <1>6, <1>7, <1>8, <1>9, <1>10, <1>11,
       <1>12, <1>13, <1>14, <1>15, <1>16, <1>17, <1>18, <1>19, <1>20, <1>21,
       <1>22, <1>23, <1>24, <1>25, <1>26, <1>27, <1>28, <1>29, <1>30, <1>31,
       <1>32, <1>33, <1>34, <1>35, <1>36, <1>37, <1>38, <1>39, <1>40, <1>41,
       <1>42 DEF Next,
     KStep, EStep, StartPairing, SelectDevice, Cmds

-----------------------------------------------------------------------------
(* What the steps of the HIDH layer leave alone.                           *)

\* Only Disc, DiscCancel and a reboot start or stop a discovery.
LEMMA ScanningKept ==
    ASSUME NEW a,
           \/ CallStep \/ HostStep \/ Deliver \/ TakeResult \/ StoreClear
           \/ DevOpen(a) \/ DevReconnect(a) \/ DevClose(a)
    PROVE  scanning' = scanning
BY DEF CallStep, ConnectReturn, InitiateSecurity, SecurityReturn,
     SecurityTimeout, StartGattOp, GattReturn, MarkConnected, PostOpen,
     CallDone, HostStep, ConnectOk, ConnectFail, EncChange, RepeatPairing,
     GattEnd, LinkDrop, DisconnectLookup, ForgetConnId, PostClose, NotifyRx,
     PostInput, Deliver, TakeResult, StoreClear, DevOpen, DevReconnect,
     DevClose, gapVars

\* Only a failed open, inside the call, and a reboot free a structure.
LEMMA DevicesKept ==
    ASSUME NEW a,
           \/ HostStep \/ Deliver \/ TakeResult \/ StoreClear \/ Disc
           \/ DiscCancel \/ DevOpen(a) \/ DevReconnect(a) \/ DevClose(a)
    PROVE  devices \subseteq devices'
BY DEF HostStep, ConnectOk, ConnectFail, EncChange, RepeatPairing, GattEnd,
     LinkDrop, DisconnectLookup, ForgetConnId, PostClose, NotifyRx, PostInput,
     Deliver, TakeResult, StoreClear, Disc, DiscCancel, DevOpen, DevReconnect,
     DevClose, devVars

\* Only DevOpen begins to wait for the connection of an open.
LEMMA OpenBegins ==
    ASSUME NEW a, hpc' = "connect", hcall' = "open",
           \/ CallStep \/ HostStep \/ Deliver \/ TakeResult \/ StoreClear
           \/ Disc \/ DiscCancel \/ DevReconnect(a) \/ DevClose(a)
    PROVE  hpc = "connect" /\ hcall = "open" /\ hdev' = hdev
BY DEF CallStep, ConnectReturn, InitiateSecurity, SecurityReturn,
     SecurityTimeout, StartGattOp, GattReturn, MarkConnected, PostOpen,
     CallDone, HostStep, ConnectOk, ConnectFail, EncChange, RepeatPairing,
     GattEnd, LinkDrop, DisconnectLookup, ForgetConnId, PostClose, NotifyRx,
     PostInput, Deliver, TakeResult, StoreClear, Disc, DiscCancel,
     DevReconnect, DevClose, callVars

\* The event that hidh_cb is called with names a structure of the list, and not
\* the one of an open that waits for its connection.
LEMMA FirstEvent ==
    ASSUME LinkInv, evq # <<>>
    PROVE  /\ Head(evq).dev \in devices
           /\ hpc = "connect" /\ hcall = "open" => Head(evq).dev # hdev
<1>1. 1 \in 1..Len(evq) /\ Head(evq) = evq[1]
  BY EmptySeq, LenProperties DEF LinkInv, TypeOK
<1>. QED
  BY <1>1 DEF LinkInv, MemoryInv

-----------------------------------------------------------------------------
(* The rest of the invariant.                                              *)

\* The index K has checked stays an index of the list.
LEMMA SelectStep ==
    ASSUME KbdInv, Next
    PROVE  SelectedInRange'
<1>. USE DEF kbdVars, kVars, scanVars, Goto
<1>1. CASE Top
  BY <1>1 DEF Top, KbdInv, SelectedInRange
<1>2. CASE WaitReceive
  BY <1>2 DEF WaitReceive, KbdInv, SelectedInRange
<1>3. CASE WaitEmpty
  BY <1>3 DEF WaitEmpty, KbdInv, SelectedInRange
<1>4. CASE LightReconnect
  BY <1>4 DEF LightReconnect, KbdInv, SelectedInRange
<1>5. CASE LightReturn
  BY <1>5 DEF LightReturn, KbdInv, SelectedInRange
<1>6. CASE NoBond
  BY <1>6 DEF NoBond, KbdInv, SelectedInRange
<1>7. CASE BondedOpen
  BY <1>7 DEF BondedOpen, KbdInv, SelectedInRange
<1>8. CASE OpenReturn
  BY <1>8 DEF OpenReturn, KbdInv, SelectedInRange
<1>9. CASE OpenDone
  BY <1>9 DEF OpenDone, KbdInv, SelectedInRange
<1>10. CASE OpenWaitTimeout
  BY <1>10 DEF OpenWaitTimeout, KbdInv, SelectedInRange
<1>11. CASE BondedBail
  BY <1>11 DEF BondedBail, KbdInv, SelectedInRange
<1>12. CASE OpenBail
  BY <1>12 DEF OpenBail, KbdInv, SelectedInRange
<1>13. CASE Bail
  BY <1>13 DEF Bail, KbdInv, SelectedInRange
<1>14. CASE CheckTake
  BY <1>14 DEF CheckTake, KbdInv, SelectedInRange
<1>15. CASE CheckGive
  BY <1>15 DEF CheckGive, KbdInv, SelectedInRange
<1>16. CASE CheckFails
  BY <1>16 DEF CheckFails, KbdInv, SelectedInRange
<1>17. CASE DoPair
  BY <1>17 DEF DoPair, KbdInv, SelectedInRange
<1>18. CASE StartScan
  BY <1>18 DEF StartScan, KbdInv, SelectedInRange
<1>19. CASE ScanStart
  BY <1>19 DEF ScanStart, KbdInv, SelectedInRange
<1>20. CASE ScanClear
  BY <1>20 DEF ScanClear, KbdInv, SelectedInRange
<1>21. CASE ScanSelect
  BY <1>21, LenProperties DEF ScanSelect, KbdTypeOK, Params, KbdInv,
       SelectedInRange
<1>22. CASE ScanNoCmd
  BY <1>22 DEF ScanNoCmd, KbdInv, SelectedInRange
<1>23. CASE ScanTimeout
  BY <1>23 DEF ScanTimeout, KbdInv, SelectedInRange
<1>24. CASE ScanAgain
  BY <1>24 DEF ScanAgain, KbdInv, SelectedInRange
<1>25. CASE ScanPause
  BY <1>25 DEF ScanPause, KbdInv, SelectedInRange
<1>26. CASE CancelScan
  BY <1>26 DEF CancelScan, KbdInv, SelectedInRange
<1>27. CASE OpenSelected
  BY <1>27 DEF OpenSelected, KbdInv, SelectedInRange
<1>28. CASE EnterConnected
  BY <1>28 DEF EnterConnected, KbdInv, SelectedInRange
<1>29. CASE Disconnected
  BY <1>29 DEF Disconnected, KbdInv, SelectedInRange
<1>30. CASE RepairClose
  BY <1>30 DEF RepairClose, KbdInv, SelectedInRange
<1>31. CASE CloseWait
  BY <1>31 DEF CloseWait, KbdInv, SelectedInRange
<1>32. CASE CallStep /\ UNCHANGED kbdVars
  BY <1>32 DEF KbdInv, SelectedInRange
<1>33. CASE CbOpen
  BY <1>33 DEF CbOpen, KbdInv, SelectedInRange
<1>34. CASE CbConnected
  BY <1>34 DEF CbConnected, KbdInv, SelectedInRange
<1>35. CASE CbOpenDone
  BY <1>35 DEF CbOpenDone, KbdInv, SelectedInRange
<1>36. CASE CbClose
  BY <1>36 DEF CbClose, KbdInv, SelectedInRange
<1>37. CASE CbDisconnected
  BY <1>37 DEF CbDisconnected, KbdInv, SelectedInRange
<1>38. CASE CbInput
  BY <1>38 DEF CbInput, KbdInv, SelectedInRange
<1>39. CASE Advertise
  BY <1>39, LenProperties, AppendProperties DEF Advertise, KbdTypeOK, KbdInv,
       SelectedInRange
<1>40. CASE Host
  BY <1>40 DEF Host, KbdInv, SelectedInRange
<1>41. ASSUME NEW c \in Cmds, SendCmd(c) PROVE SelectedInRange'
  BY <1>41 DEF SendCmd, KbdInv, SelectedInRange
<1>42. CASE Restart
  BY <1>42 DEF Restart, KbdInv, SelectedInRange
<1>. QED
  BY <1>1, <1>2, <1>3, <1>4, <1>5, <1>6, <1>7, <1>8, <1>9, <1>10, <1>11,
       <1>12, <1>13, <1>14, <1>15, <1>16, <1>17, <1>18, <1>19, <1>20, <1>21,
       <1>22, <1>23, <1>24, <1>25, <1>26, <1>27, <1>28, <1>29, <1>30, <1>31,
       <1>32, <1>33, <1>34, <1>35, <1>36, <1>37, <1>38, <1>39, <1>40, <1>41,
       <1>42 DEF Next,
     KStep, EStep, StartPairing, SelectDevice, Cmds

\* K scans in its scan loop and nowhere else.
LEMMA ScanStep ==
    ASSUME KbdInv, Next
    PROVE  ScanLoopScans'
<1>. USE DEF kbdVars, kVars, scanVars, Goto
<1>1. CASE Top
  BY <1>1 DEF Top, gapVars, linkVars, KbdInv, ScanLoopScans, InScanLoop
<1>2. CASE WaitReceive
  BY <1>2 DEF WaitReceive, gapVars, linkVars, KbdInv, ScanLoopScans, InScanLoop
<1>3. CASE WaitEmpty
  BY <1>3 DEF WaitEmpty, gapVars, linkVars, KbdInv, ScanLoopScans, InScanLoop
<1>4. CASE LightReconnect
  BY <1>4, ScanningKept DEF LightReconnect, KbdInv, ScanLoopScans, InScanLoop
<1>5. CASE LightReturn
  BY <1>5, ScanningKept DEF LightReturn, KbdInv, ScanLoopScans, InScanLoop
<1>6. CASE NoBond
  BY <1>6 DEF NoBond, gapVars, linkVars, KbdInv, ScanLoopScans, InScanLoop
<1>7. CASE BondedOpen
  BY <1>7, ScanningKept DEF BondedOpen, KbdInv, ScanLoopScans, InScanLoop
<1>8. CASE OpenReturn
  BY <1>8, ScanningKept DEF OpenReturn, KbdInv, ScanLoopScans, InScanLoop
<1>9. CASE OpenDone
  BY <1>9 DEF OpenDone, gapVars, linkVars, KbdInv, ScanLoopScans, InScanLoop
<1>10. CASE OpenWaitTimeout
  BY <1>10 DEF OpenWaitTimeout, gapVars, linkVars, KbdInv, ScanLoopScans,
       InScanLoop
<1>11. CASE BondedBail
  BY <1>11 DEF BondedBail, gapVars, linkVars, KbdInv, ScanLoopScans, InScanLoop
<1>12. CASE OpenBail
  BY <1>12 DEF OpenBail, gapVars, linkVars, KbdInv, ScanLoopScans, InScanLoop
<1>13. CASE Bail
  BY <1>13 DEF Bail, gapVars, linkVars, KbdInv, ScanLoopScans, InScanLoop
<1>14. CASE CheckTake
  BY <1>14 DEF CheckTake, gapVars, linkVars, KbdInv, ScanLoopScans, InScanLoop
<1>15. CASE CheckGive
  BY <1>15 DEF CheckGive, gapVars, linkVars, KbdInv, ScanLoopScans, InScanLoop
<1>16. CASE CheckFails
  BY <1>16 DEF CheckFails, gapVars, linkVars, KbdInv, ScanLoopScans, InScanLoop
<1>17. CASE DoPair
  BY <1>17, ScanningKept DEF DoPair, KbdInv, ScanLoopScans, InScanLoop
<1>18. CASE StartScan
  BY <1>18 DEF StartScan, Disc, KbdInv, ScanLoopScans, InScanLoop
<1>19. CASE ScanStart
  BY <1>19 DEF ScanStart, DiscCancel, KbdInv, ScanLoopScans, InScanLoop
<1>20. CASE ScanClear
  BY <1>20, ScanningKept DEF ScanClear, KbdInv, ScanLoopScans, InScanLoop
<1>21. CASE ScanSelect
  BY <1>21 DEF ScanSelect, gapVars, linkVars, KbdInv, ScanLoopScans, InScanLoop
<1>22. CASE ScanNoCmd
  BY <1>22 DEF ScanNoCmd, gapVars, linkVars, KbdInv, ScanLoopScans, InScanLoop
<1>23. CASE ScanTimeout
  BY <1>23 DEF ScanTimeout, DiscCancel, KbdInv, ScanLoopScans, InScanLoop
<1>24. CASE ScanAgain
  BY <1>24 DEF ScanAgain, gapVars, linkVars, KbdInv, ScanLoopScans, InScanLoop
<1>25. CASE ScanPause
  BY <1>25 DEF ScanPause, gapVars, linkVars, KbdInv, ScanLoopScans, InScanLoop
<1>26. CASE CancelScan
  BY <1>26 DEF CancelScan, DiscCancel, KbdInv, ScanLoopScans, InScanLoop
<1>27. CASE OpenSelected
  BY <1>27, ScanningKept DEF OpenSelected, KbdInv, ScanLoopScans, InScanLoop
<1>28. CASE EnterConnected
  BY <1>28 DEF EnterConnected, gapVars, linkVars, KbdInv, ScanLoopScans,
       InScanLoop
<1>29. CASE Disconnected
  BY <1>29 DEF Disconnected, gapVars, linkVars, KbdInv, ScanLoopScans,
       InScanLoop
<1>30. CASE RepairClose
  BY <1>30, ScanningKept DEF RepairClose, gapVars, linkVars, KbdInv,
       ScanLoopScans, InScanLoop
<1>31. CASE CloseWait
  BY <1>31 DEF CloseWait, gapVars, linkVars, KbdInv, ScanLoopScans, InScanLoop
<1>32. CASE CallStep /\ UNCHANGED kbdVars
  BY <1>32, ScanningKept DEF KbdInv, ScanLoopScans, InScanLoop
<1>33. CASE CbOpen
  BY <1>33, ScanningKept DEF CbOpen, KbdInv, ScanLoopScans, InScanLoop
<1>34. CASE CbConnected
  BY <1>34 DEF CbConnected, gapVars, linkVars, KbdInv, ScanLoopScans,
       InScanLoop
<1>35. CASE CbOpenDone
  BY <1>35 DEF CbOpenDone, gapVars, linkVars, KbdInv, ScanLoopScans, InScanLoop
<1>36. CASE CbClose
  BY <1>36, ScanningKept DEF CbClose, KbdInv, ScanLoopScans, InScanLoop
<1>37. CASE CbDisconnected
  BY <1>37 DEF CbDisconnected, gapVars, linkVars, KbdInv, ScanLoopScans,
       InScanLoop
<1>38. CASE CbInput
  BY <1>38, ScanningKept DEF CbInput, KbdInv, ScanLoopScans, InScanLoop
<1>39. CASE Advertise
  BY <1>39 DEF Advertise, gapVars, linkVars, KbdInv, ScanLoopScans, InScanLoop
<1>40. CASE Host
  BY <1>40, ScanningKept DEF Host, KbdInv, ScanLoopScans, InScanLoop
<1>41. ASSUME NEW c \in Cmds, SendCmd(c) PROVE ScanLoopScans'
  BY <1>41 DEF SendCmd, gapVars, linkVars, KbdInv, ScanLoopScans, InScanLoop
<1>42. CASE Restart
  BY <1>42 DEF Restart, Reboot, KbdInv, ScanLoopScans, InScanLoop
<1>. QED
  BY <1>1, <1>2, <1>3, <1>4, <1>5, <1>6, <1>7, <1>8, <1>9, <1>10, <1>11,
       <1>12, <1>13, <1>14, <1>15, <1>16, <1>17, <1>18, <1>19, <1>20, <1>21,
       <1>22, <1>23, <1>24, <1>25, <1>26, <1>27, <1>28, <1>29, <1>30, <1>31,
       <1>32, <1>33, <1>34, <1>35, <1>36, <1>37, <1>38, <1>39, <1>40, <1>41,
       <1>42 DEF Next,
     KStep, EStep, StartPairing, SelectDevice, Cmds

\* s_hidh_dev stays a device of the list.
LEMMA PointerStep ==
    ASSUME KbdInv, Next
    PROVE  HidhDevAlive'
<1>. USE DEF kbdVars, kVars, scanVars, Goto
<1>1. CASE Top
  BY <1>1 DEF Top, devVars, linkVars, KbdInv, HidhDevAlive
<1>2. CASE WaitReceive
  BY <1>2 DEF WaitReceive, devVars, linkVars, KbdInv, HidhDevAlive
<1>3. CASE WaitEmpty
  BY <1>3 DEF WaitEmpty, devVars, linkVars, KbdInv, HidhDevAlive
<1>4. CASE LightReconnect
  BY <1>4, DevicesKept DEF LightReconnect, KbdInv, HidhDevAlive
<1>5. CASE LightReturn
  BY <1>5, DevicesKept DEF LightReturn, KbdInv, HidhDevAlive
<1>6. CASE NoBond
  BY <1>6 DEF NoBond, devVars, linkVars, KbdInv, HidhDevAlive
<1>7. CASE BondedOpen
  BY <1>7, DevicesKept DEF BondedOpen, KbdInv, HidhDevAlive
<1>8. CASE OpenReturn
  BY <1>8, DevicesKept DEF OpenReturn, KbdInv, HidhDevAlive
<1>9. CASE OpenDone
  BY <1>9 DEF OpenDone, devVars, linkVars, KbdInv, HidhDevAlive
<1>10. CASE OpenWaitTimeout
  BY <1>10 DEF OpenWaitTimeout, devVars, linkVars, KbdInv, HidhDevAlive
<1>11. CASE BondedBail
  BY <1>11 DEF BondedBail, devVars, linkVars, KbdInv, HidhDevAlive
<1>12. CASE OpenBail
  BY <1>12 DEF OpenBail, devVars, linkVars, KbdInv, HidhDevAlive
<1>13. CASE Bail
  BY <1>13 DEF Bail, devVars, linkVars, KbdInv, HidhDevAlive
<1>14. CASE CheckTake
  BY <1>14 DEF CheckTake, devVars, linkVars, KbdInv, HidhDevAlive
<1>15. CASE CheckGive
  BY <1>15 DEF CheckGive, devVars, linkVars, KbdInv, HidhDevAlive
<1>16. CASE CheckFails
  BY <1>16 DEF CheckFails, devVars, linkVars, KbdInv, HidhDevAlive
<1>17. CASE DoPair
  BY <1>17, DevicesKept DEF DoPair, KbdInv, HidhDevAlive
<1>18. CASE StartScan
  BY <1>18, DevicesKept DEF StartScan, KbdInv, HidhDevAlive
<1>19. CASE ScanStart
  BY <1>19, DevicesKept DEF ScanStart, KbdInv, HidhDevAlive
<1>20. CASE ScanClear
  BY <1>20, DevicesKept DEF ScanClear, KbdInv, HidhDevAlive
<1>21. CASE ScanSelect
  BY <1>21 DEF ScanSelect, devVars, linkVars, KbdInv, HidhDevAlive
<1>22. CASE ScanNoCmd
  BY <1>22 DEF ScanNoCmd, devVars, linkVars, KbdInv, HidhDevAlive
<1>23. CASE ScanTimeout
  BY <1>23, DevicesKept DEF ScanTimeout, KbdInv, HidhDevAlive
<1>24. CASE ScanAgain
  BY <1>24 DEF ScanAgain, devVars, linkVars, KbdInv, HidhDevAlive
<1>25. CASE ScanPause
  BY <1>25 DEF ScanPause, devVars, linkVars, KbdInv, HidhDevAlive
<1>26. CASE CancelScan
  BY <1>26, DevicesKept DEF CancelScan, KbdInv, HidhDevAlive
<1>27. CASE OpenSelected
  BY <1>27, DevicesKept DEF OpenSelected, KbdInv, HidhDevAlive
<1>28. CASE EnterConnected
  BY <1>28 DEF EnterConnected, devVars, linkVars, KbdInv, HidhDevAlive
<1>29. CASE Disconnected
  BY <1>29 DEF Disconnected, devVars, linkVars, KbdInv, HidhDevAlive
<1>30. CASE RepairClose
  BY <1>30, DevicesKept DEF RepairClose, devVars, linkVars, KbdInv,
       HidhDevAlive
<1>31. CASE CloseWait
  BY <1>31 DEF CloseWait, devVars, linkVars, KbdInv, HidhDevAlive
<1>32. CASE CallStep /\ UNCHANGED kbdVars
  BY <1>32 DEF CallStep, ConnectReturn, InitiateSecurity, SecurityReturn,
       SecurityTimeout, StartGattOp, GattReturn, MarkConnected, PostOpen,
       CallDone, devVars, KbdInv, HidhDevAlive
<1>33. CASE CbOpen
  BY <1>33, DevicesKept, FirstEvent DEF CbOpen, KbdInv, HidhDevAlive
<1>34. CASE CbConnected
  BY <1>34 DEF CbConnected, devVars, linkVars, KbdInv, HidhDevAlive
<1>35. CASE CbOpenDone
  BY <1>35 DEF CbOpenDone, devVars, linkVars, KbdInv, HidhDevAlive
<1>36. CASE CbClose
  BY <1>36, DevicesKept DEF CbClose, KbdInv, HidhDevAlive
<1>37. CASE CbDisconnected
  BY <1>37 DEF CbDisconnected, devVars, linkVars, KbdInv, HidhDevAlive
<1>38. CASE CbInput
  BY <1>38, DevicesKept DEF CbInput, KbdInv, HidhDevAlive
<1>39. CASE Advertise
  BY <1>39 DEF Advertise, devVars, linkVars, KbdInv, HidhDevAlive
<1>40. CASE Host
  BY <1>40, DevicesKept DEF Host, KbdInv, HidhDevAlive
<1>41. ASSUME NEW c \in Cmds, SendCmd(c) PROVE HidhDevAlive'
  BY <1>41 DEF SendCmd, devVars, linkVars, KbdInv, HidhDevAlive
<1>42. CASE Restart
  BY <1>42 DEF Restart, KbdInv, HidhDevAlive
<1>. QED
  BY <1>1, <1>2, <1>3, <1>4, <1>5, <1>6, <1>7, <1>8, <1>9, <1>10, <1>11,
       <1>12, <1>13, <1>14, <1>15, <1>16, <1>17, <1>18, <1>19, <1>20, <1>21,
       <1>22, <1>23, <1>24, <1>25, <1>26, <1>27, <1>28, <1>29, <1>30, <1>31,
       <1>32, <1>33, <1>34, <1>35, <1>36, <1>37, <1>38, <1>39, <1>40, <1>41,
       <1>42 DEF Next,
     KStep, EStep, StartPairing, SelectDevice, Cmds

\* An open that waits for its connection has a structure of its own.
LEMMA FreshStep ==
    ASSUME KbdInv, Next
    PROVE  (hpc = "connect" /\ hcall = "open" => s_hidh_dev # hdev)'
<1>. USE DEF kbdVars, kVars, scanVars, Goto
<1>1. CASE Top
  BY <1>1 DEF Top, callVars, linkVars, KbdInv
<1>2. CASE WaitReceive
  BY <1>2 DEF WaitReceive, callVars, linkVars, KbdInv
<1>3. CASE WaitEmpty
  BY <1>3 DEF WaitEmpty, callVars, linkVars, KbdInv
<1>4. CASE LightReconnect
  BY <1>4, OpenBegins DEF LightReconnect, KbdInv
<1>5. CASE LightReturn
  BY <1>5, OpenBegins DEF LightReturn, KbdInv
<1>6. CASE NoBond
  BY <1>6 DEF NoBond, callVars, linkVars, KbdInv
<1>7. CASE BondedOpen
  BY <1>7, NoAddrAssumption DEF BondedOpen, DevOpen, LinkInv, TypeOK, KbdInv
<1>8. CASE OpenReturn
  BY <1>8, OpenBegins DEF OpenReturn, KbdInv
<1>9. CASE OpenDone
  BY <1>9 DEF OpenDone, callVars, linkVars, KbdInv
<1>10. CASE OpenWaitTimeout
  BY <1>10 DEF OpenWaitTimeout, callVars, linkVars, KbdInv
<1>11. CASE BondedBail
  BY <1>11 DEF BondedBail, callVars, linkVars, KbdInv
<1>12. CASE OpenBail
  BY <1>12 DEF OpenBail, callVars, linkVars, KbdInv
<1>13. CASE Bail
  BY <1>13 DEF Bail, callVars, linkVars, KbdInv
<1>14. CASE CheckTake
  BY <1>14 DEF CheckTake, callVars, linkVars, KbdInv
<1>15. CASE CheckGive
  BY <1>15 DEF CheckGive, callVars, linkVars, KbdInv
<1>16. CASE CheckFails
  BY <1>16 DEF CheckFails, callVars, linkVars, KbdInv
<1>17. CASE DoPair
  BY <1>17 DEF DoPair, StoreClear, callVars, KbdInv
<1>18. CASE StartScan
  BY <1>18, OpenBegins DEF StartScan, KbdInv
<1>19. CASE ScanStart
  BY <1>19, OpenBegins DEF ScanStart, KbdInv
<1>20. CASE ScanClear
  BY <1>20, OpenBegins DEF ScanClear, KbdInv
<1>21. CASE ScanSelect
  BY <1>21 DEF ScanSelect, callVars, linkVars, KbdInv
<1>22. CASE ScanNoCmd
  BY <1>22 DEF ScanNoCmd, callVars, linkVars, KbdInv
<1>23. CASE ScanTimeout
  BY <1>23, OpenBegins DEF ScanTimeout, KbdInv
<1>24. CASE ScanAgain
  BY <1>24 DEF ScanAgain, callVars, linkVars, KbdInv
<1>25. CASE ScanPause
  BY <1>25 DEF ScanPause, callVars, linkVars, KbdInv
<1>26. CASE CancelScan
  BY <1>26, OpenBegins DEF CancelScan, KbdInv
<1>27. CASE OpenSelected
  <2>1. s_scan_devs[selected + 1] \in Addr
    BY <1>27, ElementOfSeq, LenProperties
       DEF OpenSelected, KbdInv, KbdTypeOK, SelectedInRange
  <2>. QED
    BY <1>27, <2>1, NoAddrAssumption DEF OpenSelected, DevOpen, HidhDevAlive, KbdInv
<1>28. CASE EnterConnected
  BY <1>28 DEF EnterConnected, callVars, linkVars, KbdInv
<1>29. CASE Disconnected
  BY <1>29 DEF Disconnected, callVars, linkVars, KbdInv
<1>30. CASE RepairClose
  BY <1>30, OpenBegins DEF RepairClose, callVars, linkVars, KbdInv
<1>31. CASE CloseWait
  BY <1>31 DEF CloseWait, callVars, linkVars, KbdInv
<1>32. CASE CallStep /\ UNCHANGED kbdVars
  BY <1>32, OpenBegins DEF KbdInv
<1>33. CASE CbOpen
  BY <1>33, OpenBegins, FirstEvent DEF CbOpen, KbdInv
<1>34. CASE CbConnected
  BY <1>34 DEF CbConnected, callVars, linkVars, KbdInv
<1>35. CASE CbOpenDone
  BY <1>35 DEF CbOpenDone, callVars, linkVars, KbdInv
<1>36. CASE CbClose
  BY <1>36, OpenBegins DEF CbClose, KbdInv
<1>37. CASE CbDisconnected
  BY <1>37 DEF CbDisconnected, callVars, linkVars, KbdInv
<1>38. CASE CbInput
  BY <1>38, OpenBegins DEF CbInput, KbdInv
<1>39. CASE Advertise
  BY <1>39 DEF Advertise, callVars, linkVars, KbdInv
<1>40. CASE Host
  BY <1>40, OpenBegins DEF Host, KbdInv
<1>41. ASSUME NEW c \in Cmds, SendCmd(c) PROVE (hpc = "connect" /\ hcall = "open" => s_hidh_dev # hdev)'
  BY <1>41 DEF SendCmd, callVars, linkVars, KbdInv
<1>42. CASE Restart
  BY <1>42 DEF Restart, Reboot, KbdInv
<1>. QED
  BY <1>1, <1>2, <1>3, <1>4, <1>5, <1>6, <1>7, <1>8, <1>9, <1>10, <1>11,
       <1>12, <1>13, <1>14, <1>15, <1>16, <1>17, <1>18, <1>19, <1>20, <1>21,
       <1>22, <1>23, <1>24, <1>25, <1>26, <1>27, <1>28, <1>29, <1>30, <1>31,
       <1>32, <1>33, <1>34, <1>35, <1>36, <1>37, <1>38, <1>39, <1>40, <1>41,
       <1>42 DEF Next,
     KStep, EStep, StartPairing, SelectDevice, Cmds

\* A command taken from the queue leaves a queue.
LEMMA TakeCommand ==
    ASSUME KbdTypeOK, s_cmd_queue # <<>>
    PROVE  /\ Head(s_cmd_queue) \in Cmds
           /\ Tail(s_cmd_queue) \in Seq(Cmds) /\ Len(Tail(s_cmd_queue)) <= CmdLen
<1>1. Len(s_cmd_queue) \in Nat
  BY LenProperties DEF KbdTypeOK
<1>. QED
  BY <1>1, HeadTailProperties, CmdLenAssumption DEF KbdTypeOK

\* An emptied list is a list.
LEMMA EmptyList == <<>> \in Seq(Addr) /\ Len(<<>>) <= MaxScan
BY EmptySeq, MaxScanAssumption

\* Every action keeps the types.
LEMMA KbdTypeStep ==
    ASSUME KbdInv, Next
    PROVE  KbdTypeOK'
<1>. USE DEF kbdVars, kVars, sigVars, scanVars, Goto
<1>1. CASE Top
  BY <1>1 DEF Top, KbdInv, KbdTypeOK
<1>2. CASE WaitReceive
  BY <1>2, TakeCommand DEF WaitReceive, KbdInv, KbdTypeOK
<1>3. CASE WaitEmpty
  BY <1>3 DEF WaitEmpty, KbdInv, KbdTypeOK
<1>4. CASE LightReconnect
  BY <1>4 DEF LightReconnect, KbdInv, KbdTypeOK
<1>5. CASE LightReturn
  BY <1>5 DEF LightReturn, KbdInv, KbdTypeOK
<1>6. CASE NoBond
  BY <1>6 DEF NoBond, KbdInv, KbdTypeOK
<1>7. CASE BondedOpen
  BY <1>7 DEF BondedOpen, KbdInv, KbdTypeOK
<1>8. CASE OpenReturn
  BY <1>8 DEF OpenReturn, KbdInv, KbdTypeOK
<1>9. CASE OpenDone
  BY <1>9 DEF OpenDone, KbdInv, KbdTypeOK
<1>10. CASE OpenWaitTimeout
  BY <1>10 DEF OpenWaitTimeout, KbdInv, KbdTypeOK
<1>11. CASE BondedBail
  BY <1>11 DEF BondedBail, KbdInv, KbdTypeOK
<1>12. CASE OpenBail
  BY <1>12, TakeCommand DEF OpenBail, StartQueued, KbdInv, KbdTypeOK
<1>13. CASE Bail
  BY <1>13 DEF Bail, KbdInv, KbdTypeOK
<1>14. CASE CheckTake
  BY <1>14 DEF CheckTake, KbdInv, KbdTypeOK
<1>15. CASE CheckGive
  BY <1>15 DEF CheckGive, KbdInv, KbdTypeOK
<1>16. CASE CheckFails
  BY <1>16 DEF CheckFails, KbdInv, KbdTypeOK
<1>17. CASE DoPair
  BY <1>17, EmptyList DEF DoPair, KbdInv, KbdTypeOK
<1>18. CASE StartScan
  BY <1>18 DEF StartScan, KbdInv, KbdTypeOK
<1>19. CASE ScanStart
  BY <1>19, TakeCommand, EmptyList DEF ScanStart, StartQueued, KbdInv,
       KbdTypeOK
<1>20. CASE ScanClear
  BY <1>20 DEF ScanClear, KbdInv, KbdTypeOK
<1>21. CASE ScanSelect
  <2>1. /\ s_cmd_queue' \in Seq(Cmds)
        /\ Len(s_cmd_queue') <= CmdLen
    BY <1>21, TakeCommand DEF ScanSelect, KbdInv
  <2>2. selected' \in 0..MaxScan /\ kpc' \in {"selected", "scanCheck"}
    <3>1. Len(s_scan_devs) \in Nat /\ Head(s_cmd_queue) \in Cmds
      BY <1>21, LenProperties, TakeCommand DEF ScanSelect, KbdInv, KbdTypeOK
    <3>2. CASE Head(s_cmd_queue) = START
      BY <1>21, <3>2 DEF ScanSelect, StartQueued
    <3>3. CASE \E i \in Params : Head(s_cmd_queue) = SELECT(i)
      BY <1>21, <3>1, <3>3, MaxScanAssumption
         DEF ScanSelect, KbdInv, KbdTypeOK, SELECT, Params
    <3>. QED
      BY <3>1, <3>2, <3>3 DEF Cmds
  <2>. QED
    BY <1>21, <2>1, <2>2 DEF ScanSelect, KbdInv, KbdTypeOK
<1>22. CASE ScanNoCmd
  BY <1>22 DEF ScanNoCmd, KbdInv, KbdTypeOK
<1>23. CASE ScanTimeout
  BY <1>23 DEF ScanTimeout, KbdInv, KbdTypeOK
<1>24. CASE ScanAgain
  BY <1>24 DEF ScanAgain, KbdInv, KbdTypeOK
<1>25. CASE ScanPause
  BY <1>25, EmptyList DEF ScanPause, KbdInv, KbdTypeOK
<1>26. CASE CancelScan
  BY <1>26 DEF CancelScan, KbdInv, KbdTypeOK
<1>27. CASE OpenSelected
  BY <1>27 DEF OpenSelected, KbdInv, KbdTypeOK
<1>28. CASE EnterConnected
  BY <1>28 DEF EnterConnected, KbdInv, KbdTypeOK
<1>29. CASE Disconnected
  BY <1>29 DEF Disconnected, KbdInv, KbdTypeOK
<1>30. CASE RepairClose
  BY <1>30, TakeCommand DEF RepairClose, StartQueued, KbdInv, KbdTypeOK
<1>31. CASE CloseWait
  BY <1>31 DEF CloseWait, KbdInv, KbdTypeOK
<1>32. CASE CallStep /\ UNCHANGED kbdVars
  BY <1>32 DEF KbdInv, KbdTypeOK
<1>33. CASE CbOpen
  BY <1>33, FirstEvent DEF CbOpen, LinkInv, TypeOK, KbdInv, KbdTypeOK
<1>34. CASE CbConnected
  BY <1>34 DEF CbConnected, KbdInv, KbdTypeOK
<1>35. CASE CbOpenDone
  BY <1>35 DEF CbOpenDone, KbdInv, KbdTypeOK
<1>36. CASE CbClose
  BY <1>36 DEF CbClose, KbdInv, KbdTypeOK
<1>37. CASE CbDisconnected
  BY <1>37 DEF CbDisconnected, KbdInv, KbdTypeOK
<1>38. CASE CbInput
  BY <1>38 DEF CbInput, KbdInv, KbdTypeOK
<1>39. CASE Advertise
  <2>1. s_scan_devs' \in Seq(Addr) /\ Len(s_scan_devs') <= MaxScan
    BY <1>39, AppendProperties, LenProperties, MaxScanAssumption
       DEF Advertise, KbdInv, KbdTypeOK
  <2>. QED
    BY <1>39, <2>1 DEF Advertise, KbdInv, KbdTypeOK
<1>40. CASE Host
  BY <1>40 DEF Host, KbdInv, KbdTypeOK
<1>41. ASSUME NEW c \in Cmds, SendCmd(c) PROVE KbdTypeOK'
  <2>1. s_cmd_queue' \in Seq(Cmds) /\ Len(s_cmd_queue') <= CmdLen
    BY <1>41, AppendProperties, LenProperties, CmdLenAssumption
       DEF SendCmd, KbdInv, KbdTypeOK
  <2>. QED
    BY <1>41, <2>1 DEF SendCmd, KbdInv, KbdTypeOK
<1>42. CASE Restart
  <2>1. /\ s_cmd_queue' \in Seq(Cmds) /\ Len(s_cmd_queue') <= CmdLen
        /\ s_scan_devs' \in Seq(Addr) /\ Len(s_scan_devs') <= MaxScan
        /\ selected' \in 0..MaxScan
    BY <1>42, EmptySeq, EmptyList, CmdLenAssumption, MaxScanAssumption DEF Restart
  <2>2. /\ force_repair' \in BOOLEAN
        /\ s_connected_sem' \in BOOLEAN
        /\ s_disconnected_sem' \in BOOLEAN
        /\ s_open_done_sem' \in BOOLEAN
    BY <1>42 DEF Restart
  <2>. QED
    BY <1>42, <2>1, <2>2 DEF Restart, KbdTypeOK
<1>. QED
  BY <1>1, <1>2, <1>3, <1>4, <1>5, <1>6, <1>7, <1>8, <1>9, <1>10, <1>11,
       <1>12, <1>13, <1>14, <1>15, <1>16, <1>17, <1>18, <1>19, <1>20, <1>21,
       <1>22, <1>23, <1>24, <1>25, <1>26, <1>27, <1>28, <1>29, <1>30, <1>31,
       <1>32, <1>33, <1>34, <1>35, <1>36, <1>37, <1>38, <1>39, <1>40, <1>41,
       <1>42 DEF Next,
     KStep, EStep, StartPairing, SelectDevice, Cmds

-----------------------------------------------------------------------------
(* The theorems.                                                           *)

\* The invariant holds when the task starts ...
LEMMA KbdInitHolds == Init => KbdInv
<1>. SUFFICES ASSUME Init PROVE KbdInv
  OBVIOUS
<1>1. LinkInv
  BY InitHolds DEF Init
<1>2. KbdTypeOK
  <2>1. /\ s_cmd_queue \in Seq(Cmds) /\ Len(s_cmd_queue) <= CmdLen
        /\ s_scan_devs \in Seq(Addr) /\ Len(s_scan_devs) <= MaxScan
        /\ selected \in 0..MaxScan
    BY EmptySeq, EmptyList, CmdLenAssumption, MaxScanAssumption DEF Init
  <2>2. /\ s_connected_sem \in BOOLEAN
        /\ s_disconnected_sem \in BOOLEAN
        /\ s_open_done_sem \in BOOLEAN
    BY DEF Init
  <2>. QED
    BY <2>1, <2>2 DEF Init, KbdTypeOK
<1>3. SelectedInRange /\ ScanLoopScans /\ HidhDevAlive
  BY DEF Init, LinkInit, SelectedInRange, ScanLoopScans, InScanLoop, HidhDevAlive
<1>. QED
  BY <1>1, <1>2, <1>3 DEF Init, LinkInit, KbdInv

\* ... and a step that changes nothing keeps it.
LEMMA KbdStutterHolds == KbdInv /\ UNCHANGED vars => KbdInv'
<1>. SUFFICES ASSUME KbdInv, UNCHANGED vars PROVE KbdInv'
  OBVIOUS
<1>1. LinkInv'
  BY StutterHolds DEF KbdInv, vars
<1>2. KbdTypeOK'
  BY DEF KbdInv, KbdTypeOK, vars, kbdVars, kVars, sigVars, scanVars
<1>3. (SelectedInRange /\ ScanLoopScans /\ HidhDevAlive)'
  BY DEF KbdInv, SelectedInRange, ScanLoopScans, InScanLoop, HidhDevAlive, vars,
         kbdVars, kVars, sigVars, scanVars, linkVars, gapVars, devVars
<1>4. (hpc = "connect" /\ hcall = "open" => s_hidh_dev # hdev)'
  BY DEF KbdInv, vars, kbdVars, linkVars, callVars
<1>. QED
  BY <1>1, <1>2, <1>3, <1>4 DEF KbdInv

\* Every step keeps it.
LEMMA KbdStepHolds == KbdInv /\ [Next]_vars => KbdInv'
<1>1. ASSUME KbdInv, Next PROVE LinkInv'
  BY <1>1, CallsAreAllowed, StutterHolds, TypeStep, HandleStep, WakeStep,
     SecurityStep, MemoryStep DEF KbdInv, LinkInv
<1>. QED
  BY <1>1, KbdStutterHolds, KbdTypeStep, SelectStep, ScanStep, PointerStep,
     FreshStep DEF KbdInv

\* The invariant that carries the safety properties of this module.
THEOREM KbdInvariant == Spec => []KbdInv
BY KbdInitHolds, KbdStepHolds, PTL DEF Spec

\* kbd_main_task makes its calls one at a time, on devices of the list, and never
\* while another of its calls is inside the HIDH layer, so every behaviour of the
\* component is one HidhLink allows: the theorems about HidhLink hold in it.
THEOREM UsesHidhLink == Spec => LinkSpec
<1>1. Init => LinkInit
  BY DEF Init
<1>2. KbdInv /\ [Next]_vars => [LinkNext]_linkVars
  BY CallsAreAllowed DEF vars
<1>. QED
  BY <1>1, <1>2, KbdInvariant, PTL DEF Spec, LinkSpec

\* The queue and the list stay within their lengths, and every field keeps its
\* type.
THEOREM KbdTypeCorrect == Spec => []KbdTypeOK
<1>1. KbdInv => KbdTypeOK
  BY DEF KbdInv
<1>. QED
  BY <1>1, KbdInvariant, PTL

\* The entry that is opened 300 ms after its index was checked exists.
THEOREM SelectionInRange == Spec => []SelectedInRange
<1>1. KbdInv => SelectedInRange
  BY DEF KbdInv
<1>. QED
  BY <1>1, KbdInvariant, PTL

\* The radio scans exactly while K is in its scan loop.
THEOREM ScansInLoop == Spec => []ScanLoopScans
<1>1. KbdInv => ScanLoopScans
  BY DEF KbdInv
<1>. QED
  BY <1>1, KbdInvariant, PTL

\* s_hidh_dev never dangles.
THEOREM PointerAlive == Spec => []HidhDevAlive
<1>1. KbdInv => HidhDevAlive
  BY DEF KbdInv
<1>. QED
  BY <1>1, KbdInvariant, PTL

\* No failed open of the component frees a structure that is still in use.
THEOREM KbdMemorySafe == Spec => []NoUseAfterFree
BY UsesHidhLink, MemorySafe, PTL

-----------------------------------------------------------------------------
(* KbdHost under Calm: the link drops only in the connected phase and      *)
(* every timed wait is long enough for what it waits for.  The signals     *)
(* between the tasks then agree with the link at every step, and the       *)
(* component keeps the promise of KbdPromise.                              *)
(*                                                                         *)
(* A link is announced by one OPEN and ended by one CLOSE; CalmInv follows *)
(* both through the event queue, hidh_cb and the two semaphores, and says  *)
(* at which places of K each of them can be.                               *)

\* No early drop, no short wait: what is left is a peer that refuses a request.
Calm == Faults \subseteq {"peer_error"}

\* What the event queue holds, and its order: one OPEN at most, a CLOSE last.
OpenIn(q)  == \E i \in 1 .. Len(q) : q[i].type = "OPEN"
CloseIn(q) == \E i \in 1 .. Len(q) : q[i].type = "CLOSE"
OpensOf(q, a) == \A i \in 1 .. Len(q) : q[i].type = "OPEN" => q[i].dev = a
InOrder(q) ==
    /\ \A i, j \in 1 .. Len(q) : q[i].type = "OPEN" /\ q[j].type = "OPEN" => i = j
    /\ \A i \in 1 .. Len(q) : q[i].type = "CLOSE" => i = Len(q)

\* What is left of a call's GATT operations.
StepIn(s, op) == \E i \in 1 .. Len(s) : s[i] = op
PostsOnce(s) == \A i, j \in 1 .. Len(s) : s[i] = "post" /\ s[j] = "post" => i = j

\* The places of K: where no link is, inside a call, waiting for the open,
\* checking it, passing the signal on, and where a link is or has just gone.
Unlinked == {"top", "sweep", "attempt", "retryWait", "doPair", "startScan", "scan",
             "scanCheck", "scanClear", "scanPause", "selected", "settle", "bail"}
InCall == {"reconnecting", "bonded", "opening"}
Waits  == {"bondedWait", "openWait"}
Checks == {"bondedCheck", "openCheck"}
Gives  == {"bondedGive", "openGive"}
Linked == {"connected", "online", "closeWait"}

\* No link and no trace of the last one.
Quiet == link = NoAddr /\ EventsHandled /\ ~s_connected_sem
\* The call has posted its OPEN event.
Announced == hpc \in {"run", "wait", "opened", "aborted"} /\ ~StepIn(todo, "post")
\* hidh_cb has taken the OPEN event and given s_connected_sem.
Delivered == ~OpenIn(evq) /\ epc # "opened"
\* The end of the link is on its way to s_disconnected_sem.
Closing == npc \in {"lookup", "closing", "post"} \/ CloseIn(evq) \/ epc = "closed"

\* An open or reconnect call: before its OPEN event is posted no signal of the
\* link exists; before the link exists no signal at all.
CallInv ==
    /\ hpc = "none" <=> kpc \notin InCall
    /\ PostsOnce(todo)
    /\ hpc = "wait" => Head(todo) \in {"disc", "read", "write"}
    /\ hpc \in {"none", "opened"} => todo = <<>>
    /\ hpc = "encrypt" => StepIn(todo, "post") /\ StepIn(todo, "connected")
    /\ kpc \in InCall =>
          /\ hdev # NoAddr /\ link \in {NoAddr, hdev}
          /\ hcall = "reconnect" <=> kpc = "reconnecting"
          /\ kpc = "reconnecting" => hdev = s_hidh_dev
          /\ link = NoAddr => hpc \in {"connect", "failed"} /\ Quiet
          /\ hpc = "failed" => link = NoAddr
          /\ ~Announced => ~OpenIn(evq) /\ epc = "idle" /\ ~s_connected_sem
          /\ ~Announced /\ kpc # "reconnecting" => ~s_open_done_sem

\* While the link is up: no CLOSE, s_connected_sem given exactly once after the
\* OPEN, s_hidh_dev at the linked device.
LinkUpInv ==
    link # NoAddr =>
        /\ ~Closing /\ ~s_disconnected_sem
        /\ OpenIn(evq) => epc = "idle"
        /\ OpensOf(evq, link)
        /\ (kpc \in InCall => Announced) =>
              /\ s_connected_sem <=> Delivered /\ kpc \notin Gives
              /\ ~OpenIn(evq) => s_hidh_dev = link
              /\ kpc \in {"bonded", "opening"} \cup Waits =>
                    (s_open_done_sem <=> ~OpenIn(evq) /\ epc = "idle")
        /\ (kpc \in InCall => hpc \in {"run", "wait", "opened", "aborted"}
                               /\ ~StepIn(todo, "connected"))
              => dev_connected[link]
        /\ kpc \in Linked => s_hidh_dev = link
        /\ kpc = "closeWait" => terminating

\* While the link is down: quiet, or K is in the connected phase and the CLOSE is
\* on its way, after the OPEN.
LinkDownInv ==
    link = NoAddr =>
        /\ npc \notin {"input", "forget"} /\ ~terminating
        /\ kpc \notin Linked => Quiet
        /\ s_disconnected_sem => Quiet
        /\ kpc \in Linked /\ ~s_disconnected_sem => Closing
        /\ CloseIn(evq) => npc = "idle" /\ epc # "closed"
        /\ OpenIn(evq) => epc = "idle"
        /\ epc = "closed" => evq = <<>> /\ npc = "idle" /\ ~s_connected_sem
        /\ npc = "lookup" => dev_connected[ndev]

\* Where K is says whether there is a link and which signals are taken.
PlaceInv ==
    /\ npc # "forget"
    /\ kpc \in Unlinked => link = NoAddr
    /\ kpc \in Gives \cup {"connected"} => link # NoAddr
    /\ kpc \in Checks \cup Gives => ~OpenIn(evq) /\ epc = "idle"
    /\ kpc \in Waits /\ link = NoAddr => ~s_open_done_sem
    /\ kpc \in Linked => s_hidh_dev # NoAddr
    /\ kpc \notin Linked => ~s_disconnected_sem
    /\ terminating => kpc = "closeWait"

\* The inductive invariant, with KbdInv.
CalmInv == InOrder(evq) /\ CallInv /\ LinkUpInv /\ LinkDownInv /\ PlaceInv

\* The state shown to the application at each place of K.
StateInv ==
    /\ kpc \in {"startScan", "scan", "scanCheck", "scanClear", "scanPause", "selected", "settle"}
          => s_state = "SCANNING"
    /\ kpc \in {"opening", "openWait", "openCheck", "openGive", "bail"} => s_state = "CONNECTING"
    /\ kpc \in {"sweep", "attempt", "reconnecting", "bonded", "bondedWait", "bondedCheck",
                "bondedGive", "retryWait"} => s_state = "RECONNECTING"
    /\ kpc = "connected" => s_state \in {"CONNECTING", "RECONNECTING"}
    /\ kpc \in {"online", "closeWait"} => s_state = "CONNECTED"
    /\ kpc = "top" => s_state \in {"IDLE", "RECONNECTING"}

\* The link, the call and the bond are the partner's.
PartnerInv ==
    /\ bonds \subseteq {Partner}
    /\ link # NoAddr => link = Partner
    /\ kpc \in InCall => hdev = Partner
    /\ kpc \notin InCall => hdev = NoAddr
    /\ kpc = "bonded" /\ link = NoAddr => bonds = {hdev} /\ s_hidh_dev = NoAddr
    /\ kpc \in Linked /\ link = NoAddr => OpensOf(evq, s_hidh_dev)

\* The device the component knows, in the order Partner looks for it.
Known(h, d, l, B) ==
    IF h # NoAddr THEN h ELSE IF d # NoAddr THEN d ELSE IF l # NoAddr THEN l
    ELSE IF B # {} THEN CHOOSE a \in B : TRUE ELSE NoAddr

-----------------------------------------------------------------------------
(* Queues and operation lists.                                             *)

\* A posted event joins what the queue holds.
LEMMA Appended ==
    ASSUME NEW q \in Seq(Event), NEW t \in {"OPEN", "CLOSE", "INPUT"}, NEW a \in Addr, NEW d
    PROVE  /\ OpenIn(Append(q, Ev(t, a))) = (OpenIn(q) \/ t = "OPEN")
           /\ CloseIn(Append(q, Ev(t, a))) = (CloseIn(q) \/ t = "CLOSE")
           /\ OpensOf(q, d) /\ (t = "OPEN" => a = d) => OpensOf(Append(q, Ev(t, a)), d)
           /\ InOrder(q) /\ ~CloseIn(q) /\ (t = "OPEN" => ~OpenIn(q)) =>
                InOrder(Append(q, Ev(t, a)))
           /\ Append(q, Ev(t, a)) # <<>>
<1> DEFINE e == Ev(t, a)
           n == Len(q)
<1>1. e \in Event /\ e.type = t /\ e.dev = a
  BY DEF Ev, Event
<1>2. /\ n \in Nat /\ Len(Append(q, e)) = n + 1
      /\ \A i \in 1 .. n : Append(q, e)[i] = q[i]
      /\ Append(q, e)[n + 1] = e
      /\ Append(q, e) # <<>>
  BY <1>1, LenProperties, AppendProperties, EmptySeq
<1> HIDE DEF e, n
<1>3. /\ OpenIn(q) = \E i \in 1 .. n : q[i].type = "OPEN"
      /\ CloseIn(q) = \E i \in 1 .. n : q[i].type = "CLOSE"
  BY DEF OpenIn, CloseIn, n
<1>4. OpenIn(Append(q, e)) = (OpenIn(q) \/ t = "OPEN")
  <2>1. 1 .. n + 1 = 1 .. n \cup {n + 1}
    BY <1>2
  <2> QED
    BY <1>1, <1>2, <1>3, <2>1 DEF OpenIn
<1>5. CloseIn(Append(q, e)) = (CloseIn(q) \/ t = "CLOSE")
  <2>1. 1 .. n + 1 = 1 .. n \cup {n + 1}
    BY <1>2
  <2> QED
    BY <1>1, <1>2, <1>3, <2>1 DEF CloseIn
<1>6. OpensOf(q, d) /\ (t = "OPEN" => a = d) => OpensOf(Append(q, e), d)
  BY <1>1, <1>2 DEF OpensOf, n
<1>7. InOrder(q) /\ ~CloseIn(q) /\ (t = "OPEN" => ~OpenIn(q)) => InOrder(Append(q, e))
  BY <1>1, <1>2, <1>3 DEF InOrder, n
<1> QED
  BY <1>2, <1>4, <1>5, <1>6, <1>7 DEF e

\* A delivered event leaves the queue; after a CLOSE nothing is left.
LEMMA Taken ==
    ASSUME NEW q \in Seq(Event), q # <<>>, InOrder(q), NEW d
    PROVE  /\ InOrder(Tail(q))
           /\ OpenIn(q) = (Head(q).type = "OPEN" \/ OpenIn(Tail(q)))
           /\ CloseIn(q) = (Head(q).type = "CLOSE" \/ CloseIn(Tail(q)))
           /\ Head(q).type = "OPEN" => ~OpenIn(Tail(q))
           /\ Head(q).type = "CLOSE" => Tail(q) = <<>>
           /\ OpensOf(q, d) => OpensOf(Tail(q), d) /\ (Head(q).type = "OPEN" => Head(q).dev = d)
<1> DEFINE n == Len(q)
           t == Tail(q)
<1>1. /\ n \in Nat \ {0} /\ Head(q) = q[1] /\ Len(t) = n - 1 /\ t \in Seq(Event)
      /\ \A i \in 1 .. n - 1 : t[i] = q[i + 1]
  BY LenProperties, HeadTailProperties, EmptySeq
<1>2. n = 1 => t = <<>>
  <2>1. n = 1 => Len(t) = 0
    BY <1>1
  <2>2. Len(t) = 0 => t = <<>>
    BY <1>1, EmptySeq
  <2> QED
    BY <2>1, <2>2
<1>3. /\ OpenIn(q) = \E i \in 1 .. n : q[i].type = "OPEN"
      /\ CloseIn(q) = \E i \in 1 .. n : q[i].type = "CLOSE"
      /\ \A i, j \in 1 .. n : q[i].type = "OPEN" /\ q[j].type = "OPEN" => i = j
      /\ \A i \in 1 .. n : q[i].type = "CLOSE" => i = n
      /\ OpensOf(q, d) = \A i \in 1 .. n : q[i].type = "OPEN" => q[i].dev = d
  BY DEF OpenIn, CloseIn, InOrder, OpensOf
<1> HIDE DEF n, t
<1>4. /\ OpenIn(t) = \E i \in 1 .. n - 1 : q[i + 1].type = "OPEN"
      /\ CloseIn(t) = \E i \in 1 .. n - 1 : q[i + 1].type = "CLOSE"
      /\ OpensOf(t, d) = \A i \in 1 .. n - 1 : q[i + 1].type = "OPEN" => q[i + 1].dev = d
      /\ InOrder(t) = (/\ \A i, j \in 1 .. n - 1 :
                              q[i + 1].type = "OPEN" /\ q[j + 1].type = "OPEN" => i = j
                       /\ \A i \in 1 .. n - 1 : q[i + 1].type = "CLOSE" => i = n - 1)
  BY <1>1 DEF OpenIn, CloseIn, OpensOf, InOrder
<1>5. \A i \in 1 .. n : i # 1 => i - 1 \in 1 .. n - 1 /\ (i - 1) + 1 = i
  BY <1>1
<1>6. \A i \in 1 .. n - 1 : i + 1 \in 1 .. n /\ i + 1 # 1
  BY <1>1
<1>7. 1 \in 1 .. n
  BY <1>1
<1>8. OpenIn(q) = (q[1].type = "OPEN" \/ OpenIn(t))
  <2>1. ASSUME NEW i \in 1 .. n, q[i].type = "OPEN" PROVE q[1].type = "OPEN" \/ OpenIn(t)
    <3>1. CASE i = 1
      BY <2>1, <3>1
    <3>2. CASE i - 1 \in 1 .. n - 1 /\ (i - 1) + 1 = i
      <4>1. q[(i - 1) + 1].type = "OPEN"
        BY <2>1, <3>2
      <4> QED
        BY <1>4, <3>2, <4>1
    <3> QED
      BY <1>5, <3>1, <3>2
  <2>2. ASSUME NEW i \in 1 .. n - 1, q[i + 1].type = "OPEN" PROVE OpenIn(q)
    BY <1>3, <1>6, <2>2
  <2> QED
    BY <1>3, <1>4, <1>7, <2>1, <2>2
<1>9. CloseIn(q) = (q[1].type = "CLOSE" \/ CloseIn(t))
  <2>1. ASSUME NEW i \in 1 .. n, q[i].type = "CLOSE" PROVE q[1].type = "CLOSE" \/ CloseIn(t)
    <3>1. CASE i = 1
      BY <2>1, <3>1
    <3>2. CASE i - 1 \in 1 .. n - 1 /\ (i - 1) + 1 = i
      <4>1. q[(i - 1) + 1].type = "CLOSE"
        BY <2>1, <3>2
      <4> QED
        BY <1>4, <3>2, <4>1
    <3> QED
      BY <1>5, <3>1, <3>2
  <2>2. ASSUME NEW i \in 1 .. n - 1, q[i + 1].type = "CLOSE" PROVE CloseIn(q)
    BY <1>3, <1>6, <2>2
  <2> QED
    BY <1>3, <1>4, <1>7, <2>1, <2>2
<1>10. q[1].type = "OPEN" => ~OpenIn(t)
  BY <1>3, <1>4, <1>6, <1>7
<1>11. q[1].type = "CLOSE" => t = <<>>
  BY <1>2, <1>3, <1>7
<1>12. OpensOf(q, d) => OpensOf(t, d) /\ (q[1].type = "OPEN" => q[1].dev = d)
  BY <1>3, <1>4, <1>6, <1>7
<1>13. InOrder(t)
  BY <1>1, <1>3, <1>4, <1>6
<1> QED
  BY <1>1, <1>8, <1>9, <1>10, <1>11, <1>12, <1>13 DEF t

\* An empty queue holds nothing.
LEMMA NoEvents ==
    ASSUME NEW d
    PROVE  InOrder(<<>>) /\ ~OpenIn(<<>>) /\ ~CloseIn(<<>>) /\ OpensOf(<<>>, d)
BY EmptySeq DEF InOrder, OpenIn, CloseIn, OpensOf

\* A finished operation leaves the rest of the list.
LEMMA NextStep ==
    ASSUME NEW s \in Seq(OpsKinds), s # <<>>, PostsOnce(s)
    PROVE  /\ PostsOnce(Tail(s))
           /\ \A op : StepIn(s, op) = (Head(s) = op \/ StepIn(Tail(s), op))
           /\ Head(s) = "post" => ~StepIn(Tail(s), "post")
<1> DEFINE n == Len(s)
           t == Tail(s)
<1>1. /\ n \in Nat \ {0} /\ Head(s) = s[1] /\ Len(t) = n - 1
      /\ \A i \in 1 .. n - 1 : t[i] = s[i + 1]
  BY LenProperties, HeadTailProperties, EmptySeq
<1>2. /\ \A op : StepIn(s, op) = \E i \in 1 .. n : s[i] = op
      /\ \A i, j \in 1 .. n : s[i] = "post" /\ s[j] = "post" => i = j
  BY DEF StepIn, PostsOnce
<1> HIDE DEF n, t
<1>3. /\ \A op : StepIn(t, op) = \E i \in 1 .. n - 1 : s[i + 1] = op
      /\ PostsOnce(t) = \A i, j \in 1 .. n - 1 : s[i + 1] = "post" /\ s[j + 1] = "post" => i = j
  BY <1>1 DEF StepIn, PostsOnce
<1>4. \A i \in 1 .. n : i # 1 => i - 1 \in 1 .. n - 1 /\ (i - 1) + 1 = i
  BY <1>1
<1>5. \A i \in 1 .. n - 1 : i + 1 \in 1 .. n /\ i + 1 # 1
  BY <1>1
<1>6. 1 \in 1 .. n
  BY <1>1
<1>7. PostsOnce(t)
  BY <1>1, <1>2, <1>3, <1>5
<1>8. ASSUME NEW op PROVE StepIn(s, op) = (s[1] = op \/ StepIn(t, op))
  <2>1. ASSUME NEW i \in 1 .. n, s[i] = op PROVE s[1] = op \/ StepIn(t, op)
    <3>1. CASE i = 1
      BY <2>1, <3>1
    <3>2. CASE i - 1 \in 1 .. n - 1 /\ (i - 1) + 1 = i
      <4>1. s[(i - 1) + 1] = op
        BY <2>1, <3>2
      <4>2. \E j \in 1 .. n - 1 : s[j + 1] = op
        BY <3>2, <4>1
      <4> QED
        BY <1>3, <4>2
    <3> QED
      BY <1>4, <3>1, <3>2
  <2>2. ASSUME NEW i \in 1 .. n - 1, s[i + 1] = op PROVE StepIn(s, op)
    BY <1>2, <1>5, <2>2
  <2> QED
    BY <1>2, <1>3, <1>6, <2>1, <2>2
<1>9. s[1] = "post" => ~StepIn(t, "post")
  BY <1>2, <1>3, <1>5, <1>6
<1> QED
  BY <1>1, <1>7, <1>8, <1>9 DEF t

\* An empty list holds no operation.
LEMMA NoSteps == PostsOnce(<<>>) /\ \A op : ~StepIn(<<>>, op)
BY EmptySeq DEF PostsOnce, StepIn

\* Each call marks the device connected and posts one OPEN event.
LEMMA Steps ==
    ASSUME NEW call
    PROVE  /\ Script(call) \in Seq(OpsKinds) /\ Script(call) # <<>>
           /\ StepIn(Script(call), "post") /\ StepIn(Script(call), "connected")
           /\ PostsOnce(Script(call))
<1> DEFINE d == Len(DiscoveryOps)
           l == Len(ListenerOps)
<1>1. /\ d \in Nat /\ l \in Nat
      /\ \A i \in 1 .. d : DiscoveryOps[i] \in {"disc", "read"}
      /\ \A i \in 1 .. l : ListenerOps[i] = "write"
  BY ScriptAssumption, LenProperties, ElementOfSeq
<1>a. DiscoveryOps \in Seq(OpsKinds) /\ ListenerOps \in Seq(OpsKinds)
  BY ScriptAssumption, SeqMonotonic DEF OpsKinds
<1>b. /\ <<"connected", "post">> \in Seq(OpsKinds) /\ Len(<<"connected", "post">>) = 2
      /\ <<"connected">> \in Seq(OpsKinds) /\ Len(<<"connected">>) = 1
      /\ <<"post">> \in Seq(OpsKinds) /\ Len(<<"post">>) = 1
  BY DEF OpsKinds
<1>2. CASE call = "open"
  <2> DEFINE u == DiscoveryOps \o <<"connected", "post">>
             v == u \o ListenerOps
  <2>1. /\ u \in Seq(OpsKinds) /\ Len(u) = d + 2
        /\ \A i \in 1 .. d : u[i] = DiscoveryOps[i]
        /\ u[d + 1] = "connected" /\ u[d + 2] = "post"
    <3>1. /\ u \in Seq(OpsKinds) /\ Len(u) = d + Len(<<"connected", "post">>)
          /\ \A i \in 1 .. d + Len(<<"connected", "post">>) :
                u[i] = IF i <= d THEN DiscoveryOps[i] ELSE <<"connected", "post">>[i - d]
      BY <1>a, <1>b, ConcatProperties
    <3>2. (d + 1) - d = 1 /\ (d + 2) - d = 2 /\ ~(d + 1 <= d) /\ ~(d + 2 <= d)
      BY <1>1
    <3>3. /\ d + 1 \in 1 .. d + 2 /\ d + 2 \in 1 .. d + 2
          /\ \A i \in 1 .. d : i \in 1 .. d + 2 /\ i <= d
      BY <1>1
    <3> HIDE DEF u, d
    <3> QED
      BY <1>b, <3>1, <3>2, <3>3
  <2> HIDE DEF u
  <2>2. /\ v \in Seq(OpsKinds) /\ Len(v) = d + 2 + l
        /\ \A i \in 1 .. d + 2 : v[i] = u[i]
        /\ \A i \in 1 .. l : v[d + 2 + i] = ListenerOps[i]
    <3>1. /\ v \in Seq(OpsKinds) /\ Len(v) = Len(u) + l
          /\ \A i \in 1 .. Len(u) + l :
                v[i] = IF i <= Len(u) THEN u[i] ELSE ListenerOps[i - Len(u)]
      BY <1>a, <2>1, ConcatProperties
    <3> HIDE DEF v, d, l
    <3>2. \A i \in 1 .. d + 2 : i \in 1 .. d + 2 + l /\ i <= d + 2
      BY <1>1
    <3>3. \A i \in 1 .. l : /\ d + 2 + i \in 1 .. d + 2 + l /\ ~(d + 2 + i <= d + 2)
                            /\ (d + 2 + i) - (d + 2) = i
      BY <1>1
    <3> QED
      BY <2>1, <3>1, <3>2, <3>3
  <2>3. \A i \in 1 .. Len(v) : i # d + 2 => v[i] # "post"
    <3>1. \A i \in 1 .. Len(v) : i \in 1 .. d \/ i = d + 1 \/ i = d + 2
                \/ (i - (d + 2) \in 1 .. l /\ i = d + 2 + (i - (d + 2)))
      BY <1>1, <2>2
    <3> HIDE DEF v
    <3>2. ASSUME NEW i \in 1 .. d PROVE v[i] # "post"
      <4> HIDE DEF u, d, l
      <4>1. i \in 1 .. d + 2
        BY <1>1
      <4>2. v[i] = DiscoveryOps[i] /\ DiscoveryOps[i] \in {"disc", "read"}
        BY <1>1, <2>1, <2>2, <4>1
      <4> QED BY <4>2
    <3>3. v[d + 1] # "post"
      <4> HIDE DEF u, d, l
      <4>1. d + 1 \in 1 .. d + 2
        BY <1>1
      <4> QED BY <2>1, <2>2, <4>1
    <3>4. ASSUME NEW i \in 1 .. l PROVE v[d + 2 + i] # "post"
      <4> HIDE DEF u, d, l
      <4> QED BY <1>1, <2>2
    <3> QED
      BY <3>1, <3>2, <3>3, <3>4
  <2>4. /\ d + 1 \in 1 .. Len(v) /\ d + 2 \in 1 .. Len(v)
        /\ v[d + 1] = "connected" /\ v[d + 2] = "post"
    BY <1>1, <2>1, <2>2
  <2>5. Script(call) = v
    BY <1>2 DEF Script, u
  <2>6. v # <<>>
    BY <2>2, <2>4, EmptySeq
  <2> HIDE DEF v
  <2> QED
    BY <2>2, <2>3, <2>4, <2>5, <2>6 DEF StepIn, PostsOnce
<1>3. CASE call # "open"
  <2> DEFINE u == <<"connected">> \o ListenerOps
             v == u \o <<"post">>
  <2>1. /\ u \in Seq(OpsKinds) /\ Len(u) = 1 + l
        /\ u[1] = "connected" /\ \A i \in 1 .. l : u[1 + i] = ListenerOps[i]
    BY <1>1, <1>a, <1>b, ConcatProperties
  <2> HIDE DEF u
  <2>2. /\ v \in Seq(OpsKinds) /\ Len(v) = 2 + l
        /\ \A i \in 1 .. 1 + l : v[i] = u[i]
        /\ v[2 + l] = "post"
    BY <1>1, <1>b, <2>1, ConcatProperties
  <2>3. \A i \in 1 .. Len(v) : i # 2 + l => v[i] # "post"
    <3>1. \A i \in 1 .. Len(v) :
              i = 1 \/ i = 2 + l \/ (i - 1 \in 1 .. l /\ i = 1 + (i - 1) /\ i \in 1 .. 1 + l)
      BY <1>1, <2>2
    <3>2. 1 \in 1 .. 1 + l /\ \A i \in 1 .. l : 1 + i \in 1 .. 1 + l
      BY <1>1
    <3> HIDE DEF v
    <3>3. v[1] # "post" /\ \A i \in 1 .. l : v[1 + i] # "post"
      BY <1>1, <2>1, <2>2, <3>2
    <3> QED
      BY <3>1, <3>3
  <2>4. 1 \in 1 .. Len(v) /\ 2 + l \in 1 .. Len(v) /\ v[1] = "connected"
    BY <1>1, <2>1, <2>2
  <2>5. Script(call) = v
    BY <1>3 DEF Script, u
  <2>6. v # <<>>
    BY <2>2, <2>4, EmptySeq
  <2> HIDE DEF v
  <2> QED
    BY <2>2, <2>3, <2>4, <2>5, <2>6 DEF StepIn, PostsOnce
<1> QED
  BY <1>2, <1>3

-----------------------------------------------------------------------------
(* The steps.                                                              *)

\* Every step keeps the signals in step with the link.
LEMMA CalmStep ==
    ASSUME Calm, KbdInv, CalmInv, [Next]_vars
    PROVE  CalmInv'
<1> USE DEF Unlinked, InCall, Waits, Checks, Gives, Linked, Quiet, Announced, Delivered, Closing,
           EventsHandled, Goto, linkVars, devVars, gapVars, procVars, semVars, nVars, callVars,
           kbdVars, kVars, sigVars, scanVars
<1>t. TimedOut => EventsHandled
  BY DEF TimedOut, Calm
<1>a. /\ link \in Addr \cup {NoAddr} /\ NoAddr \notin Addr /\ s_hidh_dev \in Addr \cup {NoAddr}
      /\ hdev \in Addr \cup {NoAddr} /\ ndev \in Addr \cup {NoAddr} /\ bonds \subseteq Addr
      /\ evq \in Seq(Event) /\ todo \in Seq(OpsKinds)
      /\ dev_connected \in [Addr -> BOOLEAN] /\ conn_id \in [Addr -> BOOLEAN]
      /\ s_connected_sem \in BOOLEAN /\ s_disconnected_sem \in BOOLEAN
      /\ s_open_done_sem \in BOOLEAN
  BY NoAddrAssumption DEF KbdInv, KbdTypeOK, LinkInv, TypeOK
<1>e. /\ evq = <<>> => ~OpenIn(evq) /\ ~CloseIn(evq) /\ OpensOf(evq, hdev)
      /\ ~OpenIn(<<>>) /\ ~CloseIn(<<>>)
  BY NoEvents
<1>s. /\ todo = <<>> => \A op : ~StepIn(todo, op)
      /\ PostsOnce(<<>>) /\ \A op : ~StepIn(<<>>, op)
  BY NoSteps
<1>d. "early_drop" \notin Faults /\ "slow_close" \notin Faults
  BY DEF Calm
<1>h. /\ link # NoAddr => link \in devices /\ conn_id[link] /\ gap_conn = NoAddr
      /\ \A a \in devices : conn_id[a] =>
            link = a \/ (ndev = a /\ npc \in {"lookup", "forget", "closing"})
      /\ gap_conn # NoAddr => hpc = "connect" /\ hdev = gap_conn
      /\ npc \in {"lookup", "forget", "closing"} =>
            link = NoAddr /\ ndev \in devices /\ conn_id[ndev]
      /\ hpc \notin {"none", "failed", "aborted"} => hdev \in devices
      /\ hpc = "wait" => todo # <<>>
      /\ npc \in {"post", "input"} => ndev \in Addr
  BY DEF KbdInv, LinkInv, TypeOK, HandleInv, LinkKnown, WakeInv, NoStaleWake, MemoryInv
<1>n. todo # <<>> =>
         /\ PostsOnce(Tail(todo))
         /\ StepIn(todo, "post") <=> Head(todo) = "post" \/ StepIn(Tail(todo), "post")
         /\ StepIn(todo, "connected") <=>
               Head(todo) = "connected" \/ StepIn(Tail(todo), "connected")
         /\ Head(todo) = "post" => ~StepIn(Tail(todo), "post")
  BY <1>a, NextStep DEF CalmInv, CallInv
<1>q. ASSUME Deliver
      PROVE  /\ InOrder(evq')
             /\ OpenIn(evq) <=> Head(evq).type = "OPEN" \/ OpenIn(evq')
             /\ CloseIn(evq) <=> Head(evq).type = "CLOSE" \/ CloseIn(evq')
             /\ Head(evq).type = "OPEN" => ~OpenIn(evq')
             /\ Head(evq).type = "CLOSE" => evq' = <<>>
             /\ \A d : OpensOf(evq, d) =>
                    OpensOf(evq', d) /\ (Head(evq).type = "OPEN" => Head(evq).dev = d)
  BY <1>q, Taken, <1>a DEF Deliver, CalmInv
<1>1. CASE Top
  BY <1>1 DEF Top, CalmInv, CallInv, LinkUpInv, LinkDownInv, PlaceInv
<1>2. CASE WaitReceive
  BY <1>2 DEF WaitReceive, CalmInv, CallInv, LinkUpInv, LinkDownInv, PlaceInv
<1>3. CASE WaitEmpty
  BY <1>3 DEF WaitEmpty, CalmInv, CallInv, LinkUpInv, LinkDownInv, PlaceInv
<1>4. CASE LightReconnect
  <2>1. InOrder(evq)'
    BY <1>4 DEF LightReconnect, DevReconnect, CalmInv
  <2>2. CallInv'
    BY <1>e, <1>4 DEF LightReconnect, DevReconnect, CalmInv, CallInv, LinkDownInv, PlaceInv
  <2>3. LinkUpInv'
    BY <1>4 DEF LightReconnect, DevReconnect, CalmInv, LinkUpInv
  <2>4. LinkDownInv'
    BY <1>4 DEF LightReconnect, DevReconnect, CalmInv, LinkDownInv
  <2>5. PlaceInv'
    BY <1>4 DEF LightReconnect, DevReconnect, CalmInv, PlaceInv
  <2> QED
    BY <2>1, <2>2, <2>3, <2>4, <2>5 DEF CalmInv
<1>5. CASE LightReturn
  <2>1. InOrder(evq)'
    BY <1>5 DEF LightReturn, TakeResult, CalmInv
  <2>2. CallInv'
    BY <1>s, <1>5 DEF LightReturn, TakeResult, CallInv
  <2>3. LinkUpInv'
    BY <1>s, <1>5 DEF LightReturn, TakeResult, CalmInv, CallInv, LinkUpInv
  <2>4. LinkDownInv'
    BY <1>5 DEF LightReturn, TakeResult, CalmInv, CallInv, LinkDownInv
  <2>5. PlaceInv'
    BY <1>5 DEF LightReturn, TakeResult, CalmInv, CallInv, PlaceInv
  <2> QED
    BY <2>1, <2>2, <2>3, <2>4, <2>5 DEF CalmInv
<1>6. CASE NoBond
  BY <1>6 DEF NoBond, CalmInv, CallInv, LinkUpInv, LinkDownInv, PlaceInv
<1>7. CASE BondedOpen
  <2>1. InOrder(evq)'
    BY <1>7 DEF BondedOpen, DevOpen, CalmInv
  <2>2. CallInv'
    BY <1>a, <1>e, <1>7 DEF BondedOpen, DevOpen, CalmInv, CallInv, LinkDownInv, PlaceInv
  <2>3. LinkUpInv'
    BY <1>7 DEF BondedOpen, DevOpen, CalmInv, LinkUpInv
  <2>4. LinkDownInv'
    BY <1>7 DEF BondedOpen, DevOpen, CalmInv, LinkDownInv
  <2>5. PlaceInv'
    BY <1>7 DEF BondedOpen, DevOpen, CalmInv, PlaceInv
  <2> QED
    BY <2>1, <2>2, <2>3, <2>4, <2>5 DEF CalmInv
<1>8. CASE OpenReturn
  <2>1. InOrder(evq)'
    BY <1>8 DEF OpenReturn, TakeResult, CalmInv
  <2>2. CallInv'
    BY <1>s, <1>8 DEF OpenReturn, TakeResult, CallInv
  <2>3. LinkUpInv'
    BY <1>s, <1>8 DEF OpenReturn, TakeResult, CalmInv, CallInv, LinkUpInv
  <2>4. LinkDownInv'
    BY <1>8 DEF OpenReturn, TakeResult, CalmInv, LinkDownInv
  <2>5. PlaceInv'
    BY <1>8 DEF OpenReturn, TakeResult, CalmInv, CallInv, PlaceInv
  <2> QED
    BY <2>1, <2>2, <2>3, <2>4, <2>5 DEF CalmInv
<1>9. CASE OpenDone
  BY <1>9 DEF OpenDone, CalmInv, CallInv, LinkUpInv, LinkDownInv, PlaceInv
<1>10. CASE OpenWaitTimeout
  <2>1. InOrder(evq)'
    BY <1>10 DEF OpenWaitTimeout, CalmInv
  <2>2. CallInv'
    BY <1>10 DEF OpenWaitTimeout, CalmInv, CallInv
  <2>3. LinkUpInv'
    BY <1>10 DEF OpenWaitTimeout, CalmInv, LinkUpInv
  <2>4. LinkDownInv'
    BY <1>10 DEF OpenWaitTimeout, CalmInv, LinkDownInv
  <2>5. PlaceInv'
    BY <1>e, <1>10, <1>t DEF OpenWaitTimeout, CalmInv, PlaceInv
  <2> QED
    BY <2>1, <2>2, <2>3, <2>4, <2>5 DEF CalmInv
<1>11. CASE BondedBail
  <2>1. InOrder(evq)'
    BY <1>11 DEF BondedBail, CalmInv
  <2>2. CallInv'
    BY <1>11 DEF BondedBail, CalmInv, CallInv
  <2>3. LinkUpInv'
    BY <1>11 DEF BondedBail, CalmInv, LinkUpInv
  <2>4. LinkDownInv'
    BY <1>11 DEF BondedBail, CalmInv, LinkDownInv
  <2>5. PlaceInv'
    BY <1>e, <1>11, <1>t DEF BondedBail, CalmInv, LinkUpInv, PlaceInv
  <2> QED
    BY <2>1, <2>2, <2>3, <2>4, <2>5 DEF CalmInv
<1>12. CASE OpenBail
  <2>1. InOrder(evq)'
    BY <1>12 DEF OpenBail, CalmInv
  <2>2. CallInv'
    BY <1>12 DEF OpenBail, CalmInv, CallInv
  <2>3. LinkUpInv'
    BY <1>12 DEF OpenBail, CalmInv, LinkUpInv
  <2>4. LinkDownInv'
    BY <1>12 DEF OpenBail, CalmInv, LinkDownInv
  <2>5. PlaceInv'
    BY <1>e, <1>12, <1>t DEF OpenBail, CalmInv, LinkUpInv, PlaceInv
  <2> QED
    BY <2>1, <2>2, <2>3, <2>4, <2>5 DEF CalmInv
<1>13. CASE Bail
  BY <1>13 DEF Bail, CalmInv, CallInv, LinkUpInv, LinkDownInv, PlaceInv
<1>14. CASE CheckTake
  BY <1>14 DEF CheckTake, CalmInv, CallInv, LinkUpInv, LinkDownInv, PlaceInv
<1>15. CASE CheckGive
  BY <1>15 DEF CheckGive, CalmInv, CallInv, LinkUpInv, LinkDownInv, PlaceInv
<1>16. CASE CheckFails
  BY <1>16 DEF CheckFails, CalmInv, CallInv, LinkUpInv, LinkDownInv, PlaceInv
<1>17. CASE DoPair
  BY <1>17 DEF DoPair, StoreClear, CalmInv, CallInv, LinkUpInv, LinkDownInv, PlaceInv
<1>18. CASE StartScan
  BY <1>18 DEF StartScan, Disc, CalmInv, CallInv, LinkUpInv, LinkDownInv, PlaceInv
<1>19. CASE ScanStart
  BY <1>19 DEF ScanStart, DiscCancel, CalmInv, CallInv, LinkUpInv, LinkDownInv, PlaceInv
<1>20. CASE ScanClear
  BY <1>20 DEF ScanClear, StoreClear, CalmInv, CallInv, LinkUpInv, LinkDownInv, PlaceInv
<1>21. CASE ScanSelect
  BY <1>21 DEF ScanSelect, CalmInv, CallInv, LinkUpInv, LinkDownInv, PlaceInv
<1>22. CASE ScanNoCmd
  BY <1>22 DEF ScanNoCmd, CalmInv, CallInv, LinkUpInv, LinkDownInv, PlaceInv
<1>23. CASE ScanTimeout
  BY <1>23 DEF ScanTimeout, DiscCancel, CalmInv, CallInv, LinkUpInv, LinkDownInv, PlaceInv
<1>24. CASE ScanAgain
  BY <1>24 DEF ScanAgain, CalmInv, CallInv, LinkUpInv, LinkDownInv, PlaceInv
<1>25. CASE ScanPause
  BY <1>25 DEF ScanPause, CalmInv, CallInv, LinkUpInv, LinkDownInv, PlaceInv
<1>26. CASE CancelScan
  BY <1>26 DEF CancelScan, DiscCancel, CalmInv, CallInv, LinkUpInv, LinkDownInv, PlaceInv
<1>27. CASE OpenSelected
  <2>0. s_scan_devs[selected + 1] \in Addr
    BY <1>27, ElementOfSeq, LenProperties
       DEF OpenSelected, KbdInv, KbdTypeOK, SelectedInRange
  <2>1. InOrder(evq)'
    BY <1>27 DEF OpenSelected, DevOpen, CalmInv
  <2>2. CallInv'
    BY <1>a, <1>e, <1>27, <2>0 DEF OpenSelected, DevOpen, CalmInv, CallInv, LinkDownInv, PlaceInv
  <2>3. LinkUpInv'
    BY <1>27 DEF OpenSelected, DevOpen, CalmInv, LinkUpInv
  <2>4. LinkDownInv'
    BY <1>27 DEF OpenSelected, DevOpen, CalmInv, LinkDownInv
  <2>5. PlaceInv'
    BY <1>27 DEF OpenSelected, DevOpen, CalmInv, PlaceInv
  <2> QED
    BY <2>1, <2>2, <2>3, <2>4, <2>5 DEF CalmInv
<1>28. CASE EnterConnected
  BY <1>28 DEF EnterConnected, CalmInv, CallInv, LinkUpInv, LinkDownInv, PlaceInv
<1>29. CASE Disconnected
  BY <1>29 DEF Disconnected, CalmInv, CallInv, LinkUpInv, LinkDownInv, PlaceInv
<1>30. CASE RepairClose
  <2>1. InOrder(evq)'
    BY <1>30 DEF RepairClose, DevClose, CalmInv
  <2>2. CallInv'
    BY <1>30 DEF RepairClose, DevClose, CalmInv, CallInv
  <2>3. LinkUpInv'
    BY <1>h, <1>30 DEF RepairClose, DevClose, CalmInv, LinkUpInv
  <2>4. LinkDownInv'
    BY <1>30 DEF RepairClose, DevClose, CalmInv, LinkDownInv, PlaceInv
  <2>5. PlaceInv'
    BY <1>30 DEF RepairClose, DevClose, CalmInv, PlaceInv
  <2> QED
    BY <2>1, <2>2, <2>3, <2>4, <2>5 DEF CalmInv
<1>31. CASE CloseWait
  <2>1. InOrder(evq)'
    BY <1>31 DEF CloseWait, CalmInv
  <2>2. CallInv'
    BY <1>31 DEF CloseWait, CalmInv, CallInv
  <2>3. LinkUpInv'
    BY <1>31 DEF CloseWait, CalmInv, LinkUpInv
  <2>4. LinkDownInv'
    BY <1>e, <1>31, <1>t DEF CloseWait, CalmInv, LinkDownInv
  <2>5. PlaceInv'
    BY <1>31, <1>d DEF CloseWait, CalmInv, LinkUpInv, LinkDownInv, PlaceInv
  <2> QED
    BY <2>1, <2>2, <2>3, <2>4, <2>5 DEF CalmInv
<1>32. CASE ConnectReturn /\ UNCHANGED kbdVars
  <2>1. InOrder(evq)'
    BY <1>32 DEF ConnectReturn, CalmInv
  <2>2. CallInv'
    BY <1>h, <1>32 DEF ConnectReturn, CalmInv, CallInv
  <2>3. LinkUpInv'
    BY <1>32 DEF ConnectReturn, CalmInv, LinkUpInv
  <2>4. LinkDownInv'
    BY <1>32 DEF ConnectReturn, CalmInv, LinkDownInv
  <2>5. PlaceInv'
    BY <1>32 DEF ConnectReturn, CalmInv, PlaceInv
  <2> QED
    BY <2>1, <2>2, <2>3, <2>4, <2>5 DEF CalmInv
<1>33. CASE InitiateSecurity /\ UNCHANGED kbdVars
  <2>0. /\ todo' # <<>> /\ StepIn(todo', "post") /\ StepIn(todo', "connected") /\ PostsOnce(todo')
    BY Steps, <1>33 DEF InitiateSecurity
  <2>1. InOrder(evq)'
    BY <1>33 DEF InitiateSecurity, CalmInv
  <2>2. CallInv'
    BY <1>33, <2>0 DEF InitiateSecurity, CalmInv, CallInv
  <2>3. LinkUpInv'
    BY <1>33, <2>0 DEF InitiateSecurity, CalmInv, LinkUpInv
  <2>4. LinkDownInv'
    BY <1>33 DEF InitiateSecurity, CalmInv, LinkDownInv
  <2>5. PlaceInv'
    BY <1>33 DEF InitiateSecurity, CalmInv, PlaceInv
  <2> QED
    BY <2>1, <2>2, <2>3, <2>4, <2>5 DEF CalmInv
<1>34. CASE SecurityReturn /\ UNCHANGED kbdVars
  <2>1. InOrder(evq)'
    BY <1>34 DEF SecurityReturn, CalmInv
  <2>2. CallInv'
    BY <1>34 DEF SecurityReturn, CalmInv, CallInv
  <2>3. LinkUpInv'
    BY <1>34 DEF SecurityReturn, CalmInv, CallInv, LinkUpInv
  <2>4. LinkDownInv'
    BY <1>34 DEF SecurityReturn, CalmInv, LinkDownInv
  <2>5. PlaceInv'
    BY <1>34 DEF SecurityReturn, CalmInv, PlaceInv
  <2> QED
    BY <2>1, <2>2, <2>3, <2>4, <2>5 DEF CalmInv
<1>35. CASE SecurityTimeout /\ UNCHANGED kbdVars
  <2>1. InOrder(evq)'
    BY <1>35 DEF SecurityTimeout, CalmInv
  <2>2. CallInv'
    BY <1>35 DEF SecurityTimeout, CalmInv, CallInv
  <2>3. LinkUpInv'
    BY <1>35 DEF SecurityTimeout, CalmInv, CallInv, LinkUpInv
  <2>4. LinkDownInv'
    BY <1>35 DEF SecurityTimeout, CalmInv, LinkDownInv
  <2>5. PlaceInv'
    BY <1>35 DEF SecurityTimeout, CalmInv, PlaceInv
  <2> QED
    BY <2>1, <2>2, <2>3, <2>4, <2>5 DEF CalmInv
<1>36. CASE StartGattOp /\ UNCHANGED kbdVars
  <2>1. InOrder(evq)'
    BY <1>36 DEF StartGattOp, CalmInv
  <2>2. CallInv'
    BY <1>36, <1>n DEF StartGattOp, CalmInv, CallInv
  <2>3. LinkUpInv'
    BY <1>36, <1>n DEF StartGattOp, CalmInv, LinkUpInv
  <2>4. LinkDownInv'
    BY <1>36 DEF StartGattOp, CalmInv, LinkDownInv
  <2>5. PlaceInv'
    BY <1>36 DEF StartGattOp, CalmInv, PlaceInv
  <2> QED
    BY <2>1, <2>2, <2>3, <2>4, <2>5 DEF CalmInv
<1>37. CASE GattReturn /\ UNCHANGED kbdVars
  <2>1. InOrder(evq)'
    BY <1>37 DEF GattReturn, CalmInv
  <2>2. CallInv'
    BY <1>h, <1>37, <1>n DEF GattReturn, CalmInv, CallInv
  <2>3. LinkUpInv'
    BY <1>h, <1>37, <1>n DEF GattReturn, CalmInv, CallInv, LinkUpInv
  <2>4. LinkDownInv'
    BY <1>37 DEF GattReturn, CalmInv, LinkDownInv
  <2>5. PlaceInv'
    BY <1>37 DEF GattReturn, CalmInv, PlaceInv
  <2> QED
    BY <2>1, <2>2, <2>3, <2>4, <2>5 DEF CalmInv
<1>38. CASE MarkConnected /\ UNCHANGED kbdVars
  <2>1. InOrder(evq)'
    BY <1>38 DEF MarkConnected, CalmInv
  <2>2. CallInv'
    BY <1>38, <1>n DEF MarkConnected, CalmInv, CallInv
  <2>3. LinkUpInv'
    BY <1>a, <1>38, <1>n DEF MarkConnected, CalmInv, CallInv, LinkUpInv
  <2>4. LinkDownInv'
    BY <1>38 DEF MarkConnected, CalmInv, LinkDownInv
  <2>5. PlaceInv'
    BY <1>38 DEF MarkConnected, CalmInv, PlaceInv
  <2> QED
    BY <2>1, <2>2, <2>3, <2>4, <2>5 DEF CalmInv
<1>39. CASE PostOpen /\ UNCHANGED kbdVars
  <2>0. /\ OpenIn(evq')
        /\ CloseIn(evq') <=> CloseIn(evq)
        /\ OpensOf(evq, link) /\ hdev = link => OpensOf(evq', link)
        /\ InOrder(evq) /\ ~CloseIn(evq) /\ ~OpenIn(evq) => InOrder(evq')
        /\ evq' # <<>>
    BY Appended, <1>a, <1>39 DEF PostOpen, CallInv, CalmInv
  <2>1. InOrder(evq)'
    BY <1>39, <1>n, <2>0 DEF PostOpen, CalmInv, CallInv, LinkUpInv
  <2>2. CallInv'
    BY <1>39, <1>n DEF PostOpen, CalmInv, CallInv
  <2>3. LinkUpInv'
    BY <1>39, <1>n, <2>0 DEF PostOpen, CalmInv, CallInv, LinkUpInv
  <2>4. LinkDownInv'
    BY <1>39 DEF PostOpen, CalmInv, CallInv, LinkDownInv
  <2>5. PlaceInv'
    BY <1>39 DEF PostOpen, CalmInv, CallInv, PlaceInv
  <2> QED
    BY <2>1, <2>2, <2>3, <2>4, <2>5 DEF CalmInv
<1>40. CASE CallDone /\ UNCHANGED kbdVars
  BY <1>40 DEF CallDone, CalmInv, CallInv, LinkUpInv, LinkDownInv, PlaceInv
<1>41. CASE CbOpen
  <2>0a. Head(evq).dev \in Addr
    BY <1>41, FirstEvent DEF KbdInv, LinkInv, TypeOK, CbOpen
  <2>1. InOrder(evq)'
    BY <1>41, <1>q DEF CbOpen
  <2>2. CallInv'
    BY <1>41, <1>q DEF CbOpen, Deliver, CalmInv, CallInv, LinkUpInv
  <2>3. LinkUpInv'
    BY <1>41, <1>q DEF CbOpen, Deliver, CalmInv, LinkUpInv
  <2>4. LinkDownInv'
    BY <1>41, <1>q DEF CbOpen, Deliver, CalmInv, LinkDownInv
  <2>5. PlaceInv'
    BY <1>a, <1>41, <2>0a, <1>q DEF CbOpen, Deliver, CalmInv, PlaceInv
  <2> QED
    BY <2>1, <2>2, <2>3, <2>4, <2>5 DEF CalmInv
<1>42. CASE CbConnected
  <2>1. InOrder(evq)'
    BY <1>42 DEF CbConnected, CalmInv
  <2>2. CallInv'
    BY <1>42 DEF CbConnected, CalmInv, CallInv
  <2>3. LinkUpInv'
    BY <1>42 DEF CbConnected, CalmInv, LinkUpInv, PlaceInv
  <2>4. LinkDownInv'
    BY <1>42 DEF CbConnected, CalmInv, LinkDownInv
  <2>5. PlaceInv'
    BY <1>42 DEF CbConnected, CalmInv, PlaceInv
  <2> QED
    BY <2>1, <2>2, <2>3, <2>4, <2>5 DEF CalmInv
<1>43. CASE CbOpenDone
  BY <1>43 DEF CbOpenDone, CalmInv, CallInv, LinkUpInv, LinkDownInv, PlaceInv
<1>44. CASE CbClose
  <2>1. InOrder(evq)'
    BY <1>44, <1>q DEF CbClose
  <2>2. CallInv'
    BY <1>44, <1>q DEF CbClose, Deliver, CalmInv, CallInv, LinkUpInv
  <2>3. LinkUpInv'
    BY <1>44, <1>q DEF CbClose, Deliver, CalmInv, LinkUpInv
  <2>4. LinkDownInv'
    BY <1>e, <1>44, <1>q DEF CbClose, Deliver, CalmInv, LinkDownInv
  <2>5. PlaceInv'
    BY <1>44, <1>q DEF CbClose, Deliver, CalmInv, LinkUpInv, LinkDownInv, PlaceInv
  <2> QED
    BY <2>1, <2>2, <2>3, <2>4, <2>5 DEF CalmInv
<1>45. CASE CbDisconnected
  BY <1>45 DEF CbDisconnected, CalmInv, CallInv, LinkUpInv, LinkDownInv, PlaceInv
<1>46. CASE CbInput
  <2>1. InOrder(evq)'
    BY <1>46, <1>q DEF CbInput
  <2>2. CallInv'
    BY <1>46, <1>q DEF CbInput, Deliver, CalmInv, CallInv
  <2>3. LinkUpInv'
    BY <1>46, <1>q DEF CbInput, Deliver, CalmInv, LinkUpInv
  <2>4. LinkDownInv'
    BY <1>46, <1>q DEF CbInput, Deliver, CalmInv, LinkDownInv
  <2>5. PlaceInv'
    BY <1>46, <1>q DEF CbInput, Deliver, CalmInv, PlaceInv
  <2> QED
    BY <2>1, <2>2, <2>3, <2>4, <2>5 DEF CalmInv
<1>47. CASE Host /\ ConnectOk
  <2>1. InOrder(evq)'
    BY <1>47 DEF ConnectOk, CalmInv
  <2>2. CallInv'
    BY <1>h, <1>47 DEF Host, ConnectOk, CalmInv, CallInv
  <2>3. LinkUpInv'
    BY <1>e, <1>h, <1>47 DEF Host, ConnectOk, CalmInv, CallInv, LinkUpInv, PlaceInv
  <2>4. LinkDownInv'
    BY <1>47 DEF ConnectOk, LinkDownInv
  <2>5. PlaceInv'
    BY <1>h, <1>47 DEF Host, ConnectOk, CalmInv, CallInv, PlaceInv
  <2> QED
    BY <2>1, <2>2, <2>3, <2>4, <2>5 DEF CalmInv
<1>48. CASE Host /\ ConnectFail
  BY <1>48 DEF Host, ConnectFail, CalmInv, CallInv, LinkUpInv, LinkDownInv, PlaceInv
<1>49. CASE Host /\ EncChange
  BY <1>49 DEF Host, EncChange, CalmInv, CallInv, LinkUpInv, LinkDownInv, PlaceInv
<1>50. CASE Host /\ RepeatPairing
  BY <1>50 DEF Host, RepeatPairing, CalmInv, CallInv, LinkUpInv, LinkDownInv, PlaceInv
<1>51. CASE Host /\ GattEnd(TRUE)
  BY <1>51 DEF Host, GattEnd, CalmInv, CallInv, LinkUpInv, LinkDownInv, PlaceInv
<1>52. CASE Host /\ GattEnd(FALSE)
  BY <1>52 DEF Host, GattEnd, CalmInv, CallInv, LinkUpInv, LinkDownInv, PlaceInv
<1>53. CASE Host /\ LinkDrop
  <2>1. InOrder(evq)'
    BY <1>53 DEF LinkDrop, CalmInv
  <2>2. CallInv'
    BY <1>53, <1>d DEF Host, LinkDrop, CalmInv, CallInv, PlaceInv
  <2>3. LinkUpInv'
    BY <1>53 DEF LinkDrop, LinkUpInv
  <2>4. LinkDownInv'
    BY <1>53, <1>d DEF Host, LinkDrop, CalmInv, LinkUpInv, LinkDownInv, PlaceInv
  <2>5. PlaceInv'
    BY <1>53, <1>d DEF Host, LinkDrop, CalmInv, PlaceInv
  <2> QED
    BY <2>1, <2>2, <2>3, <2>4, <2>5 DEF CalmInv
<1>54. CASE Host /\ DisconnectLookup
  <2>1. InOrder(evq)'
    BY <1>54 DEF DisconnectLookup, CalmInv
  <2>2. CallInv'
    BY <1>54 DEF Host, DisconnectLookup, CalmInv, CallInv
  <2>3. LinkUpInv'
    BY <1>h, <1>54 DEF DisconnectLookup, LinkUpInv
  <2>4. LinkDownInv'
    BY <1>h, <1>54 DEF Host, DisconnectLookup, CalmInv, LinkDownInv
  <2>5. PlaceInv'
    BY <1>h, <1>54 DEF Host, DisconnectLookup, CalmInv, LinkDownInv, PlaceInv
  <2> QED
    BY <2>1, <2>2, <2>3, <2>4, <2>5 DEF CalmInv
<1>55. CASE Host /\ ForgetConnId
  BY <1>55 DEF Host, ForgetConnId, CalmInv, CallInv, LinkUpInv, LinkDownInv, PlaceInv
<1>56. CASE Host /\ PostClose
  <2>0. /\ OpenIn(evq') <=> OpenIn(evq)
        /\ CloseIn(evq')
        /\ OpensOf(evq, link) => OpensOf(evq', link)
        /\ InOrder(evq) /\ ~CloseIn(evq) => InOrder(evq')
        /\ evq' # <<>>
    BY Appended, <1>a, <1>h, <1>56 DEF PostClose
  <2>1. InOrder(evq)'
    BY <1>56, <2>0 DEF PostClose, CalmInv, LinkUpInv, LinkDownInv
  <2>2. CallInv'
    BY <1>56, <2>0 DEF Host, PostClose, CalmInv, CallInv
  <2>3. LinkUpInv'
    BY <1>56 DEF PostClose, CalmInv, LinkUpInv
  <2>4. LinkDownInv'
    BY <1>56, <2>0 DEF Host, PostClose, CalmInv, LinkDownInv
  <2>5. PlaceInv'
    BY <1>56, <2>0 DEF Host, PostClose, CalmInv, PlaceInv
  <2> QED
    BY <2>1, <2>2, <2>3, <2>4, <2>5 DEF CalmInv
<1>57. CASE Host /\ NotifyRx
  BY <1>57 DEF Host, NotifyRx, CalmInv, CallInv, LinkUpInv, LinkDownInv, PlaceInv
<1>58. CASE Host /\ PostInput
  <2>0. /\ OpenIn(evq') <=> OpenIn(evq)
        /\ CloseIn(evq') <=> CloseIn(evq)
        /\ OpensOf(evq, link) => OpensOf(evq', link)
        /\ InOrder(evq) /\ ~CloseIn(evq) => InOrder(evq')
        /\ evq' # <<>>
    BY Appended, <1>a, <1>h, <1>58 DEF PostInput
  <2>1. InOrder(evq)'
    BY <1>58, <2>0 DEF PostInput, CalmInv, LinkUpInv, LinkDownInv
  <2>2. CallInv'
    BY <1>58, <2>0 DEF Host, PostInput, CalmInv, CallInv
  <2>3. LinkUpInv'
    BY <1>58, <2>0 DEF Host, PostInput, CalmInv, LinkUpInv
  <2>4. LinkDownInv'
    BY <1>58 DEF PostInput, CalmInv, LinkDownInv
  <2>5. PlaceInv'
    BY <1>58, <2>0 DEF Host, PostInput, CalmInv, PlaceInv
  <2> QED
    BY <2>1, <2>2, <2>3, <2>4, <2>5 DEF CalmInv
<1>59. CASE Advertise
  BY <1>59 DEF Advertise, CalmInv, CallInv, LinkUpInv, LinkDownInv, PlaceInv
<1>60. ASSUME NEW c \in Cmds, SendCmd(c) PROVE CalmInv'
  BY <1>60 DEF SendCmd, CalmInv, CallInv, LinkUpInv, LinkDownInv, PlaceInv
<1>61. CASE Restart
  BY <1>61, NoEvents, NoSteps
     DEF Restart, Reboot, CalmInv, CallInv, LinkUpInv, LinkDownInv, PlaceInv
<1>62. CASE UNCHANGED vars
  BY <1>62 DEF vars, CalmInv, CallInv, LinkUpInv, LinkDownInv, PlaceInv
<1> QED
  BY <1>1, <1>2, <1>3, <1>4, <1>5, <1>6, <1>7, <1>8, <1>9, <1>10, <1>11, <1>12, <1>13, <1>14,
     <1>15, <1>16, <1>17, <1>18, <1>19, <1>20, <1>21, <1>22, <1>23, <1>24, <1>25, <1>26, <1>27,
     <1>28, <1>29, <1>30, <1>31, <1>32, <1>33, <1>34, <1>35, <1>36, <1>37, <1>38, <1>39, <1>40,
     <1>41, <1>42, <1>43, <1>44, <1>45, <1>46, <1>47, <1>48, <1>49, <1>50, <1>51, <1>52, <1>53,
     <1>54, <1>55, <1>56, <1>57, <1>58, <1>59, <1>60, <1>61, <1>62
     DEF Next, KStep, EStep, CallStep, HostStep, Host, StartPairing, SelectDevice, Cmds

\* Known takes the first address that is set, then the bond.
LEMMA KnownIs ==
    ASSUME NEW h, NEW d, NEW l, NEW B
    PROVE  /\ h # NoAddr => Known(h, d, l, B) = h
           /\ h = NoAddr /\ d # NoAddr => Known(h, d, l, B) = d
           /\ h = NoAddr /\ d = NoAddr /\ l # NoAddr => Known(h, d, l, B) = l
           /\ h = NoAddr /\ d = NoAddr /\ l = NoAddr =>
                 IF B = {} THEN Known(h, d, l, B) = NoAddr ELSE Known(h, d, l, B) \in B
<1>1. B # {} => (CHOOSE a \in B : TRUE) \in B
  OBVIOUS
<1> QED
  BY <1>1 DEF Known

\* The partner by state: none while scanning, the selected device while
\* connecting, the known device otherwise.
LEMMA PartnerIs ==
    /\ s_state = "SCANNING" => Partner = NoAddr
    /\ s_state = "CONNECTING" => Partner = s_scan_devs[selected + 1]
    /\ s_state \in {"IDLE", "RECONNECTING", "CONNECTED"} =>
          Partner = Known(s_hidh_dev, hdev, link, bonds)
BY DEF Partner, Known

\* The same after the step.
LEMMA PartnerWillBe ==
    /\ s_state' = "SCANNING" => Partner' = NoAddr
    /\ s_state' = "CONNECTING" => Partner' = s_scan_devs'[selected' + 1]
    /\ s_state' \in {"IDLE", "RECONNECTING", "CONNECTED"} =>
          Partner' = Known(s_hidh_dev', hdev', link', bonds')
BY DEF Partner, Known

\* A step that touches none of what the partner is read from keeps it.
LEMMA PartnerKept ==
    ASSUME KbdTypeOK, UNCHANGED <<s_hidh_dev, hdev, link, bonds>>,
           \/ s_state' = s_state
           \/ {s_state, s_state'} \subseteq {"IDLE", "RECONNECTING", "CONNECTED"},
           s_state = "CONNECTING" => UNCHANGED <<s_scan_devs, selected>>
    PROVE  Partner' = Partner
BY PartnerIs, PartnerWillBe DEF KbdTypeOK

\* Every step keeps the shown state in step with the place of K.
LEMMA StateStep ==
    ASSUME KbdInv, CalmInv, StateInv, [Next]_vars
    PROVE  StateInv'
<1> USE DEF Goto, linkVars, kbdVars, kVars
<1>1. CASE Top
  BY <1>1 DEF Top, StateInv
<1>2. CASE WaitReceive
  BY <1>2 DEF WaitReceive, StateInv
<1>3. CASE WaitEmpty
  BY <1>3 DEF WaitEmpty, StateInv
<1>4. CASE LightReconnect
  BY <1>4 DEF LightReconnect, StateInv
<1>5. CASE LightReturn
  BY <1>5 DEF LightReturn, StateInv
<1>6. CASE NoBond
  BY <1>6 DEF NoBond, StateInv
<1>7. CASE BondedOpen
  BY <1>7 DEF BondedOpen, StateInv
<1>8. CASE OpenReturn
  BY <1>8 DEF OpenReturn, StateInv
<1>9. CASE OpenDone
  BY <1>9 DEF OpenDone, StateInv
<1>10. CASE OpenWaitTimeout
  BY <1>10 DEF OpenWaitTimeout, StateInv
<1>11. CASE BondedBail
  BY <1>11 DEF BondedBail, StateInv
<1>12. CASE OpenBail
  BY <1>12 DEF OpenBail, StateInv
<1>13. CASE Bail
  BY <1>13 DEF Bail, StateInv
<1>14. CASE CheckTake
  BY <1>14 DEF CheckTake, StateInv
<1>15. CASE CheckGive
  BY <1>15 DEF CheckGive, StateInv
<1>16. CASE CheckFails
  BY <1>16 DEF CheckFails, StateInv
<1>17. CASE DoPair
  BY <1>17 DEF DoPair, StateInv
<1>18. CASE StartScan
  BY <1>18 DEF StartScan, StateInv
<1>19. CASE ScanStart
  BY <1>19 DEF ScanStart, StateInv
<1>20. CASE ScanClear
  BY <1>20 DEF ScanClear, StateInv
<1>21. CASE ScanSelect
  BY <1>21 DEF ScanSelect, StateInv
<1>22. CASE ScanNoCmd
  BY <1>22 DEF ScanNoCmd, StateInv
<1>23. CASE ScanTimeout
  BY <1>23 DEF ScanTimeout, StateInv
<1>24. CASE ScanAgain
  BY <1>24 DEF ScanAgain, StateInv
<1>25. CASE ScanPause
  BY <1>25 DEF ScanPause, StateInv
<1>26. CASE CancelScan
  BY <1>26 DEF CancelScan, StateInv
<1>27. CASE OpenSelected
  BY <1>27 DEF OpenSelected, StateInv
<1>28. CASE EnterConnected
  BY <1>28 DEF EnterConnected, StateInv
<1>29. CASE Disconnected
  BY <1>29 DEF Disconnected, StateInv
<1>30. CASE RepairClose
  BY <1>30 DEF RepairClose, StateInv
<1>31. CASE CloseWait
  BY <1>31 DEF CloseWait, StateInv
<1>32. CASE CallStep /\ UNCHANGED kbdVars
  BY <1>32 DEF StateInv
<1>33. CASE CbOpen
  BY <1>33 DEF CbOpen, StateInv
<1>34. CASE CbConnected
  BY <1>34 DEF CbConnected, StateInv
<1>35. CASE CbOpenDone
  BY <1>35 DEF CbOpenDone, StateInv
<1>36. CASE CbClose
  BY <1>36 DEF CbClose, StateInv
<1>37. CASE CbDisconnected
  BY <1>37 DEF CbDisconnected, StateInv
<1>38. CASE CbInput
  BY <1>38 DEF CbInput, StateInv
<1>39. CASE Host
  BY <1>39 DEF Host, StateInv
<1>40. CASE Advertise
  BY <1>40 DEF Advertise, StateInv
<1>41. ASSUME NEW c \in Cmds, SendCmd(c) PROVE StateInv'
  BY <1>41 DEF SendCmd, StateInv
<1>42. CASE Restart
  BY <1>42 DEF Restart, StateInv
<1>43. CASE UNCHANGED vars
  BY <1>43 DEF vars, StateInv
<1> QED
  BY <1>1, <1>2, <1>3, <1>4, <1>5, <1>6, <1>7, <1>8, <1>9, <1>10, <1>11, <1>12, <1>13, <1>14,
     <1>15, <1>16, <1>17, <1>18, <1>19, <1>20, <1>21, <1>22, <1>23, <1>24, <1>25, <1>26, <1>27,
     <1>28, <1>29, <1>30, <1>31, <1>32, <1>33, <1>34, <1>35, <1>36, <1>37, <1>38, <1>39, <1>40,
     <1>41, <1>42, <1>43
     DEF Next, KStep, EStep, StartPairing, SelectDevice, Cmds

\* Every step is a step of KbdPromise or changes nothing it speaks of.
LEMMA PromiseStep ==
    ASSUME Calm, KbdInv, CalmInv, StateInv, PartnerInv, [Next]_vars
    PROVE  PartnerInv' /\ [Promise!Next]_<<s_state, Partner, link, bonds>>
<1> USE DEF Unlinked, InCall, Waits, Checks, Gives, Linked, Goto, linkVars, devVars, gapVars,
procVars, semVars, nVars, callVars,
           kbdVars, kVars, sigVars, scanVars
<1>a. /\ link \in Addr \cup {NoAddr} /\ NoAddr \notin Addr /\ s_hidh_dev \in Addr \cup {NoAddr}
      /\ hdev \in Addr \cup {NoAddr} /\ bonds \subseteq Addr /\ evq \in Seq(Event)
      /\ ndev \in Addr \cup {NoAddr} /\ (npc \in {"post", "input"} => ndev \in Addr)
  BY NoAddrAssumption DEF KbdInv, KbdTypeOK, LinkInv, TypeOK, MemoryInv
<1>k. KbdTypeOK /\ InOrder(evq)
  BY DEF KbdInv, CalmInv
<1>1. CASE WaitReceive
  <2>1. UNCHANGED <<s_state, Partner, link, bonds>>
    BY <1>1, <1>k, PartnerKept DEF WaitReceive
  <2>2. PartnerInv'
    BY <1>1, <2>1 DEF WaitReceive, PartnerInv
  <2> QED
    BY <2>1, <2>2
<1>2. CASE WaitEmpty
  <2>1. UNCHANGED <<s_state, Partner, link, bonds>>
    BY <1>2, <1>k, PartnerKept DEF WaitEmpty
  <2>2. PartnerInv'
    BY <1>2, <2>1 DEF WaitEmpty, PartnerInv
  <2> QED
    BY <2>1, <2>2
<1>3. CASE NoBond
  <2>1. UNCHANGED <<s_state, Partner, link, bonds>>
    BY <1>3, <1>k, PartnerKept DEF NoBond
  <2>2. PartnerInv'
    BY <1>3, <2>1 DEF NoBond, PartnerInv
  <2> QED
    BY <2>1, <2>2
<1>4. CASE OpenDone
  <2>1. UNCHANGED <<s_state, Partner, link, bonds>>
    BY <1>4, <1>k, PartnerKept DEF OpenDone
  <2>2. PartnerInv'
    BY <1>4, <2>1 DEF OpenDone, PartnerInv
  <2> QED
    BY <2>1, <2>2
<1>5. CASE OpenWaitTimeout
  <2>1. UNCHANGED <<s_state, Partner, link, bonds>>
    BY <1>5, <1>k, PartnerKept DEF OpenWaitTimeout
  <2>2. PartnerInv'
    BY <1>5, <2>1 DEF OpenWaitTimeout, PartnerInv
  <2> QED
    BY <2>1, <2>2
<1>6. CASE BondedBail
  <2>1. UNCHANGED <<s_state, Partner, link, bonds>>
    BY <1>6, <1>k, PartnerKept DEF BondedBail
  <2>2. PartnerInv'
    BY <1>6, <2>1 DEF BondedBail, PartnerInv
  <2> QED
    BY <2>1, <2>2
<1>7. CASE OpenBail
  <2>1. UNCHANGED <<s_state, Partner, link, bonds>>
    BY <1>7, <1>k, PartnerKept DEF OpenBail
  <2>2. PartnerInv'
    BY <1>7, <2>1 DEF OpenBail, PartnerInv
  <2> QED
    BY <2>1, <2>2
<1>8. CASE Bail
  <2>1. UNCHANGED <<s_state, Partner, link, bonds>>
    BY <1>8, <1>k, PartnerKept DEF Bail
  <2>2. PartnerInv'
    BY <1>8, <2>1 DEF Bail, PartnerInv
  <2> QED
    BY <2>1, <2>2
<1>9. CASE CheckTake
  <2>1. UNCHANGED <<s_state, Partner, link, bonds>>
    BY <1>9, <1>k, PartnerKept DEF CheckTake
  <2>2. PartnerInv'
    BY <1>9, <2>1 DEF CheckTake, PartnerInv
  <2> QED
    BY <2>1, <2>2
<1>10. CASE CheckGive
  <2>1. UNCHANGED <<s_state, Partner, link, bonds>>
    BY <1>10, <1>k, PartnerKept DEF CheckGive
  <2>2. PartnerInv'
    BY <1>10, <2>1 DEF CheckGive, PartnerInv, CalmInv, PlaceInv
  <2> QED
    BY <2>1, <2>2
<1>11. CASE CheckFails
  <2>1. UNCHANGED <<s_state, Partner, link, bonds>>
    BY <1>11, <1>k, PartnerKept DEF CheckFails
  <2>2. PartnerInv'
    BY <1>11, <2>1 DEF CheckFails, PartnerInv
  <2> QED
    BY <2>1, <2>2
<1>12. CASE StartScan
  <2>1. UNCHANGED <<s_state, Partner, link, bonds>>
    BY <1>12, <1>k, PartnerKept DEF StartScan, Disc
  <2>2. PartnerInv'
    BY <1>12, <2>1 DEF StartScan, Disc, PartnerInv
  <2> QED
    BY <2>1, <2>2
<1>13. CASE ScanStart
  <2>1. UNCHANGED <<s_state, Partner, link, bonds>>
    BY <1>13, <1>k, PartnerKept DEF ScanStart, DiscCancel, StateInv
  <2>2. PartnerInv'
    BY <1>13, <2>1 DEF ScanStart, DiscCancel, PartnerInv
  <2> QED
    BY <2>1, <2>2
<1>14. CASE ScanSelect
  <2>1. UNCHANGED <<s_state, Partner, link, bonds>>
    BY <1>14, <1>k, PartnerKept DEF ScanSelect, StateInv
  <2>2. PartnerInv'
    BY <1>14, <2>1 DEF ScanSelect, PartnerInv
  <2> QED
    BY <2>1, <2>2
<1>15. CASE ScanNoCmd
  <2>1. UNCHANGED <<s_state, Partner, link, bonds>>
    BY <1>15, <1>k, PartnerKept DEF ScanNoCmd
  <2>2. PartnerInv'
    BY <1>15, <2>1 DEF ScanNoCmd, PartnerInv
  <2> QED
    BY <2>1, <2>2
<1>16. CASE ScanTimeout
  <2>1. UNCHANGED <<s_state, Partner, link, bonds>>
    BY <1>16, <1>k, PartnerKept DEF ScanTimeout, DiscCancel
  <2>2. PartnerInv'
    BY <1>16, <2>1 DEF ScanTimeout, DiscCancel, PartnerInv
  <2> QED
    BY <2>1, <2>2
<1>17. CASE ScanAgain
  <2>1. UNCHANGED <<s_state, Partner, link, bonds>>
    BY <1>17, <1>k, PartnerKept DEF ScanAgain
  <2>2. PartnerInv'
    BY <1>17, <2>1 DEF ScanAgain, PartnerInv
  <2> QED
    BY <2>1, <2>2
<1>18. CASE ScanPause
  <2>1. UNCHANGED <<s_state, Partner, link, bonds>>
    BY <1>18, <1>k, PartnerKept DEF ScanPause, StateInv
  <2>2. PartnerInv'
    BY <1>18, <2>1 DEF ScanPause, PartnerInv
  <2> QED
    BY <2>1, <2>2
<1>19. CASE CancelScan
  <2>1. UNCHANGED <<s_state, Partner, link, bonds>>
    BY <1>19, <1>k, PartnerKept DEF CancelScan, DiscCancel
  <2>2. PartnerInv'
    BY <1>19, <2>1 DEF CancelScan, DiscCancel, PartnerInv
  <2> QED
    BY <2>1, <2>2
<1>20. CASE RepairClose
  <2>1. UNCHANGED <<s_state, Partner, link, bonds>>
    BY <1>20, <1>k, PartnerKept DEF RepairClose, DevClose
  <2>2. PartnerInv'
    BY <1>20, <2>1 DEF RepairClose, DevClose, PartnerInv
  <2> QED
    BY <2>1, <2>2
<1>21. CASE CloseWait
  <2>1. UNCHANGED <<s_state, Partner, link, bonds>>
    BY <1>21, <1>k, PartnerKept DEF CloseWait
  <2>2. PartnerInv'
    BY <1>21, <2>1 DEF CloseWait, PartnerInv
  <2> QED
    BY <2>1, <2>2
<1>22. CASE ConnectReturn /\ UNCHANGED kbdVars
  <2>1. UNCHANGED <<s_state, Partner, link, bonds>>
    BY <1>22, <1>k, PartnerKept DEF ConnectReturn
  <2>2. PartnerInv'
    BY <1>22, <2>1 DEF ConnectReturn, PartnerInv
  <2> QED
    BY <2>1, <2>2
<1>23. CASE InitiateSecurity /\ UNCHANGED kbdVars
  <2>1. UNCHANGED <<s_state, Partner, link, bonds>>
    BY <1>23, <1>k, PartnerKept DEF InitiateSecurity
  <2>2. PartnerInv'
    BY <1>23, <2>1 DEF InitiateSecurity, PartnerInv
  <2> QED
    BY <2>1, <2>2
<1>24. CASE SecurityReturn /\ UNCHANGED kbdVars
  <2>1. UNCHANGED <<s_state, Partner, link, bonds>>
    BY <1>24, <1>k, PartnerKept DEF SecurityReturn
  <2>2. PartnerInv'
    BY <1>24, <2>1 DEF SecurityReturn, PartnerInv
  <2> QED
    BY <2>1, <2>2
<1>25. CASE SecurityTimeout /\ UNCHANGED kbdVars
  <2>1. UNCHANGED <<s_state, Partner, link, bonds>>
    BY <1>25, <1>k, PartnerKept DEF SecurityTimeout
  <2>2. PartnerInv'
    BY <1>25, <2>1 DEF SecurityTimeout, PartnerInv
  <2> QED
    BY <2>1, <2>2
<1>26. CASE StartGattOp /\ UNCHANGED kbdVars
  <2>1. UNCHANGED <<s_state, Partner, link, bonds>>
    BY <1>26, <1>k, PartnerKept DEF StartGattOp
  <2>2. PartnerInv'
    BY <1>26, <2>1 DEF StartGattOp, PartnerInv
  <2> QED
    BY <2>1, <2>2
<1>27. CASE GattReturn /\ UNCHANGED kbdVars
  <2>1. UNCHANGED <<s_state, Partner, link, bonds>>
    BY <1>27, <1>k, PartnerKept DEF GattReturn
  <2>2. PartnerInv'
    BY <1>27, <2>1 DEF GattReturn, PartnerInv
  <2> QED
    BY <2>1, <2>2
<1>28. CASE MarkConnected /\ UNCHANGED kbdVars
  <2>1. UNCHANGED <<s_state, Partner, link, bonds>>
    BY <1>28, <1>k, PartnerKept DEF MarkConnected
  <2>2. PartnerInv'
    BY <1>28, <2>1 DEF MarkConnected, PartnerInv
  <2> QED
    BY <2>1, <2>2
<1>29. CASE PostOpen /\ UNCHANGED kbdVars
  <2>1. UNCHANGED <<s_state, Partner, link, bonds>>
    BY <1>29, <1>k, PartnerKept DEF PostOpen
  <2>2. PartnerInv'
    BY <1>29, <2>1 DEF PostOpen, PartnerInv, CalmInv, CallInv
  <2> QED
    BY <2>1, <2>2
<1>30. CASE CallDone /\ UNCHANGED kbdVars
  <2>1. UNCHANGED <<s_state, Partner, link, bonds>>
    BY <1>30, <1>k, PartnerKept DEF CallDone
  <2>2. PartnerInv'
    BY <1>30, <2>1 DEF CallDone, PartnerInv
  <2> QED
    BY <2>1, <2>2
<1>31. CASE CbConnected
  <2>1. UNCHANGED <<s_state, Partner, link, bonds>>
    BY <1>31, <1>k, PartnerKept DEF CbConnected
  <2>2. PartnerInv'
    BY <1>31, <2>1 DEF CbConnected, PartnerInv
  <2> QED
    BY <2>1, <2>2
<1>32. CASE CbOpenDone
  <2>1. UNCHANGED <<s_state, Partner, link, bonds>>
    BY <1>32, <1>k, PartnerKept DEF CbOpenDone
  <2>2. PartnerInv'
    BY <1>32, <2>1 DEF CbOpenDone, PartnerInv
  <2> QED
    BY <2>1, <2>2
<1>33. CASE CbClose
  <2>1. UNCHANGED <<s_state, Partner, link, bonds>>
    BY <1>33, <1>k, PartnerKept DEF CbClose, Deliver
  <2>e. OpensOf(evq, s_hidh_dev) => OpensOf(evq', s_hidh_dev)
    BY <1>33, <1>a, <1>k, Taken DEF CbClose, Deliver
  <2>2. PartnerInv'
    BY <1>33, <2>1, <2>e DEF CbClose, Deliver, PartnerInv
  <2> QED
    BY <2>1, <2>2
<1>34. CASE CbDisconnected
  <2>1. UNCHANGED <<s_state, Partner, link, bonds>>
    BY <1>34, <1>k, PartnerKept DEF CbDisconnected
  <2>2. PartnerInv'
    BY <1>34, <2>1 DEF CbDisconnected, PartnerInv
  <2> QED
    BY <2>1, <2>2
<1>35. CASE CbInput
  <2>1. UNCHANGED <<s_state, Partner, link, bonds>>
    BY <1>35, <1>k, PartnerKept DEF CbInput, Deliver
  <2>e. OpensOf(evq, s_hidh_dev) => OpensOf(evq', s_hidh_dev)
    BY <1>35, <1>a, <1>k, Taken DEF CbInput, Deliver
  <2>2. PartnerInv'
    BY <1>35, <2>1, <2>e DEF CbInput, Deliver, PartnerInv
  <2> QED
    BY <2>1, <2>2
<1>36. CASE Host /\ ConnectFail
  <2>1. UNCHANGED <<s_state, Partner, link, bonds>>
    BY <1>36, <1>k, PartnerKept DEF Host, ConnectFail
  <2>2. PartnerInv'
    BY <1>36, <2>1 DEF Host, ConnectFail, PartnerInv
  <2> QED
    BY <2>1, <2>2
<1>37. CASE Host /\ GattEnd(TRUE)
  <2>1. UNCHANGED <<s_state, Partner, link, bonds>>
    BY <1>37, <1>k, PartnerKept DEF Host, GattEnd
  <2>2. PartnerInv'
    BY <1>37, <2>1 DEF Host, GattEnd, PartnerInv
  <2> QED
    BY <2>1, <2>2
<1>38. CASE Host /\ GattEnd(FALSE)
  <2>1. UNCHANGED <<s_state, Partner, link, bonds>>
    BY <1>38, <1>k, PartnerKept DEF Host, GattEnd
  <2>2. PartnerInv'
    BY <1>38, <2>1 DEF Host, GattEnd, PartnerInv
  <2> QED
    BY <2>1, <2>2
<1>39. CASE Host /\ DisconnectLookup
  <2>1. UNCHANGED <<s_state, Partner, link, bonds>>
    BY <1>39, <1>k, PartnerKept DEF Host, DisconnectLookup
  <2>2. PartnerInv'
    BY <1>39, <2>1 DEF Host, DisconnectLookup, PartnerInv
  <2> QED
    BY <2>1, <2>2
<1>40. CASE Host /\ ForgetConnId
  <2>1. UNCHANGED <<s_state, Partner, link, bonds>>
    BY <1>40, <1>k, PartnerKept DEF Host, ForgetConnId
  <2>2. PartnerInv'
    BY <1>40, <2>1 DEF Host, ForgetConnId, PartnerInv
  <2> QED
    BY <2>1, <2>2
<1>41. CASE Host /\ PostClose
  <2>1. UNCHANGED <<s_state, Partner, link, bonds>>
    BY <1>41, <1>k, PartnerKept DEF Host, PostClose
  <2>e. OpensOf(evq, s_hidh_dev) => OpensOf(evq', s_hidh_dev)
    BY <1>41, <1>a, Appended DEF PostClose
  <2>2. PartnerInv'
    BY <1>41, <2>1, <2>e DEF Host, PostClose, PartnerInv
  <2> QED
    BY <2>1, <2>2
<1>42. CASE Host /\ NotifyRx
  <2>1. UNCHANGED <<s_state, Partner, link, bonds>>
    BY <1>42, <1>k, PartnerKept DEF Host, NotifyRx
  <2>2. PartnerInv'
    BY <1>42, <2>1 DEF Host, NotifyRx, PartnerInv
  <2> QED
    BY <2>1, <2>2
<1>43. CASE Host /\ PostInput
  <2>1. UNCHANGED <<s_state, Partner, link, bonds>>
    BY <1>43, <1>k, PartnerKept DEF Host, PostInput
  <2>e. OpensOf(evq, s_hidh_dev) => OpensOf(evq', s_hidh_dev)
    BY <1>43, <1>a, Appended DEF PostInput
  <2>2. PartnerInv'
    BY <1>43, <2>1, <2>e DEF Host, PostInput, PartnerInv
  <2> QED
    BY <2>1, <2>2
<1>44. CASE Advertise
  <2>1. UNCHANGED <<s_state, Partner, link, bonds>>
    BY <1>44, PartnerKept DEF Advertise, StateInv, KbdInv, ScanLoopScans, InScanLoop
  <2>2. PartnerInv'
    BY <1>44, <2>1 DEF Advertise, PartnerInv
  <2> QED
    BY <2>1, <2>2
<1>45. ASSUME NEW c \in Cmds, SendCmd(c)
      PROVE  PartnerInv' /\ UNCHANGED <<s_state, Partner, link, bonds>>
  <2>1. UNCHANGED <<s_state, Partner, link, bonds>>
    BY <1>45, <1>k, PartnerKept DEF SendCmd
  <2> QED
    BY <1>45, <2>1 DEF SendCmd, PartnerInv
<1>46. CASE UNCHANGED vars
  <2>1. UNCHANGED <<s_state, Partner, link, bonds>>
    BY <1>46, <1>k, PartnerKept DEF vars
  <2>2. PartnerInv'
    BY <1>46, <2>1 DEF vars, PartnerInv
  <2> QED
    BY <2>1, <2>2
<1>47. CASE Top
  <2>1. Partner' = Partner /\ UNCHANGED <<link, bonds>>
    BY <1>47, <1>k, PartnerKept DEF Top, StateInv
  <2>2. PartnerInv'
    BY <1>47, <2>1 DEF Top, PartnerInv
  <2>3. \/ UNCHANGED s_state
        \/ Promise!Reconnect
    BY <1>47, <1>a, <2>1 DEF Top, PartnerInv, StateInv, Promise!Reconnect
  <2> QED
    BY <2>1, <2>2, <2>3 DEF Promise!Next
<1>48. CASE LightReconnect
  <2>1. Partner' = Partner /\ Partner = s_hidh_dev
    BY <1>48, PartnerIs, PartnerWillBe, KnownIs DEF LightReconnect, StateInv
  <2>2. PartnerInv'
    BY <1>48, <2>1 DEF LightReconnect, DevReconnect, PartnerInv
  <2>3. UNCHANGED <<s_state, Partner, link, bonds>>
    BY <1>48, <2>1 DEF LightReconnect, DevReconnect
  <2> QED
    BY <2>2, <2>3
<1>49. CASE LightReturn
  <2>1. s_hidh_dev # NoAddr /\ s_state = "RECONNECTING"
    BY <1>49 DEF LightReturn, StateInv, CalmInv, CallInv
  <2>2. /\ UNCHANGED <<s_state, s_hidh_dev, link, bonds>>
        /\ Known(s_hidh_dev, hdev, link, bonds) = s_hidh_dev
        /\ Known(s_hidh_dev, hdev', link, bonds) = s_hidh_dev
    BY <1>49, <2>1, KnownIs DEF LightReturn, TakeResult
  <2>3. Partner' = Partner
    BY <2>1, <2>2, PartnerIs, PartnerWillBe
  <2>4. PartnerInv'
    BY <1>49, <2>3 DEF LightReturn, TakeResult, PartnerInv, CalmInv, CallInv
  <2> QED
    BY <2>2, <2>3, <2>4
<1>50. CASE BondedOpen
  <2>1. Partner' = Partner
    BY <1>50, PartnerWillBe, KnownIs DEF BondedOpen, DevOpen, PartnerInv, StateInv
  <2>2. PartnerInv'
    BY <1>50, <2>1 DEF BondedOpen, DevOpen, PartnerInv
  <2>3. UNCHANGED <<s_state, Partner, link, bonds>>
    BY <1>50, <2>1 DEF BondedOpen, DevOpen
  <2> QED
    BY <2>2, <2>3
<1>51. CASE OpenReturn
  <2>1. Partner' = Partner
    BY <1>51, PartnerIs, PartnerWillBe, KnownIs
       DEF OpenReturn, TakeResult, PartnerInv, StateInv, CalmInv
  <2>2. PartnerInv'
    BY <1>51, <2>1 DEF OpenReturn, TakeResult, PartnerInv
  <2>3. UNCHANGED <<s_state, Partner, link, bonds>>
    BY <1>51, <2>1 DEF OpenReturn, TakeResult
  <2> QED
    BY <2>2, <2>3
<1>52. CASE DoPair
  <2>1. Partner' = NoAddr
    BY <1>52, PartnerWillBe DEF DoPair
  <2>2. PartnerInv'
    BY <1>52 DEF DoPair, StoreClear, PartnerInv, CalmInv, PlaceInv
  <2>3. Promise!Scan
    BY <1>52, <2>1 DEF DoPair, StoreClear, CalmInv, PlaceInv, Promise!Scan
  <2> QED
    BY <2>2, <2>3 DEF Promise!Next
<1>53. CASE ScanClear
  <2>1. Partner' = NoAddr /\ Partner = NoAddr
    BY <1>53, PartnerIs, PartnerWillBe DEF ScanClear, StateInv
  <2>2. PartnerInv'
    BY <1>53, <2>1 DEF ScanClear, StoreClear, PartnerInv
  <2>3. UNCHANGED <<s_state, Partner, link, bonds>>
    BY <1>53, <1>a, <2>1 DEF ScanClear, StoreClear, PartnerInv
  <2> QED
    BY <2>2, <2>3
<1>54. CASE OpenSelected
  <2>0. s_scan_devs[selected + 1] \in Addr
    BY <1>54, ElementOfSeq, LenProperties
       DEF OpenSelected, KbdInv, KbdTypeOK, SelectedInRange
  <2>1. Partner = NoAddr /\ Partner' = s_scan_devs[selected + 1]
    BY <1>54, PartnerIs, PartnerWillBe DEF OpenSelected, StateInv
  <2>2. PartnerInv'
    BY <1>54, <1>a, <2>1 DEF OpenSelected, DevOpen, PartnerInv
  <2>3. Promise!Choose(s_scan_devs[selected + 1])
    BY <1>54, <2>1 DEF OpenSelected, DevOpen, StateInv, Promise!Choose
  <2> QED
    BY <2>0, <2>2, <2>3 DEF Promise!Next
<1>55. CASE EnterConnected
  <2>1. Partner' = Partner
    BY <1>55, PartnerWillBe, KnownIs DEF EnterConnected, PartnerInv, CalmInv, LinkUpInv, PlaceInv
  <2>2. PartnerInv'
    BY <1>55, <2>1 DEF EnterConnected, PartnerInv
  <2>3. Promise!Connected
    BY <1>55, <2>1 DEF EnterConnected, StateInv, CalmInv, PlaceInv, Promise!Connected
  <2> QED
    BY <2>2, <2>3 DEF Promise!Next
<1>56. CASE Disconnected
  <2>1. Partner' = Partner /\ Partner # NoAddr
    BY <1>56, PartnerIs, PartnerWillBe, KnownIs DEF Disconnected, StateInv, CalmInv, PlaceInv
  <2>2. PartnerInv'
    BY <1>56, <2>1 DEF Disconnected, PartnerInv
  <2>3. Promise!Reconnect
    BY <1>56, <2>1 DEF Disconnected, StateInv, Promise!Reconnect
  <2> QED
    BY <2>2, <2>3 DEF Promise!Next
<1>57. CASE CbOpen
  <2>1. /\ Head(evq).dev \in Addr
        /\ \A d : OpensOf(evq, d) => Head(evq).dev = d /\ OpensOf(evq', d)
        /\ evq # <<>>
    BY <1>57, <1>k, Taken, FirstEvent DEF CbOpen, Deliver, KbdInv, LinkInv, TypeOK
  <2>2. /\ s_hidh_dev' = Head(evq).dev
        /\ UNCHANGED <<kpc, s_state, link, bonds, hdev, s_scan_devs, selected>>
    BY <1>57 DEF CbOpen, Deliver
  <2>3. CASE link = NoAddr
    <3>1. kpc \in Linked
      BY <2>1, <2>3 DEF CalmInv, LinkDownInv, Quiet, EventsHandled
    <3>2. s_hidh_dev' = s_hidh_dev /\ OpensOf(evq', s_hidh_dev')
      BY <2>1, <2>2, <2>3, <3>1 DEF PartnerInv
    <3>3. Partner' = Partner
      BY <1>k, <2>2, <3>2, PartnerKept
    <3> QED
      BY <2>2, <3>1, <3>2, <3>3 DEF PartnerInv
  <2>4. CASE link # NoAddr
    <3>1. s_hidh_dev' = link /\ Partner = link
      BY <2>1, <2>2, <2>4 DEF CalmInv, LinkUpInv, PartnerInv
    <3>2. Known(s_hidh_dev', hdev', link', bonds') = link
      BY <2>4, <3>1, KnownIs
    <3>3. s_state \in {"RECONNECTING", "CONNECTING", "CONNECTED"}
      BY <1>k, <2>4 DEF CalmInv, PlaceInv, StateInv, KbdTypeOK
    <3>4. Partner' = Partner
      BY <2>2, <3>1, <3>2, <3>3, PartnerIs, PartnerWillBe
    <3> QED
      BY <2>2, <2>4, <3>4 DEF PartnerInv
  <2> QED
    BY <2>3, <2>4
<1>58. CASE Host /\ ConnectOk
  <2>1. Partner' = Partner
    BY <1>58, PartnerIs, PartnerWillBe, KnownIs
       DEF Host, ConnectOk, KbdInv, LinkInv, WakeInv, NoStaleWake, PartnerInv, StateInv
  <2>2. PartnerInv'
    BY <1>58, <2>1 DEF Host, ConnectOk, KbdInv, LinkInv, WakeInv, NoStaleWake, PartnerInv
  <2>3. Promise!LinkUp
    BY <1>58, <2>1
       DEF Host, ConnectOk, KbdInv, LinkInv, WakeInv, NoStaleWake, HandleInv, PartnerInv,
           StateInv, Promise!LinkUp
  <2> QED
    BY <2>2, <2>3 DEF Promise!Next
<1>59. CASE Host /\ EncChange
  <2>0. link # NoAddr /\ UNCHANGED <<s_state, link, hdev, s_hidh_dev, s_scan_devs, selected>>
    BY <1>59 DEF EncChange, Host, KbdInv, LinkInv, SecurityInv
  <2>0a. Known(s_hidh_dev, hdev, link, bonds') = Known(s_hidh_dev, hdev, link, bonds)
    BY <2>0 DEF Known
  <2>0b. s_state \in {"IDLE", "RECONNECTING", "SCANNING", "CONNECTING", "CONNECTED"}
    BY <1>k DEF KbdTypeOK
  <2>1. Partner' = Partner
    BY PartnerIs, PartnerWillBe, KnownIs, <2>0, <2>0b
  <2>2. PartnerInv'
    BY <1>59, <2>1, <2>0 DEF Host, EncChange, PartnerInv
  <2>3. Promise!Bond
    BY <1>59, <2>1, <2>0 DEF EncChange, PartnerInv, Promise!Bond
  <2> QED
    BY <2>2, <2>3 DEF Promise!Next
<1>60. CASE Host /\ RepeatPairing
  <2>0. link # NoAddr /\ UNCHANGED <<s_state, link, hdev, s_hidh_dev, s_scan_devs, selected>>
    BY <1>60 DEF RepeatPairing, Host, KbdInv, LinkInv, SecurityInv
  <2>0a. Known(s_hidh_dev, hdev, link, bonds') = Known(s_hidh_dev, hdev, link, bonds)
    BY <2>0 DEF Known
  <2>0b. s_state \in {"IDLE", "RECONNECTING", "SCANNING", "CONNECTING", "CONNECTED"}
    BY <1>k DEF KbdTypeOK
  <2>1. Partner' = Partner
    BY PartnerIs, PartnerWillBe, KnownIs, <2>0, <2>0b
  <2>2. PartnerInv'
    BY <1>60, <1>a, <2>1 DEF Host, RepeatPairing, PartnerInv
  <2>3. Promise!Bond
    BY <1>60, <2>1, <2>0 DEF RepeatPairing, PartnerInv, Promise!Bond
  <2> QED
    BY <2>2, <2>3 DEF Promise!Next
<1>61. CASE Host /\ LinkDrop
  <2>0. kpc \in {"online", "closeWait"} /\ link # NoAddr /\ s_hidh_dev = link
    BY <1>61 DEF Host, LinkDrop, Calm, CalmInv, PlaceInv, LinkUpInv
  <2>0a. OpensOf(evq, s_hidh_dev)
    BY <2>0 DEF CalmInv, LinkUpInv
  <2>1. Partner' = Partner
    BY <1>61, PartnerIs, PartnerWillBe, KnownIs, <2>0 DEF Host, StateInv
  <2>2. PartnerInv'
    BY <1>61, <2>1, <2>0, <2>0a DEF Host, LinkDrop, PartnerInv
  <2>3. Promise!LinkDown
    BY <1>61, <2>1 DEF Host, LinkDrop, Promise!LinkDown
  <2> QED
    BY <2>2, <2>3 DEF Promise!Next
<1>62. CASE Restart
  <2>0. IF bonds = {} THEN Known(NoAddr, NoAddr, NoAddr, bonds) = NoAddr
        ELSE Known(NoAddr, NoAddr, NoAddr, bonds) \in bonds
    BY KnownIs
  <2>1. Partner' = Known(NoAddr, NoAddr, NoAddr, bonds)
    BY <1>62, PartnerWillBe DEF Restart, Reboot
  <2>2. PartnerInv'
    BY <1>62, <2>1, <2>0 DEF Restart, Reboot, PartnerInv
  <2>3. Promise!Restart
    BY <1>62, <2>1, <2>0 DEF Restart, Reboot, Promise!Restart
  <2> QED
    BY <2>2, <2>3 DEF Promise!Next
<1> QED
  BY <1>1, <1>2, <1>3, <1>4, <1>5, <1>6, <1>7, <1>8, <1>9, <1>10, <1>11, <1>12, <1>13, <1>14,
     <1>15, <1>16, <1>17, <1>18, <1>19, <1>20, <1>21, <1>22, <1>23, <1>24, <1>25, <1>26, <1>27,
     <1>28, <1>29, <1>30, <1>31, <1>32, <1>33, <1>34, <1>35, <1>36, <1>37, <1>38, <1>39, <1>40,
     <1>41, <1>42, <1>43, <1>44, <1>45, <1>46, <1>47, <1>48, <1>49, <1>50, <1>51, <1>52, <1>53,
     <1>54, <1>55, <1>56, <1>57, <1>58, <1>59, <1>60, <1>61, <1>62
     DEF Next, KStep, EStep, CallStep, HostStep, Host, StartPairing, SelectDevice, Cmds

-----------------------------------------------------------------------------
(* The theorems.                                                           *)

\* The invariants hold when the task starts.
LEMMA CalmInitHolds == Init => CalmInv /\ StateInv /\ PartnerInv
<1> SUFFICES ASSUME Init PROVE CalmInv /\ StateInv /\ PartnerInv
  OBVIOUS
<1> USE DEF Init, LinkInit, Unlinked, InCall, Waits, Checks, Gives, Linked
<1>1. CalmInv
  BY NoEvents, NoSteps
     DEF CalmInv, CallInv, LinkUpInv, LinkDownInv, PlaceInv, Quiet, EventsHandled, Announced
<1>2. StateInv
  BY DEF StateInv
<1>3. bonds \subseteq {Partner}
  <2>1. Partner = Known(NoAddr, NoAddr, NoAddr, bonds)
    BY PartnerIs
  <2>2. IF bonds = {} THEN Partner = NoAddr ELSE Partner \in bonds
    BY <2>1, KnownIs
  <2> QED
    BY <2>2
<1>4. PartnerInv
  BY <1>3 DEF PartnerInv
<1> QED
  BY <1>1, <1>2, <1>4

\* The invariant that carries the properties of this module.
THEOREM CalmInvariant ==
    ASSUME Calm
    PROVE  Spec => [](KbdInv /\ CalmInv)
<1>1. Init => KbdInv /\ CalmInv
  BY KbdInitHolds, CalmInitHolds
<1>2. KbdInv /\ CalmInv /\ [Next]_vars => (KbdInv /\ CalmInv)'
  BY KbdStepHolds, CalmStep
<1> QED
  BY <1>1, <1>2, PTL DEF Spec

\* A reconnect starts without a link, so that ble_gap_connect can work.
THEOREM ReconnectsFree ==
    ASSUME Calm
    PROVE  Spec => []ReconnectHasNoLink
<1>1. CalmInv => ReconnectHasNoLink
  BY DEF CalmInv, PlaceInv, Unlinked, ReconnectHasNoLink
<1> QED
  BY <1>1, CalmInvariant, PTL

\* The two link semaphores say what the link is, and are down between links.
THEOREM SignalsTrue ==
    ASSUME Calm
    PROVE  Spec => []SignalsInSync
<1>1. KbdInv /\ CalmInv => SignalsInSync
  <2> SUFFICES ASSUME KbdInv, CalmInv PROVE SignalsInSync
    OBVIOUS
  <2> USE DEF CalmInv, LinkUpInv, LinkDownInv, PlaceInv, Unlinked, InCall, Waits, Checks, Gives,
             Linked, Quiet, Delivered, Closing, EventsHandled
  <2>1. kpc = "online" /\ EventsHandled =>
          /\ s_disconnected_sem = (link = NoAddr)
          /\ s_connected_sem = (link # NoAddr)
          /\ link # NoAddr => s_hidh_dev = link
    BY NoEvents DEF KbdInv, KbdTypeOK
  <2>2. InScanLoop \/ kpc = "attempt" => ~s_disconnected_sem /\ ~s_connected_sem
    BY DEF InScanLoop
  <2> QED
    BY <2>1, <2>2 DEF SignalsInSync
<1> QED
  BY <1>1, CalmInvariant, PTL

\* The component deals with one keyboard, the one selected last: it implements
\* KbdPromise.
THEOREM PromiseKept ==
    ASSUME Calm
    PROVE  Spec => KeepsPromise
<1> DEFINE Inv == KbdInv /\ CalmInv /\ StateInv /\ PartnerInv
<1>1. Init => Inv
  BY KbdInitHolds, CalmInitHolds
<1>2. Inv /\ [Next]_vars => Inv' /\ [Promise!Next]_<<s_state, Partner, link, bonds>>
  BY KbdStepHolds, CalmStep, StateStep, PromiseStep
<1>3. Init => Promise!Init
  <2> SUFFICES ASSUME Init PROVE Promise!Init
    OBVIOUS
  <2>1. Partner = Known(NoAddr, NoAddr, NoAddr, bonds)
    BY PartnerIs DEF Init, LinkInit
  <2>2. IF bonds = {} THEN Partner = NoAddr ELSE Partner \in bonds
    BY <2>1, KnownIs
  <2> QED
    BY <2>2, NoAddrAssumption DEF Promise!Init, Init, LinkInit
<1> QED
  BY <1>1, <1>2, <1>3, PTL DEF Spec, KeepsPromise, Promise!Spec, Promise!promiseVars
===============================================================================
