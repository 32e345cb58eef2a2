-------------------------- MODULE HidDevice_proofs --------------------------
(***************************************************************************)
(* Proofs about HidDevice, for any configurations, any number of links and *)
(* any length of the event queue.                                          *)
(***************************************************************************)
EXTENDS HidDevice, WellFoundedInduction, TLAPS

Char == [map : Nat, mode : Modes \cup {"none", "protocol"}, type : Types \cup {"none"},
         id : Nat, usage : Usages \cup {"none"}]
Device == [live : BOOLEAN, loop : BOOLEAN, owned : BOOLEAN, connected : BOOLEAN,
           conn : Conns \cup {"none"}, protocol : Modes]
HostPCs == {"idle", "register", "connect", "connect_id", "connect_mode", "connect_post",
            "disconnect", "disconnect_post"}
HostState == [pc : HostPCs, conn : Conns \cup {"none"}, todo : Seq(SUBSET Char),
              chars : SUBSET Char]

\* The types of the variables, and which arrays go together.
DeviceType ==
    /\ s_dev \in Device /\ (s_dev.connected => s_dev.live)
    /\ app \in {"idle", "config", "gatts", "listen", "send", "stop"}
    /\ app = "stop" => ~s_dev.owned
    /\ s_dev.owned /\ app \in {"idle", "listen", "send"} => DOMAIN mode = DOMAIN cfg
    /\ \A d \in DOMAIN mode : mode[d] \in Modes
HandleType ==
    /\ cfg \in Configs \cup {<<>>} /\ service_index \in Nat
    /\ \A p \in DOMAIN handles :
          handles[p] \in Char /\ (handles[p] = NoChar \/ handles[p].mode \in Modes)
QueueType == queue \in Seq({"start", "connect", "disconnect"}) /\ Len(queue) <= QueueSize
HostType ==
    /\ host \in HostState /\ links \subseteq Conns /\ radio \in {"on", "off"}
    /\ services \in Seq(SUBSET Char) /\ listener \in BOOLEAN /\ synced_cb \in BOOLEAN
TypeInv == DeviceType /\ HandleType /\ QueueType /\ HostType

\* Of links the device hears once the listener is registered; the host tells of one
\* before the next, and a link that is being told of stays up.
EventInv ==
    /\ host.pc \notin {"idle", "register"} => listener
    /\ host.pc \in {"connect", "connect_id"} => host.conn \in links
    /\ s_dev.connected =>
          listener /\ (s_dev.conn \in links \/ host.pc \in {"disconnect", "connect_id"})

\* With one link at a time, all younger than the device.
OneLinkInv ==
    odd \cap {"shared", "carried"} = {} =>
        /\ \A c, d \in links : c = d
        /\ host.pc = "disconnect" => links = {}
        /\ s_dev.live /\ links # {} => s_dev.connected \/ host.pc = "connect"

\* Before the first end: until the callbacks are set the host does nothing, and then
\* the device and its event loop stay.
FirstInv ==
    odd \cap {"ended_on", "ended_off"} = {} =>
        /\ ~synced_cb => app \in {"idle", "config", "gatts"} /\ (app = "idle" => ~s_dev.live)
        /\ app \in {"config", "gatts"} => s_dev.live /\ ~synced_cb
        /\ app = "gatts" => s_dev.loop
        /\ synced_cb => s_dev.live /\ s_dev.loop

\* The host runs with one device and its event loop, and has counted no service
\* before it runs.
SettledInv ==
    Settled =>
        /\ app = "config" => s_dev.live /\ ~s_dev.loop
        /\ app = "gatts" \/ s_dev.loop => s_dev.live
        /\ app = "stop" => ~s_dev.live
        /\ radio = "on" => s_dev.live /\ s_dev.loop
        /\ radio = "off" => /\ host = AtRest /\ links = {} /\ service_index = 0
                            /\ app # "send" /\ ~s_dev.connected

\* The characteristics that a configuration asks for, as create_hid_db has them.
Db(config, d) == {Protocol(d)} \cup {CharOf(d, config[d][i]) : i \in DOMAIN config[d]}
Asked(config, c) == \E d \in DOMAIN config : c \in Db(config, d)

\* The services that are registered are those of the configuration, in their order,
\* and have their places in devices; no link comes up in between.
RegisterInv ==
    Settled =>
        /\ services # <<>> => services = [d \in DOMAIN cfg |-> Db(cfg, d)]
        /\ app \in {"config", "gatts"} => services = <<>>
        /\ service_index + Len(host.todo) <= Len(cfg)
        /\ \A k \in DOMAIN host.todo : host.todo[k] = Db(cfg, service_index + k)
        /\ \A c \in host.chars :
              service_index \in DOMAIN cfg /\ c \in Db(cfg, service_index)
        /\ IF host.pc = "register" THEN links = {} /\ ~s_dev.connected
                                   ELSE host.todo = <<>> /\ host.chars = {}

\* A report that the configuration tells apart from the others has its own
\* characteristic, or that is yet to be registered; and so has the protocol mode.
HandleOf(p) == CharOf(p[1], Report(p))
Filled ==
    \A p \in Places(cfg) :
        p[1] <= service_index => HandleOf(p) \in host.chars \/ handles[p] = HandleOf(p)
FilledInv ==
    Settled =>
        /\ DOMAIN handles = Places(cfg) /\ DOMAIN protocols = DOMAIN cfg
        /\ \A d \in DOMAIN cfg :
              protocols[d] = 0 \/ (protocols[d] = d /\ d <= service_index)
        /\ radio = "off" => sent = Nothing
        /\ Filled \/ Ambiguous

\* A report that is being sent was asked for by the map, the id and the type of one
\* that is registered, and its mode is the one that was read.
Wanted(p) == /\ p[1] = call.map /\ Report(p).id = call.id /\ Report(p).type = call.type
             /\ Report(p).mode = "report" /\ Report(p).type # "output"
CallInv ==
    app = "send" /\ Settled =>
        /\ radio = "on" /\ host.pc # "register"
        /\ s_dev.protocol = call.mode /\ call.map <= service_index
        /\ \E p \in Places(cfg) : Wanted(p)

\* The inductive invariant.
HiddInv ==
    /\ TypeInv /\ EventInv /\ OneLinkInv /\ FirstInv /\ SettledInv /\ RegisterInv /\ FilledInv
    /\ CallInv /\ HostSafe /\ InputReachesItsReport
-----------------------------------------------------------------------------
(* Types.                                                                  *)

\* A configuration that InitConfig takes is one of Configs, one that it has
\* not yet taken is empty.
LEMMA ConfigIs ==
    ASSUME NEW c \in Configs \cup {<<>>}
    PROVE  /\ c \in Seq(Seq(Item)) /\ Len(c) \in Nat
           /\ \A d \in DOMAIN c : d \in Nat \ {0} /\ d <= Len(c) /\ c[d] \in Seq(Item)
                                  /\ \A i \in DOMAIN c[d] : i \in Nat /\ c[d][i] \in Item
<1>1. c \in Seq(Seq(Item))
  <2>1. <<>> \in Seq(Seq(Item))
    OBVIOUS
  <2> QED BY <2>1, HiddAssumption
<1>2. ASSUME NEW d \in DOMAIN c
      PROVE  d \in Nat \ {0} /\ d <= Len(c) /\ c[d] \in Seq(Item)
  BY <1>1
<1>3. ASSUME NEW d \in DOMAIN c, NEW i \in DOMAIN c[d]
      PROVE  i \in Nat /\ c[d][i] \in Item
  BY <1>2
<1> QED BY <1>1, <1>2, <1>3

\* What the configuration asks for are characteristics.
LEMMA CharsAre ==
    ASSUME TypeInv
    PROVE  \A d \in DOMAIN cfg : create_hid_db(d) \in SUBSET Char
<1> SUFFICES ASSUME NEW d \in DOMAIN cfg PROVE create_hid_db(d) \subseteq Char
  OBVIOUS
<1>1. d \in Nat /\ \A i \in DOMAIN cfg[d] : cfg[d][i] \in Item
  BY ConfigIs DEF TypeInv, HandleType
<1>2. Protocol(d) \in Char
  BY <1>1 DEF Protocol, NoChar, Char
<1>3. ASSUME NEW r \in Item PROVE CharOf(d, r) \in Char
  BY <1>1 DEF CharOf, BootChar, ReportChar, Char, Item, Modes, Types, Usages
<1> QED BY <1>1, <1>2, <1>3 DEF create_hid_db

\* There is room in the queue for one event at least.
LEMMA QueueFits ==
    ASSUME QueueType
    PROVE  /\ <<>> \in Seq({"start", "connect", "disconnect"}) /\ 0 <= QueueSize
           /\ QueueSize \in Nat
           /\ \A e \in {"start", "connect", "disconnect"} :
                 Len(queue) < QueueSize =>
                    /\ Append(queue, e) \in Seq({"start", "connect", "disconnect"})
                    /\ Len(Append(queue, e)) <= QueueSize
           /\ queue # <<>> => /\ Tail(queue) \in Seq({"start", "connect", "disconnect"})
                              /\ Len(Tail(queue)) <= QueueSize
<1>1. QueueSize \in Nat
  BY HiddAssumption
<1>2. <<>> \in Seq({"start", "connect", "disconnect"})
  OBVIOUS
<1> QED BY <1>1, <1>2 DEF QueueType

\* The device and the protocol modes.
LEMMA DeviceStep ==
    ASSUME TypeInv, [Next]_vars
    PROVE  DeviceType'
<1> USE
   DEF devVars, hostVars, restOfApp, restOfHost, TypeInv, DeviceType, HostType, Device,
       HostState, Modes, NoDev
<1>1. CASE InitAlloc
  <2>1. s_dev' \in Device /\ ~s_dev'.connected
    BY <1>1 DEF InitAlloc
  <2>2. \A d \in DOMAIN mode' : FALSE
    BY <1>1 DEF InitAlloc
  <2> QED BY <1>1, <2>1, <2>2 DEF InitAlloc
<1>2. ASSUME NEW c \in Configs, InitConfig(c) PROVE DeviceType'
  <2>1. mode' = mode
    BY <1>2 DEF InitConfig
  <2>2. \/ s_dev' = [s_dev EXCEPT !.loop = TRUE] /\ app' = "gatts"
        \/ s_dev' = NoDev /\ app' = "idle"
    BY <1>2 DEF InitConfig
  <2>3. CASE s_dev' = [s_dev EXCEPT !.loop = TRUE] /\ app' = "gatts"
    BY <2>1, <2>3
  <2>4. CASE s_dev' = NoDev /\ app' = "idle"
    BY <2>1, <2>4
  <2> QED BY <2>2, <2>3, <2>4
<1>3. CASE InitGatts
  BY <1>3 DEF InitGatts
<1>4. CASE InitListen
  BY <1>4 DEF InitListen
<1>5. CASE DeinitStart
  BY <1>5 DEF DeinitStart
<1>6. CASE DeinitEnd
  BY <1>6 DEF DeinitEnd
<1>7. ASSUME NEW p \in Places(cfg), Report(p).mode = "report", Report(p).type # "output",
             SetReport(p[1], Report(p).id, Report(p).type)
      PROVE DeviceType'
  <2>1. s_dev' = [s_dev EXCEPT !.protocol = mode[protocols[p[1]]]] /\ protocols[p[1]] \in DOMAIN mode
    BY <1>7 DEF SetReport
  <2>2. UNCHANGED <<mode, cfg>> /\ s_dev.owned /\ app = "idle" /\ app' = "send"
    BY <1>7 DEF SetReport
  <2>3. mode[protocols[p[1]]] \in Modes
    BY <2>1
  <2> QED BY <2>1, <2>2, <2>3
<1>8. CASE RegisterService
  BY <1>8 DEF RegisterService, Abort
<1>9. ASSUME NEW c \in host.chars, RegisterProtocol(c) PROVE DeviceType'
  BY <1>9 DEF RegisterProtocol, Abort
<1>10. ASSUME NEW c \in host.chars, RegisterReport(c) PROVE DeviceType'
  BY <1>10 DEF RegisterReport, Abort
<1>11. CASE Synced
  BY <1>11 DEF Synced, PostTo, Abort, Rest, AtRest
<1>12. CASE Connect
  <2>1. UNCHANGED <<mode, cfg, app>>
    BY <1>12 DEF Connect
  <2>2. s_dev' = s_dev \/ (s_dev.live /\ s_dev' = [s_dev EXCEPT !.connected = TRUE])
    BY <1>12 DEF Connect, Abort
  <2> QED BY <2>1, <2>2
<1>13. CASE Disconnect
  <2>1. UNCHANGED <<mode, cfg, app>>
    BY <1>13 DEF Disconnect
  <2>2. s_dev' = s_dev \/ s_dev' = [s_dev EXCEPT !.connected = FALSE]
    BY <1>13 DEF Disconnect, Abort
  <2> QED BY <2>1, <2>2
<1>14. CASE PostLink
  BY <1>14 DEF PostLink, PostTo, Abort, Rest, AtRest
<1>15. CASE RadioOn
  BY <1>15 DEF RadioOn, AtRest
<1>16. CASE RadioOff
  BY <1>16 DEF RadioOff
<1>17. CASE LinkFails
  BY <1>17 DEF LinkFails
<1>18. ASSUME NEW c \in Conns, LinkUp(c) PROVE DeviceType'
  BY <1>18 DEF LinkUp, AtRest
<1>19. ASSUME NEW c \in Conns, LinkDown(c) PROVE DeviceType'
  BY <1>19 DEF LinkDown, AtRest
<1>20. ASSUME NEW d \in DOMAIN mode, NEW m \in Modes, WriteMode(d, m) PROVE DeviceType'
  BY <1>20 DEF WriteMode
<1>21. CASE Deliver
  BY <1>21 DEF Deliver
<1>22. CASE Reboot
  BY <1>22 DEF Reboot, NoDev
<1>23. CASE UNCHANGED vars
  BY <1>23 DEF vars
<1>24. CASE SendReport
  BY <1>24 DEF SendReport
<1>25. CASE ConnectId
  <2>1. UNCHANGED <<mode, cfg, app>>
    BY <1>25 DEF ConnectId
  <2>2. s_dev' = s_dev \/ s_dev' = [s_dev EXCEPT !.conn = host.conn]
    BY <1>25 DEF ConnectId, Abort
  <2> QED BY <2>1, <2>2
<1>26. CASE ConnectMode
  <2>1. UNCHANGED <<s_dev, cfg, app>>
    BY <1>26 DEF ConnectMode, Abort
  <2>2. mode' = mode \/ \E written \in SUBSET ModeTargets :
           mode' = [d \in DOMAIN mode |-> IF d \in written THEN "report" ELSE mode[d]]
    BY <1>26 DEF ConnectMode, Abort
  <2>3. DOMAIN mode' = DOMAIN mode /\ \A d \in DOMAIN mode' : mode'[d] \in Modes
    BY <2>2
  <2> QED BY <2>1, <2>3
<1> QED BY <1>1, <1>2, <1>3, <1>4, <1>5, <1>6, <1>7, <1>8, <1>9, <1>10, <1>11, <1>12, <1>13,
   <1>14, <1>15, <1>16, <1>17, <1>18, <1>19, <1>20, <1>21, <1>22, <1>23, <1>24, <1>25, <1>26
      DEF Next, App, Host, Register, Air

\* The configuration and the characteristics.
LEMMA HandleStep ==
    ASSUME TypeInv, [Next]_vars
    PROVE  HandleType'
<1> USE DEF devVars, hostVars, restOfApp, restOfHost, TypeInv, HandleType, HostType
<1>1. CASE InitAlloc
  BY <1>1 DEF InitAlloc
<1>2. ASSUME NEW c \in Configs, InitConfig(c) PROVE HandleType'
  <2>1. NoChar \in Char
    BY DEF NoChar, Char
  <2> QED BY <1>2, <2>1 DEF InitConfig
<1>3. CASE InitGatts
  BY <1>3 DEF InitGatts
<1>4. CASE InitListen
  BY <1>4 DEF InitListen
<1>5. CASE DeinitStart
  BY <1>5 DEF DeinitStart
<1>6. CASE DeinitEnd
  BY <1>6 DEF DeinitEnd
<1>7. ASSUME NEW p \in Places(cfg), Report(p).mode = "report", Report(p).type # "output",
             SetReport(p[1], Report(p).id, Report(p).type)
      PROVE HandleType'
  BY <1>7 DEF SetReport
<1>8. CASE RegisterService
  BY <1>8 DEF RegisterService, Abort
<1>9. ASSUME NEW c \in host.chars, RegisterProtocol(c) PROVE HandleType'
  BY <1>9 DEF RegisterProtocol, Abort
<1>10. ASSUME NEW c \in host.chars, RegisterReport(c) PROVE HandleType'
  <2>1. handles' = handles \/ handles' = [handles EXCEPT ![ReportFor(c)] = c]
    BY <1>10 DEF RegisterReport, Abort
  <2>2. c \in Char /\ c.mode \in Modes
    BY <1>10 DEF RegisterReport, Abort, HostState
  <2> QED BY <1>10, <2>1, <2>2 DEF RegisterReport, Abort
<1>11. CASE Synced
  BY <1>11 DEF Synced, PostTo, Abort, Rest, AtRest
<1>12. CASE Connect
  BY <1>12 DEF Connect, Abort, HostGoes
<1>13. CASE Disconnect
  BY <1>13 DEF Disconnect, Abort, HostGoes, Rest
<1>14. CASE PostLink
  BY <1>14 DEF PostLink, PostTo, Abort, Rest, AtRest
<1>15. CASE RadioOn
  BY <1>15 DEF RadioOn, AtRest
<1>16. CASE RadioOff
  BY <1>16 DEF RadioOff
<1>17. CASE LinkFails
  BY <1>17 DEF LinkFails
<1>18. ASSUME NEW c \in Conns, LinkUp(c) PROVE HandleType'
  BY <1>18 DEF LinkUp, AtRest
<1>19. ASSUME NEW c \in Conns, LinkDown(c) PROVE HandleType'
  BY <1>19 DEF LinkDown, AtRest
<1>20. ASSUME NEW d \in DOMAIN mode, NEW m \in Modes, WriteMode(d, m) PROVE HandleType'
  BY <1>20 DEF WriteMode
<1>21. CASE Deliver
  BY <1>21 DEF Deliver
<1>22. CASE Reboot
  BY <1>22 DEF Reboot, NoDev, AtRest
<1>23. CASE UNCHANGED vars
  BY <1>23 DEF vars
<1>24. CASE SendReport
  BY <1>24 DEF SendReport
<1>25. CASE ConnectId
  BY <1>25 DEF ConnectId, Abort, HostGoes
<1>26. CASE ConnectMode
  BY <1>26 DEF ConnectMode, Abort, HostGoes
<1> QED BY <1>1, <1>2, <1>3, <1>4, <1>5, <1>6, <1>7, <1>8, <1>9, <1>10, <1>11, <1>12, <1>13,
   <1>14, <1>15, <1>16, <1>17, <1>18, <1>19, <1>20, <1>21, <1>22, <1>23, <1>24, <1>25, <1>26
      DEF Next, App, Host, Register, Air

\* The event queue.
LEMMA QueueStep ==
    ASSUME TypeInv, [Next]_vars
    PROVE  QueueType'
<1> USE DEF devVars, hostVars, restOfApp, restOfHost, TypeInv, QueueType
<1>1. CASE InitAlloc
  BY <1>1, QueueFits DEF InitAlloc
<1>2. ASSUME NEW c \in Configs, InitConfig(c) PROVE QueueType'
  BY <1>2, QueueFits DEF InitConfig
<1>3. CASE InitGatts
  BY <1>3, QueueFits DEF InitGatts
<1>4. CASE InitListen
  BY <1>4, QueueFits DEF InitListen
<1>5. CASE DeinitStart
  BY <1>5, QueueFits DEF DeinitStart
<1>6. CASE DeinitEnd
  BY <1>6, QueueFits DEF DeinitEnd
<1>7. ASSUME NEW p \in Places(cfg), Report(p).mode = "report", Report(p).type # "output",
             SetReport(p[1], Report(p).id, Report(p).type)
      PROVE QueueType'
  BY <1>7, QueueFits DEF SetReport
<1>8. CASE RegisterService
  BY <1>8, QueueFits DEF RegisterService, Abort
<1>9. ASSUME NEW c \in host.chars, RegisterProtocol(c) PROVE QueueType'
  BY <1>9, QueueFits DEF RegisterProtocol, Abort
<1>10. ASSUME NEW c \in host.chars, RegisterReport(c) PROVE QueueType'
  BY <1>10, QueueFits DEF RegisterReport, Abort
<1>11. CASE Synced
  BY <1>11, QueueFits DEF Synced, PostTo, Abort, Rest, AtRest
<1>12. CASE Connect
  BY <1>12, QueueFits DEF Connect, Abort, HostGoes
<1>13. CASE Disconnect
  BY <1>13, QueueFits DEF Disconnect, Abort, HostGoes, Rest
<1>14. CASE PostLink
  BY <1>14, QueueFits DEF PostLink, PostTo, Abort, Rest, AtRest
<1>15. CASE RadioOn
  BY <1>15, QueueFits DEF RadioOn, AtRest
<1>16. CASE RadioOff
  BY <1>16, QueueFits DEF RadioOff
<1>17. CASE LinkFails
  BY <1>17, QueueFits DEF LinkFails
<1>18. ASSUME NEW c \in Conns, LinkUp(c) PROVE QueueType'
  BY <1>18, QueueFits DEF LinkUp, AtRest
<1>19. ASSUME NEW c \in Conns, LinkDown(c) PROVE QueueType'
  BY <1>19, QueueFits DEF LinkDown, AtRest
<1>20. ASSUME NEW d \in DOMAIN mode, NEW m \in Modes, WriteMode(d, m) PROVE QueueType'
  BY <1>20, QueueFits DEF WriteMode
<1>21. CASE Deliver
  BY <1>21, QueueFits DEF Deliver
<1>22. CASE Reboot
  BY <1>22, QueueFits DEF Reboot, NoDev, AtRest
<1>23. CASE UNCHANGED vars
  BY <1>23, QueueFits DEF vars
<1>24. CASE SendReport
  BY <1>24, QueueFits DEF SendReport
<1>25. CASE ConnectId
  BY <1>25, QueueFits DEF ConnectId, Abort, HostGoes
<1>26. CASE ConnectMode
  BY <1>26, QueueFits DEF ConnectMode, Abort, HostGoes
<1> QED BY <1>1, <1>2, <1>3, <1>4, <1>5, <1>6, <1>7, <1>8, <1>9, <1>10, <1>11, <1>12, <1>13,
   <1>14, <1>15, <1>16, <1>17, <1>18, <1>19, <1>20, <1>21, <1>22, <1>23, <1>24, <1>25, <1>26
      DEF Next, App, Host, Register, Air

\* The host at rest.
LEMMA RestIs ==
    /\ AtRest \in HostState /\ <<>> \in Seq(SUBSET Char)
    /\ \A c \in Conns, step \in HostPCs :
          [AtRest EXCEPT !.pc = step, !.conn = c] \in HostState
    /\ [AtRest EXCEPT !.pc = "disconnect"] \in HostState
<1>1. <<>> \in Seq(SUBSET Char)
  OBVIOUS
<1> QED BY <1>1 DEF AtRest, HostState, HostPCs

\* The host.
LEMMA HostStep ==
    ASSUME TypeInv, [Next]_vars
    PROVE  HostType'
<1> USE DEF devVars, hostVars, restOfApp, restOfHost, TypeInv, HostType
<1>1. CASE InitAlloc
  <2>1. <<>> \in Seq(SUBSET Char)
    OBVIOUS
  <2> QED BY <1>1, <2>1 DEF InitAlloc
<1>2. ASSUME NEW c \in Configs, InitConfig(c) PROVE HostType'
  BY <1>2 DEF InitConfig
<1>3. CASE InitGatts
  <2>1. CASE services' = [d \in DOMAIN cfg |-> create_hid_db(d)]
    <3>1. DOMAIN cfg = 1 .. Len(cfg) /\ Len(cfg) \in Nat
      BY ConfigIs DEF HandleType
    <3>2. services' \in Seq(SUBSET Char)
      BY <2>1, <3>1, CharsAre
    <3> QED BY <1>3, <3>2 DEF InitGatts
  <2>2. CASE UNCHANGED <<services, mode>>
    BY <1>3, <2>2 DEF InitGatts
  <2> QED BY <1>3, <2>1, <2>2 DEF InitGatts
<1>4. CASE InitListen
  BY <1>4 DEF InitListen
<1>5. CASE DeinitStart
  <2>1. <<>> \in Seq(SUBSET Char)
    OBVIOUS
  <2> QED BY <1>5, <2>1 DEF DeinitStart
<1>6. CASE DeinitEnd
  BY <1>6 DEF DeinitEnd
<1>7. ASSUME NEW p \in Places(cfg), Report(p).mode = "report", Report(p).type # "output",
             SetReport(p[1], Report(p).id, Report(p).type)
      PROVE HostType'
  BY <1>7 DEF SetReport
<1>8. CASE RegisterService
  <2>1. host.todo # <<>> => Tail(host.todo) \in Seq(SUBSET Char) /\ Head(host.todo) \in SUBSET Char
    BY DEF HostState
  <2>2. \/ host' = host
        \/ /\ host.todo # <<>>
           /\ host' = [host EXCEPT !.todo = Tail(host.todo), !.chars = Head(host.todo)]
    BY <1>8 DEF RegisterService, Abort, HostState
  <2>3. host' \in HostState
    BY <2>1, <2>2 DEF HostState
  <2> QED BY <1>8, <2>3 DEF RegisterService, Abort
<1>9. ASSUME NEW c \in host.chars, RegisterProtocol(c) PROVE HostType'
  <2>1. host' = host \/ host' = [host EXCEPT !.chars = host.chars \ {c}]
    BY <1>9 DEF RegisterProtocol, Abort, HostState
  <2>2. host' \in HostState
    BY <2>1 DEF HostState
  <2> QED BY <1>9, <2>2 DEF RegisterProtocol, Abort
<1>10. ASSUME NEW c \in host.chars, RegisterReport(c) PROVE HostType'
  <2>1. host' = host \/ host' = [host EXCEPT !.chars = host.chars \ {c}]
    BY <1>10 DEF RegisterReport, Abort, HostState
  <2>2. host' \in HostState
    BY <2>1 DEF HostState
  <2> QED BY <1>10, <2>2 DEF RegisterReport, Abort
<1>11. CASE Synced
  BY <1>11, RestIs DEF Synced, PostTo, Abort, Rest
<1>12. CASE Connect
  <2>1. host' = host \/ \E step \in HostPCs : host' = [host EXCEPT !.pc = step]
    BY <1>12 DEF Connect, Abort, HostGoes, HostPCs
  <2>2. host' \in HostState
    BY <2>1 DEF HostState
  <2> QED BY <1>12, <2>2 DEF Connect, Abort, HostGoes
<1>13. CASE Disconnect
  <2>1. host' = host \/ host' = AtRest \/ \E step \in HostPCs : host' = [host EXCEPT !.pc = step]
    BY <1>13 DEF Disconnect, Abort, HostGoes, Rest, HostPCs
  <2>2. host' \in HostState
    BY <2>1, RestIs DEF HostState
  <2> QED BY <1>13, <2>2 DEF Disconnect, Abort, HostGoes, Rest
<1>14. CASE PostLink
  BY <1>14, RestIs DEF PostLink, PostTo, Abort, Rest
<1>15. CASE RadioOn
  <2>1. [AtRest EXCEPT !.pc = "register", !.todo = services] \in HostState
    BY DEF AtRest, HostState, HostPCs
  <2> QED BY <1>15, <2>1 DEF RadioOn
<1>16. CASE RadioOff
  BY <1>16 DEF RadioOff
<1>17. CASE LinkFails
  BY <1>17 DEF LinkFails
<1>18. ASSUME NEW c \in Conns, LinkUp(c) PROVE HostType'
  <2>1. host' \in HostState
    BY <1>18, RestIs DEF LinkUp, HostPCs
  <2> QED BY <1>18, <2>1 DEF LinkUp
<1>19. ASSUME NEW c \in Conns, LinkDown(c) PROVE HostType'
  BY <1>19, RestIs DEF LinkDown
<1>20. ASSUME NEW d \in DOMAIN mode, NEW m \in Modes, WriteMode(d, m) PROVE HostType'
  BY <1>20 DEF WriteMode
<1>21. CASE Deliver
  BY <1>21 DEF Deliver
<1>22. CASE Reboot
  BY <1>22, RestIs DEF Reboot, NoDev
<1>23. CASE UNCHANGED vars
  BY <1>23 DEF vars
<1>24. CASE SendReport
  BY <1>24 DEF SendReport
<1>25. CASE ConnectId
  <2>1. host' = host \/ \E step \in HostPCs : host' = [host EXCEPT !.pc = step]
    BY <1>25 DEF ConnectId, Abort, HostGoes, HostPCs
  <2>2. host' \in HostState
    BY <2>1 DEF HostState
  <2> QED BY <1>25, <2>2 DEF ConnectId, Abort, HostGoes
<1>26. CASE ConnectMode
  <2>1. host' = host \/ \E step \in HostPCs : host' = [host EXCEPT !.pc = step]
    BY <1>26 DEF ConnectMode, Abort, HostGoes, HostPCs
  <2>2. host' \in HostState
    BY <2>1 DEF HostState
  <2> QED BY <1>26, <2>2 DEF ConnectMode, Abort, HostGoes
<1> QED BY <1>1, <1>2, <1>3, <1>4, <1>5, <1>6, <1>7, <1>8, <1>9, <1>10, <1>11, <1>12, <1>13,
   <1>14, <1>15, <1>16, <1>17, <1>18, <1>19, <1>20, <1>21, <1>22, <1>23, <1>24, <1>25, <1>26
      DEF Next, App, Host, Register, Air

-----------------------------------------------------------------------------
(* Links.                                                                  *)

\* What the host knows of a link, it knows while the link is there.
LEMMA EventStep ==
    ASSUME TypeInv, EventInv, [Next]_vars
    PROVE  EventInv'
<1> USE
   DEF devVars, hostVars, restOfApp, restOfHost, TypeInv, DeviceType, HostType, Device,
       HostState, EventInv
<1>1. CASE InitAlloc
  BY <1>1 DEF InitAlloc, NoDev
<1>2. ASSUME NEW c \in Configs, InitConfig(c) PROVE EventInv'
  <2>1. \/ s_dev' = [s_dev EXCEPT !.loop = TRUE] /\ app' = "gatts"
        \/ s_dev' = NoDev /\ app' = "idle"
    BY <1>2 DEF InitConfig
  <2>2. UNCHANGED <<host, links, radio, listener, synced_cb, odd, service_index>>
        /\ app = "config"
    BY <1>2 DEF InitConfig
  <2>3. CASE s_dev' = [s_dev EXCEPT !.loop = TRUE] /\ app' = "gatts"
    BY <2>2, <2>3
  <2>4. CASE s_dev' = NoDev /\ app' = "idle"
    BY <2>2, <2>4 DEF NoDev
  <2> QED BY <2>1, <2>3, <2>4
<1>3. CASE InitGatts
  BY <1>3 DEF InitGatts
<1>4. CASE InitListen
  BY <1>4 DEF InitListen
<1>5. CASE DeinitStart
  BY <1>5 DEF DeinitStart, NoDev
<1>6. CASE DeinitEnd
  BY <1>6 DEF DeinitEnd
<1>7. ASSUME NEW p \in Places(cfg), Report(p).mode = "report", Report(p).type # "output",
             SetReport(p[1], Report(p).id, Report(p).type)
      PROVE EventInv'
  BY <1>7 DEF SetReport
<1>8. CASE RegisterService
  BY <1>8 DEF RegisterService, Abort
<1>9. ASSUME NEW c \in host.chars, RegisterProtocol(c) PROVE EventInv'
  BY <1>9 DEF RegisterProtocol, Abort
<1>10. ASSUME NEW c \in host.chars, RegisterReport(c) PROVE EventInv'
  BY <1>10 DEF RegisterReport, Abort
<1>11. CASE Synced
  BY <1>11 DEF Synced, PostTo, Abort, Rest, AtRest
<1>12. CASE Connect
  BY <1>12 DEF Connect, Abort, HostGoes
<1>13. CASE Disconnect
  <2>1. UNCHANGED <<links, radio, listener, synced_cb, odd, service_index, app>>
        /\ host.pc = "disconnect"
    BY <1>13 DEF Disconnect
  <2>2. CASE s_dev' = [s_dev EXCEPT !.connected = FALSE]
             /\ (host' = AtRest \/ host' = [host EXCEPT !.pc = "disconnect_post"])
    BY <2>1, <2>2 DEF AtRest
  <2>3. CASE UNCHANGED <<s_dev, host>>
    BY <2>1, <2>3
  <2> QED BY <1>13, <2>2, <2>3 DEF Disconnect, Abort, HostGoes, Rest
<1>14. CASE PostLink
  BY <1>14 DEF PostLink, PostTo, Abort, Rest, AtRest
<1>15. CASE RadioOn
  BY <1>15 DEF RadioOn, AtRest
<1>16. CASE RadioOff
  BY <1>16 DEF RadioOff
<1>17. CASE LinkFails
  BY <1>17 DEF LinkFails
<1>18. ASSUME NEW c \in Conns, LinkUp(c) PROVE EventInv'
  BY <1>18 DEF LinkUp, AtRest
<1>19. ASSUME NEW c \in Conns, LinkDown(c) PROVE EventInv'
  BY <1>19 DEF LinkDown, AtRest
<1>20. ASSUME NEW d \in DOMAIN mode, NEW m \in Modes, WriteMode(d, m) PROVE EventInv'
  BY <1>20 DEF WriteMode
<1>21. CASE Deliver
  BY <1>21 DEF Deliver
<1>22. CASE Reboot
  BY <1>22 DEF Reboot, NoDev, AtRest
<1>23. CASE UNCHANGED vars
  BY <1>23 DEF vars
<1>24. CASE SendReport
  BY <1>24 DEF SendReport
<1>25. CASE ConnectId
  BY <1>25 DEF ConnectId, Abort, HostGoes
<1>26. CASE ConnectMode
  BY <1>26 DEF ConnectMode, Abort, HostGoes
<1> QED BY <1>1, <1>2, <1>3, <1>4, <1>5, <1>6, <1>7, <1>8, <1>9, <1>10, <1>11, <1>12, <1>13,
   <1>14, <1>15, <1>16, <1>17, <1>18, <1>19, <1>20, <1>21, <1>22, <1>23, <1>24, <1>25, <1>26
      DEF Next, App, Host, Register, Air

\* One link at a time.
LEMMA OneLinkStep ==
    ASSUME TypeInv, EventInv, OneLinkInv, [Next]_vars
    PROVE  OneLinkInv'
<1> USE
   DEF devVars, hostVars, restOfApp, restOfHost, TypeInv, DeviceType, HostType, Device,
       HostState, EventInv, OneLinkInv
<1>1. CASE InitAlloc
  BY <1>1 DEF InitAlloc
<1>2. ASSUME NEW c \in Configs, InitConfig(c) PROVE OneLinkInv'
  <2>1. \/ s_dev' = [s_dev EXCEPT !.loop = TRUE] /\ app' = "gatts"
        \/ s_dev' = NoDev /\ app' = "idle"
    BY <1>2 DEF InitConfig
  <2>2. UNCHANGED <<host, links, radio, listener, synced_cb, odd, service_index>>
        /\ app = "config"
    BY <1>2 DEF InitConfig
  <2>3. CASE s_dev' = [s_dev EXCEPT !.loop = TRUE] /\ app' = "gatts"
    BY <2>2, <2>3
  <2>4. CASE s_dev' = NoDev /\ app' = "idle"
    BY <2>2, <2>4 DEF NoDev
  <2> QED BY <2>1, <2>3, <2>4
<1>3. CASE InitGatts
  BY <1>3 DEF InitGatts
<1>4. CASE InitListen
  BY <1>4 DEF InitListen
<1>5. CASE DeinitStart
  BY <1>5 DEF DeinitStart, NoDev
<1>6. CASE DeinitEnd
  BY <1>6 DEF DeinitEnd
<1>7. ASSUME NEW p \in Places(cfg), Report(p).mode = "report", Report(p).type # "output",
             SetReport(p[1], Report(p).id, Report(p).type)
      PROVE OneLinkInv'
  BY <1>7 DEF SetReport
<1>8. CASE RegisterService
  BY <1>8 DEF RegisterService, Abort
<1>9. ASSUME NEW c \in host.chars, RegisterProtocol(c) PROVE OneLinkInv'
  BY <1>9 DEF RegisterProtocol, Abort
<1>10. ASSUME NEW c \in host.chars, RegisterReport(c) PROVE OneLinkInv'
  BY <1>10 DEF RegisterReport, Abort
<1>11. CASE Synced
  BY <1>11 DEF Synced, PostTo, Abort, Rest, AtRest
<1>12. CASE Connect
  BY <1>12 DEF Connect, Abort, HostGoes
<1>13. CASE Disconnect
  BY <1>13 DEF Disconnect, Abort, HostGoes, Rest
<1>14. CASE PostLink
  BY <1>14 DEF PostLink, PostTo, Abort, Rest, AtRest
<1>15. CASE RadioOn
  BY <1>15 DEF RadioOn, AtRest
<1>16. CASE RadioOff
  BY <1>16 DEF RadioOff
<1>17. CASE LinkFails
  BY <1>17 DEF LinkFails
<1>18. ASSUME NEW c \in Conns, LinkUp(c) PROVE OneLinkInv'
  BY <1>18 DEF LinkUp, AtRest
<1>19. ASSUME NEW c \in Conns, LinkDown(c) PROVE OneLinkInv'
  BY <1>19 DEF LinkDown, AtRest
<1>20. ASSUME NEW d \in DOMAIN mode, NEW m \in Modes, WriteMode(d, m) PROVE OneLinkInv'
  BY <1>20 DEF WriteMode
<1>21. CASE Deliver
  BY <1>21 DEF Deliver
<1>22. CASE Reboot
  BY <1>22 DEF Reboot, NoDev, AtRest
<1>23. CASE UNCHANGED vars
  BY <1>23 DEF vars
<1>24. CASE SendReport
  BY <1>24 DEF SendReport
<1>25. CASE ConnectId
  BY <1>25 DEF ConnectId, Abort, HostGoes
<1>26. CASE ConnectMode
  BY <1>26 DEF ConnectMode, Abort, HostGoes
<1> QED BY <1>1, <1>2, <1>3, <1>4, <1>5, <1>6, <1>7, <1>8, <1>9, <1>10, <1>11, <1>12, <1>13,
   <1>14, <1>15, <1>16, <1>17, <1>18, <1>19, <1>20, <1>21, <1>22, <1>23, <1>24, <1>25, <1>26
      DEF Next, App, Host, Register, Air

\* The device before its first end.
LEMMA FirstStep ==
    ASSUME TypeInv, FirstInv, [Next]_vars
    PROVE  FirstInv'
<1> USE
   DEF devVars, hostVars, restOfApp, restOfHost, TypeInv, DeviceType, HostType, Device,
       HostState, FirstInv
<1>1. CASE InitAlloc
  BY <1>1 DEF InitAlloc
<1>2. ASSUME NEW c \in Configs, InitConfig(c) PROVE FirstInv'
  <2>1. \/ s_dev' = [s_dev EXCEPT !.loop = TRUE] /\ app' = "gatts"
        \/ s_dev' = NoDev /\ app' = "idle"
    BY <1>2 DEF InitConfig
  <2>2. UNCHANGED <<host, links, radio, listener, synced_cb, odd, service_index>>
        /\ app = "config"
    BY <1>2 DEF InitConfig
  <2>3. CASE s_dev' = [s_dev EXCEPT !.loop = TRUE] /\ app' = "gatts"
    BY <2>2, <2>3
  <2>4. CASE s_dev' = NoDev /\ app' = "idle"
    BY <2>2, <2>4 DEF NoDev
  <2> QED BY <2>1, <2>3, <2>4
<1>3. CASE InitGatts
  BY <1>3 DEF InitGatts
<1>4. CASE InitListen
  BY <1>4 DEF InitListen
<1>5. CASE DeinitStart
  BY <1>5 DEF DeinitStart, NoDev
<1>6. CASE DeinitEnd
  BY <1>6 DEF DeinitEnd
<1>7. ASSUME NEW p \in Places(cfg), Report(p).mode = "report", Report(p).type # "output",
             SetReport(p[1], Report(p).id, Report(p).type)
      PROVE FirstInv'
  BY <1>7 DEF SetReport
<1>8. CASE RegisterService
  BY <1>8 DEF RegisterService, Abort
<1>9. ASSUME NEW c \in host.chars, RegisterProtocol(c) PROVE FirstInv'
  BY <1>9 DEF RegisterProtocol, Abort
<1>10. ASSUME NEW c \in host.chars, RegisterReport(c) PROVE FirstInv'
  BY <1>10 DEF RegisterReport, Abort
<1>11. CASE Synced
  BY <1>11 DEF Synced, PostTo, Abort, Rest, AtRest
<1>12. CASE Connect
  BY <1>12 DEF Connect, Abort, HostGoes
<1>13. CASE Disconnect
  BY <1>13 DEF Disconnect, Abort, HostGoes, Rest
<1>14. CASE PostLink
  BY <1>14 DEF PostLink, PostTo, Abort, Rest, AtRest
<1>15. CASE RadioOn
  BY <1>15 DEF RadioOn, AtRest
<1>16. CASE RadioOff
  BY <1>16 DEF RadioOff
<1>17. CASE LinkFails
  BY <1>17 DEF LinkFails
<1>18. ASSUME NEW c \in Conns, LinkUp(c) PROVE FirstInv'
  BY <1>18 DEF LinkUp, AtRest
<1>19. ASSUME NEW c \in Conns, LinkDown(c) PROVE FirstInv'
  BY <1>19 DEF LinkDown, AtRest
<1>20. ASSUME NEW d \in DOMAIN mode, NEW m \in Modes, WriteMode(d, m) PROVE FirstInv'
  BY <1>20 DEF WriteMode
<1>21. CASE Deliver
  BY <1>21 DEF Deliver
<1>22. CASE Reboot
  BY <1>22 DEF Reboot, NoDev, AtRest
<1>23. CASE UNCHANGED vars
  BY <1>23 DEF vars
<1>24. CASE SendReport
  BY <1>24 DEF SendReport
<1>25. CASE ConnectId
  BY <1>25 DEF ConnectId, Abort, HostGoes
<1>26. CASE ConnectMode
  BY <1>26 DEF ConnectMode, Abort, HostGoes
<1> QED BY <1>1, <1>2, <1>3, <1>4, <1>5, <1>6, <1>7, <1>8, <1>9, <1>10, <1>11, <1>12, <1>13,
   <1>14, <1>15, <1>16, <1>17, <1>18, <1>19, <1>20, <1>21, <1>22, <1>23, <1>24, <1>25, <1>26
      DEF Next, App, Host, Register, Air

\* The host and its device.
LEMMA SettledStep ==
    ASSUME TypeInv, EventInv, FirstInv, SettledInv, [Next]_vars
    PROVE  SettledInv'
<1> USE
   DEF devVars, hostVars, restOfApp, restOfHost, TypeInv, DeviceType, HostType, Device,
       HostState, EventInv, SettledInv, Settled
<1>1. CASE InitAlloc
  BY <1>1 DEF InitAlloc, NoDev
<1>2. ASSUME NEW c \in Configs, InitConfig(c) PROVE SettledInv'
  <2>1. \/ s_dev' = [s_dev EXCEPT !.loop = TRUE] /\ app' = "gatts"
        \/ s_dev' = NoDev /\ app' = "idle"
    BY <1>2 DEF InitConfig
  <2>2. UNCHANGED <<host, links, radio, listener, synced_cb, odd, service_index>>
        /\ app = "config"
    BY <1>2 DEF InitConfig
  <2>3. CASE s_dev' = [s_dev EXCEPT !.loop = TRUE] /\ app' = "gatts"
    BY <2>2, <2>3
  <2>4. CASE s_dev' = NoDev /\ app' = "idle"
    BY <2>2, <2>4 DEF NoDev
  <2> QED BY <2>1, <2>3, <2>4
<1>3. CASE InitGatts
  BY <1>3 DEF InitGatts
<1>4. CASE InitListen
  BY <1>4 DEF InitListen
<1>5. CASE DeinitStart
  BY <1>5 DEF DeinitStart, NoDev
<1>6. CASE DeinitEnd
  BY <1>6 DEF DeinitEnd
<1>7. ASSUME NEW p \in Places(cfg), Report(p).mode = "report", Report(p).type # "output",
             SetReport(p[1], Report(p).id, Report(p).type)
      PROVE SettledInv'
  BY <1>7 DEF SetReport
<1>8. CASE RegisterService
  <2>1. UNCHANGED <<s_dev, links, radio, listener, synced_cb, odd, app, cfg>>
        /\ host.pc = "register"
    BY <1>8 DEF RegisterService, Abort
  <2>2. host # AtRest
    BY <2>1 DEF AtRest
  <2> QED BY <2>1, <2>2
<1>9. ASSUME NEW c \in host.chars, RegisterProtocol(c) PROVE SettledInv'
  <2>1. UNCHANGED <<s_dev, links, radio, listener, synced_cb, odd, app, cfg>>
        /\ host.pc = "register"
    BY <1>9 DEF RegisterProtocol, Abort
  <2>2. host # AtRest
    BY <2>1 DEF AtRest
  <2> QED BY <2>1, <2>2
<1>10. ASSUME NEW c \in host.chars, RegisterReport(c) PROVE SettledInv'
  <2>1. UNCHANGED <<s_dev, links, radio, listener, synced_cb, app, cfg>>
        /\ host.pc = "register" /\ odd \subseteq odd'
    BY <1>10 DEF RegisterReport, Abort
  <2>2. host # AtRest
    BY <2>1 DEF AtRest
  <2> QED BY <2>1, <2>2
<1>11. CASE Synced
  BY <1>11 DEF Synced, PostTo, Abort, Rest, AtRest
<1>12. CASE Connect
  BY <1>12 DEF Connect, Abort, HostGoes
<1>13. CASE Disconnect
  <2>1. UNCHANGED <<links, radio, listener, synced_cb, odd, service_index, app>>
        /\ host.pc = "disconnect"
    BY <1>13 DEF Disconnect
  <2>2. CASE s_dev' = [s_dev EXCEPT !.connected = FALSE]
             /\ (host' = AtRest \/ host' = [host EXCEPT !.pc = "disconnect_post"])
    BY <2>1, <2>2 DEF AtRest
  <2>3. CASE UNCHANGED <<s_dev, host>>
    BY <2>1, <2>3
  <2> QED BY <1>13, <2>2, <2>3 DEF Disconnect, Abort, HostGoes, Rest
<1>14. CASE PostLink
  BY <1>14 DEF PostLink, PostTo, Abort, Rest, AtRest
<1>15. CASE RadioOn
  <2> SUFFICES ASSUME Settled, Settled' PROVE SettledInv'
    BY <1>15 DEF RadioOn
  <2>1. UNCHANGED <<s_dev, app>> /\ radio' = "on" /\ synced_cb
    BY <1>15 DEF RadioOn
  <2>2. s_dev.loop
    BY <1>15 DEF RadioOn, FirstInv
  <2> QED BY <2>1, <2>2
<1>16. CASE RadioOff
  BY <1>16 DEF RadioOff
<1>17. CASE LinkFails
  BY <1>17 DEF LinkFails
<1>18. ASSUME NEW c \in Conns, LinkUp(c) PROVE SettledInv'
  BY <1>18 DEF LinkUp, AtRest
<1>19. ASSUME NEW c \in Conns, LinkDown(c) PROVE SettledInv'
  BY <1>19 DEF LinkDown, AtRest
<1>20. ASSUME NEW d \in DOMAIN mode, NEW m \in Modes, WriteMode(d, m) PROVE SettledInv'
  BY <1>20 DEF WriteMode
<1>21. CASE Deliver
  BY <1>21 DEF Deliver
<1>22. CASE Reboot
  BY <1>22 DEF Reboot, NoDev, AtRest
<1>23. CASE UNCHANGED vars
  BY <1>23 DEF vars
<1>24. CASE SendReport
  BY <1>24 DEF SendReport
<1>25. CASE ConnectId
  BY <1>25 DEF ConnectId, Abort, HostGoes
<1>26. CASE ConnectMode
  <2>1. UNCHANGED <<s_dev, app, radio, links, service_index>> /\ odd \subseteq odd'
    BY <1>26 DEF ConnectMode, Abort
  <2>2. host # AtRest
    BY <1>26 DEF ConnectMode, AtRest
  <2> QED BY <2>1, <2>2
<1> QED BY <1>1, <1>2, <1>3, <1>4, <1>5, <1>6, <1>7, <1>8, <1>9, <1>10, <1>11, <1>12, <1>13,
   <1>14, <1>15, <1>16, <1>17, <1>18, <1>19, <1>20, <1>21, <1>22, <1>23, <1>24, <1>25, <1>26
      DEF Next, App, Host, Register, Air

-----------------------------------------------------------------------------
(* The registration.                                                       *)

\* As a relation.
Less == {ij \in Nat \X Nat : ij[1] < ij[2]}

\* Numbers have a least one.
LEMMA LeastIs ==
    ASSUME NEW T, T \subseteq Nat, T # {}
    PROVE  \E x \in T : \A y \in T : x <= y
<1>1. IsWellFoundedOn(Less, Nat)
  BY NatLessThanWellFounded DEF OpToRel, Less
<1>2. PICK x \in T : \A y \in T : <<y, x>> \notin Less
  BY <1>1, WFMin
<1>3. \A y \in T : <<y, x>> \in Less <=> y < x
  BY <1>2 DEF Less
<1>4. \A y \in T : x \in Nat /\ y \in Nat /\ ~(y < x)
  BY <1>2, <1>3
<1> QED BY <1>2, <1>4

\* A place is a map and a report of it.
LEMMA PlacesAre ==
    ASSUME HandleType
    PROVE  /\ \A p \in Places(cfg) : /\ p = <<p[1], p[2]>> /\ p[1] \in Nat /\ p[2] \in Nat
                                     /\ p[1] \in DOMAIN cfg /\ p[2] \in DOMAIN cfg[p[1]]
                                     /\ Report(p) \in Item
           /\ \A d \in DOMAIN cfg : \A i \in DOMAIN cfg[d] : <<d, i>> \in Places(cfg)
<1>1. \A d \in DOMAIN cfg : d \in Nat /\ \A i \in DOMAIN cfg[d] : i \in Nat /\ cfg[d][i] \in Item
  BY ConfigIs DEF HandleType
<1> QED BY <1>1 DEF Places, Report

\* The search finds the first report that passes, if any does.
LEMMA FirstIs ==
    ASSUME HandleType, NEW found \in SUBSET Places(cfg), found # {}
    PROVE  /\ FirstReport(found) \in found /\ FirstReport(found) # <<>>
           /\ \A q \in found : Before(FirstReport(found), q)
<1> DEFINE Maps == {p[1] : p \in found}
<1>1. PICK d \in Maps : \A e \in Maps : d <= e
  <2>1. Maps \subseteq Nat /\ Maps # {}
    BY PlacesAre
  <2> HIDE DEF Maps
  <2> QED BY <2>1, LeastIs
<1> DEFINE Reports == {p[2] : p \in {q \in found : q[1] = d}}
<1>2. PICK i \in Reports : \A j \in Reports : i <= j
  <2>1. Reports \subseteq Nat /\ Reports # {}
    BY <1>1, PlacesAre
  <2> HIDE DEF Reports
  <2> QED BY <2>1, LeastIs
<1>3. PICK p \in found : p[1] = d /\ p[2] = i
  BY <1>2
<1>4. \A q \in found : Before(p, q)
  <2> SUFFICES ASSUME NEW q \in found PROVE Before(p, q)
    OBVIOUS
  <2>1. q[1] \in Nat /\ q[2] \in Nat /\ p[1] \in Nat /\ p[2] \in Nat
    BY PlacesAre
  <2>2. d <= q[1]
    BY <1>1
  <2>3. q[1] = d => i <= q[2]
    BY <1>2
  <2> QED BY <1>3, <2>1, <2>2, <2>3 DEF Before
<1>5. FirstReport(found) \in found /\ \A q \in found : Before(FirstReport(found), q)
  BY <1>4 DEF FirstReport
<1>6. FirstReport(found) # <<>>
  BY <1>5, PlacesAre
<1> QED BY <1>5, <1>6

\* A characteristic of report mode that was asked for has its report.
LEMMA AskedIsFound ==
    ASSUME HandleType, NEW c, Asked(cfg, c), c.mode = "report"
    PROVE  ReportFor(c) # <<>>
<1>1. PICK d \in DOMAIN cfg : c \in Db(cfg, d)
  BY DEF Asked
<1>2. c # Protocol(d)
  BY DEF Protocol, NoChar
<1>3. PICK i \in DOMAIN cfg[d] : c = CharOf(d, cfg[d][i])
  BY <1>1, <1>2 DEF Db
<1> DEFINE p == <<d, i>>
           found == {q \in Places(cfg) : /\ Report(q).id = c.id /\ Report(q).type = c.type
                                         /\ Report(q).mode = "report"}
<1>4. p \in Places(cfg) /\ Report(p) = cfg[d][i]
  BY <1>1, <1>3, PlacesAre DEF Report
<1>5. cfg[d][i].mode # "boot"
  BY <1>3 DEF CharOf, BootChar
<1>6. c = ReportChar(d, cfg[d][i]) /\ cfg[d][i].mode = "report"
  <2>1. Report(p).mode \in Modes
    BY <1>4, PlacesAre DEF Item
  <2> QED BY <1>3, <1>4, <1>5, <2>1 DEF CharOf, Modes
<1>7. p \in found
  BY <1>4, <1>6 DEF ReportChar
<1>8. FirstReport(found) # <<>>
  BY <1>7, FirstIs
<1> QED BY <1>8 DEF ReportFor, find_report

\* What the host has left of the services: it takes the next one, or it goes on with
\* what it has, or rests.
LEMMA HostTakes ==
    ASSUME HostType
    PROVE  /\ \A t, b : LET h == [host EXCEPT !.todo = t, !.chars = b]
                       IN h.todo = t /\ h.chars = b /\ h.pc = host.pc
           /\ \A b : LET h == [host EXCEPT !.chars = b]
                       IN h.todo = host.todo /\ h.chars = b /\ h.pc = host.pc
           /\ \A step : LET h == [host EXCEPT !.pc = step]
                       IN h.todo = host.todo /\ h.chars = host.chars /\ h.pc = step
           /\ AtRest.todo = <<>> /\ AtRest.chars = {} /\ AtRest.pc = "idle"
BY DEF HostType, HostState, AtRest

\* The services while the host runs with its device.
LEMMA RegisterStep ==
    ASSUME HiddInv, [Next]_vars
    PROVE  RegisterInv'
<1> USE
   DEF devVars, hostVars, restOfApp, restOfHost, HiddInv, TypeInv, DeviceType, HandleType,
       HostType, HostState, RegisterInv, FirstInv, SettledInv, Settled
<1>1. CASE InitAlloc
  <2> SUFFICES ASSUME Settled PROVE RegisterInv'
    BY <1>1 DEF InitAlloc
  <2>1. radio = "off" /\ ~s_dev'.connected
    BY <1>1 DEF InitAlloc, NoDev
  <2>2. host' = AtRest /\ services' = <<>> /\ service_index' = 0
    BY <1>1, <2>1 DEF InitAlloc
  <2>3. Len(cfg') \in Nat
    BY <1>1, ConfigIs DEF InitAlloc
  <2> QED BY <2>1, <2>2, <2>3 DEF AtRest
<1>2. ASSUME NEW c \in Configs, InitConfig(c) PROVE RegisterInv'
  <2> SUFFICES ASSUME Settled PROVE RegisterInv'
    BY <1>2 DEF InitConfig
  <2>1. radio = "off" /\ services = <<>>
    BY <1>2 DEF InitConfig
  <2>2. host' = AtRest /\ services' = <<>> /\ service_index' = 0
    BY <1>2, <2>1 DEF InitConfig
  <2>3. Len(cfg') \in Nat
    BY <1>2, ConfigIs DEF InitConfig
  <2> QED BY <2>2, <2>3 DEF AtRest
<1>3. CASE InitGatts
  <2> SUFFICES ASSUME Settled PROVE RegisterInv'
    BY <1>3 DEF InitGatts
  <2>1. UNCHANGED <<cfg, host, service_index, links>> /\ services = <<>>
        /\ app' \in {"listen", "idle"}
    BY <1>3 DEF InitGatts
  <2>2. s_dev'.connected = s_dev.connected
    BY <1>3 DEF InitGatts, Device
  <2>3. services' = <<>> \/ services' = [d \in DOMAIN cfg' |-> Db(cfg', d)]
    BY <1>3, <2>1 DEF InitGatts, create_hid_db, Db
  <2> QED BY <2>1, <2>2, <2>3
<1>4. CASE InitListen
  BY <1>4 DEF InitListen
<1>5. CASE DeinitStart
  <2> SUFFICES ASSUME Settled, radio = "off" PROVE RegisterInv'
    BY <1>5 DEF DeinitStart
  <2>1. UNCHANGED <<cfg, host, service_index, links>> /\ services' = <<>> /\ app' = "stop"
    BY <1>5 DEF DeinitStart
  <2>2. Len(cfg) \in Nat /\ host = AtRest /\ service_index = 0
    BY ConfigIs
  <2> QED BY <2>1, <2>2 DEF AtRest
<1>6. CASE DeinitEnd
  BY <1>6 DEF DeinitEnd
<1>7. ASSUME NEW p \in Places(cfg), Report(p).mode = "report", Report(p).type # "output",
             SetReport(p[1], Report(p).id, Report(p).type)
      PROVE RegisterInv'
  BY <1>7 DEF SetReport
<1>8. CASE RegisterService
  <2> SUFFICES ASSUME Settled PROVE RegisterInv'
    BY <1>8 DEF RegisterService
  <2>1. UNCHANGED <<cfg, services, app, links, s_dev>>
    BY <1>8 DEF RegisterService, Abort
  <2>4. host.pc = "register" /\ host.todo # <<>>
    BY <1>8 DEF RegisterService
  <2>2. CASE service_index' = service_index + 1
             /\ host' = [host EXCEPT !.todo = Tail(host.todo), !.chars = Head(host.todo)]
    <3> DEFINE todo == host.todo
    <3>1. todo \in Seq(SUBSET Char) /\ service_index \in Nat /\ Len(cfg) \in Nat
      BY ConfigIs
    <3>2. /\ Len(Tail(todo)) = Len(todo) - 1 /\ Head(todo) = todo[1] /\ 1 \in DOMAIN todo
          /\ \A k \in DOMAIN Tail(todo) : k + 1 \in DOMAIN todo /\ Tail(todo)[k] = todo[k + 1]
      BY <2>4, <3>1
    <3>3. host'.todo = Tail(todo) /\ host'.chars = Head(todo)
      <4>1. host' = [host EXCEPT !.todo = Tail(todo), !.chars = Head(todo)]
        BY <2>2
      <4> QED BY <4>1, HostTakes
    <3>4. service_index' + Len(host'.todo) <= Len(cfg')
      BY <2>1, <2>2, <3>1, <3>2, <3>3
    <3>5. ASSUME NEW k \in DOMAIN host'.todo
          PROVE  host'.todo[k] = Db(cfg, service_index' + k)
      <4>1. k \in Nat /\ service_index + (k + 1) = service_index' + k
        <5>1. Tail(todo) \in Seq(SUBSET Char)
          BY <2>4, <3>1
        <5>2. k \in Nat
          BY <3>3, <5>1
        <5> QED BY <2>2, <3>1, <5>2
      <4> QED BY <3>2, <3>3, <4>1
    <3>6. \A c \in host'.chars : service_index' \in DOMAIN cfg /\ c \in Db(cfg, service_index')
      <4>1. service_index + 1 \in DOMAIN cfg
        BY <3>1, <3>2
      <4>2. Head(todo) = Db(cfg, service_index + 1)
        BY <3>2
      <4> QED BY <2>2, <3>3, <4>1, <4>2
    <3>7. host'.pc = host.pc
      BY <2>2
    <3> QED BY <2>1, <2>4, <3>4, <3>5, <3>6, <3>7
  <2>3. CASE UNCHANGED <<host, service_index>>
    BY <2>1, <2>3
  <2> QED BY <1>8, <2>2, <2>3 DEF RegisterService, Abort
<1>9. ASSUME NEW c \in host.chars, RegisterProtocol(c) PROVE RegisterInv'
  <2> SUFFICES ASSUME Settled PROVE RegisterInv'
    BY <1>9 DEF RegisterProtocol, Abort
  <2>1. UNCHANGED <<cfg, services, app, service_index, links, s_dev>> /\ host.pc = "register"
    BY <1>9 DEF RegisterProtocol, Abort
  <2>2. host' = host \/ host' = [host EXCEPT !.chars = host.chars \ {c}]
    BY <1>9 DEF RegisterProtocol, Abort
  <2>3. host'.todo = host.todo /\ host'.chars \subseteq host.chars /\ host'.pc = host.pc
    BY <2>2, HostTakes
  <2> QED BY <2>1, <2>3
<1>10. ASSUME NEW c \in host.chars, RegisterReport(c) PROVE RegisterInv'
  <2> SUFFICES ASSUME Settled PROVE RegisterInv'
    BY <1>10 DEF RegisterReport, Abort
  <2>1. UNCHANGED <<cfg, services, app, service_index, links, s_dev>> /\ host.pc = "register"
    BY <1>10 DEF RegisterReport, Abort
  <2>2. host' = host \/ host' = [host EXCEPT !.chars = host.chars \ {c}]
    BY <1>10 DEF RegisterReport, Abort
  <2>3. host'.todo = host.todo /\ host'.chars \subseteq host.chars /\ host'.pc = host.pc
    BY <2>2, HostTakes
  <2> QED BY <2>1, <2>3
<1>11. CASE Synced
  <2> SUFFICES ASSUME Settled PROVE RegisterInv'
    BY <1>11 DEF Synced, PostTo, Abort, Rest
  <2>1. UNCHANGED <<cfg, services, app, service_index, links>>
    BY <1>11 DEF Synced, PostTo, Abort, Rest
  <2>2. \/ host' = host /\ UNCHANGED s_dev
        \/ host' = AtRest /\ (host.pc = "register" => host.todo = <<>> /\ host.chars = {})
        \/ host.pc # "register" /\ host' = [host EXCEPT !.pc = "idle"]
    BY <1>11 DEF Synced, PostTo, Abort, Rest
  <2>3. service_index \in Nat /\ Len(cfg) \in Nat /\ service_index <= Len(cfg)
    BY ConfigIs
  <2>4. CASE host' = host /\ UNCHANGED s_dev
    BY <2>1, <2>4
  <2>5. CASE host'.pc # "register" /\ host'.todo = <<>> /\ host'.chars = {}
    BY <2>1, <2>3, <2>5
  <2> QED BY <2>2, <2>4, <2>5, HostTakes
<1>12. CASE Connect
  <2> SUFFICES ASSUME Settled PROVE RegisterInv'
    BY <1>12 DEF Connect, Abort
  <2>1. UNCHANGED <<cfg, services, app, service_index, links>> /\ host.pc # "register"
    BY <1>12 DEF Connect, Abort
  <2>2. host' = host \/ host' = [host EXCEPT !.pc = "connect_id"]
    BY <1>12 DEF Connect, Abort, HostGoes
  <2>3. host'.pc # "register" /\ host'.todo = <<>> /\ host'.chars = {}
    BY <2>1, <2>2, HostTakes
  <2>4. service_index \in Nat /\ Len(cfg) \in Nat /\ service_index <= Len(cfg)
    BY <2>1, ConfigIs
  <2> QED BY <2>1, <2>3, <2>4
<1>13. CASE Disconnect
  <2> SUFFICES ASSUME Settled PROVE RegisterInv'
    BY <1>13 DEF Disconnect, Abort, HostGoes, Rest
  <2>1. UNCHANGED <<cfg, services, app, service_index, links>>
    BY <1>13 DEF Disconnect, Abort, HostGoes, Rest
  <2>2. \/ host' = host /\ UNCHANGED s_dev
        \/ host' = AtRest /\ (host.pc = "register" => host.todo = <<>> /\ host.chars = {})
        \/ host.pc # "register" /\ host' = [host EXCEPT !.pc = "disconnect_post"]
    BY <1>13 DEF Disconnect, Abort, HostGoes, Rest
  <2>3. service_index \in Nat /\ Len(cfg) \in Nat /\ service_index <= Len(cfg)
    BY ConfigIs
  <2>4. CASE host' = host /\ UNCHANGED s_dev
    BY <2>1, <2>4
  <2>5. CASE host'.pc # "register" /\ host'.todo = <<>> /\ host'.chars = {}
    BY <2>1, <2>3, <2>5
  <2> QED BY <2>2, <2>4, <2>5, HostTakes
<1>14. CASE PostLink
  <2> SUFFICES ASSUME Settled PROVE RegisterInv'
    BY <1>14 DEF PostLink, PostTo, Abort, Rest
  <2>1. UNCHANGED <<cfg, services, app, service_index, links>>
    BY <1>14 DEF PostLink, PostTo, Abort, Rest
  <2>2. \/ host' = host /\ UNCHANGED s_dev
        \/ host' = AtRest /\ (host.pc = "register" => host.todo = <<>> /\ host.chars = {})
        \/ host.pc # "register" /\ host' = [host EXCEPT !.pc = "idle"]
    BY <1>14 DEF PostLink, PostTo, Abort, Rest
  <2>3. service_index \in Nat /\ Len(cfg) \in Nat /\ service_index <= Len(cfg)
    BY ConfigIs
  <2>4. CASE host' = host /\ UNCHANGED s_dev
    BY <2>1, <2>4
  <2>5. CASE host'.pc # "register" /\ host'.todo = <<>> /\ host'.chars = {}
    BY <2>1, <2>3, <2>5
  <2> QED BY <2>2, <2>4, <2>5, HostTakes
<1>15. CASE RadioOn
  <2> SUFFICES ASSUME Settled, Settled' PROVE RegisterInv'
    BY <1>15 DEF RadioOn
  <2>1. UNCHANGED <<cfg, services, service_index, links, s_dev, app>> /\ service_index = 0
        /\ links = {} /\ ~s_dev.connected
    BY <1>15 DEF RadioOn
  <2>2. host'.todo = services /\ host'.chars = {} /\ host'.pc = "register"
    BY <1>15 DEF RadioOn, AtRest
  <2>4. Len(cfg) \in Nat /\ DOMAIN cfg = 1 .. Len(cfg)
    BY ConfigIs
  <2>5. CASE services = <<>>
    BY <2>1, <2>2, <2>4, <2>5
  <2>6. CASE services = [d \in DOMAIN cfg |-> Db(cfg, d)]
    <3>1. Len(services) = Len(cfg)
      BY <2>4, <2>6
    <3>2. ASSUME NEW k \in DOMAIN services PROVE services[k] = Db(cfg, service_index + k)
      <4>1. k \in DOMAIN cfg /\ service_index + k = k
        BY <2>1, <2>4, <2>6
      <4> QED BY <2>6, <4>1
    <3> QED BY <2>1, <2>2, <2>4, <2>6, <3>1, <3>2
  <2> QED BY <2>5, <2>6
<1>16. CASE RadioOff
  BY <1>16 DEF RadioOff
<1>17. CASE LinkFails
  BY <1>17 DEF LinkFails
<1>18. ASSUME NEW c \in Conns, LinkUp(c) PROVE RegisterInv'
  BY <1>18 DEF LinkUp, AtRest
<1>19. ASSUME NEW c \in Conns, LinkDown(c) PROVE RegisterInv'
  BY <1>19 DEF LinkDown, AtRest
<1>20. ASSUME NEW d \in DOMAIN mode, NEW m \in Modes, WriteMode(d, m) PROVE RegisterInv'
  BY <1>20 DEF WriteMode
<1>21. CASE Deliver
  BY <1>21 DEF Deliver
<1>22. CASE Reboot
  BY <1>22 DEF Reboot, NoDev, AtRest
<1>23. CASE UNCHANGED vars
  BY <1>23 DEF vars
<1>24. CASE SendReport
  BY <1>24 DEF SendReport
<1>25. CASE ConnectId
  <2> SUFFICES ASSUME Settled PROVE RegisterInv'
    BY <1>25 DEF ConnectId, Abort
  <2>1. UNCHANGED <<cfg, services, app, service_index, links>> /\ host.pc # "register"
    BY <1>25 DEF ConnectId, Abort
  <2>2. host' = host \/ host' = [host EXCEPT !.pc = "connect_mode"]
    BY <1>25 DEF ConnectId, Abort, HostGoes
  <2>3. host'.pc # "register" /\ host'.todo = <<>> /\ host'.chars = {}
    BY <2>1, <2>2, HostTakes
  <2>4. service_index \in Nat /\ Len(cfg) \in Nat /\ service_index <= Len(cfg)
    BY <2>1, ConfigIs
  <2> QED BY <2>1, <2>3, <2>4
<1>26. CASE ConnectMode
  <2> SUFFICES ASSUME Settled PROVE RegisterInv'
    BY <1>26 DEF ConnectMode, Abort
  <2>1. UNCHANGED <<cfg, services, app, service_index, links>> /\ host.pc # "register"
    BY <1>26 DEF ConnectMode, Abort
  <2>2. host' = host \/ host' = [host EXCEPT !.pc = "connect_post"]
    BY <1>26 DEF ConnectMode, Abort, HostGoes
  <2>3. host'.pc # "register" /\ host'.todo = <<>> /\ host'.chars = {}
    BY <2>1, <2>2, HostTakes
  <2>4. service_index \in Nat /\ Len(cfg) \in Nat /\ service_index <= Len(cfg)
    BY <2>1, ConfigIs
  <2> QED BY <2>1, <2>3, <2>4
<1> QED BY <1>1, <1>2, <1>3, <1>4, <1>5, <1>6, <1>7, <1>8, <1>9, <1>10, <1>11, <1>12, <1>13,
   <1>14, <1>15, <1>16, <1>17, <1>18, <1>19, <1>20, <1>21, <1>22, <1>23, <1>24, <1>25, <1>26
      DEF Next, App, Host, Register, Air

\* The host is not brought down while the host runs with its device.
LEMMA SafeStep ==
    ASSUME HiddInv, [Next]_vars
    PROVE  HostSafe'
<1> USE
   DEF devVars, hostVars, restOfApp, restOfHost, HiddInv, TypeInv, DeviceType, HandleType,
       HostType, HostState, RegisterInv, FirstInv, SettledInv, Settled, HostSafe
<1>1. CASE InitAlloc
  BY <1>1 DEF InitAlloc
<1>2. ASSUME NEW c \in Configs, InitConfig(c) PROVE HostSafe'
  BY <1>2 DEF InitConfig
<1>3. CASE InitGatts
  BY <1>3 DEF InitGatts
<1>4. CASE InitListen
  BY <1>4 DEF InitListen
<1>5. CASE DeinitStart
  BY <1>5 DEF DeinitStart
<1>6. CASE DeinitEnd
  BY <1>6 DEF DeinitEnd
<1>7. ASSUME NEW p \in Places(cfg), Report(p).mode = "report", Report(p).type # "output",
             SetReport(p[1], Report(p).id, Report(p).type)
      PROVE HostSafe'
  BY <1>7 DEF SetReport
<1>8. CASE RegisterService
  <2> SUFFICES ASSUME Settled PROVE crashed' = crashed
    BY <1>8 DEF RegisterService, Abort
  <2>1. host # AtRest
    BY <1>8 DEF RegisterService, Abort, AtRest
  <2>2. s_dev.live
    BY <2>1
  <2>3. service_index + 1 \in DOMAIN cfg
    <3>1. service_index \in Nat /\ Len(host.todo) \in Nat \ {0} /\ Len(cfg) \in Nat
          /\ DOMAIN cfg = 1 .. Len(cfg)
      BY <1>8, ConfigIs DEF RegisterService
    <3>2. service_index + Len(host.todo) <= Len(cfg)
      OBVIOUS
    <3> QED BY <3>1, <3>2
  <2> QED BY <1>8, <2>2, <2>3 DEF RegisterService
<1>9. ASSUME NEW c \in host.chars, RegisterProtocol(c) PROVE HostSafe'
  <2> SUFFICES ASSUME Settled PROVE crashed' = crashed
    BY <1>9 DEF RegisterProtocol, Abort
  <2>1. host # AtRest
    BY <1>9 DEF RegisterProtocol, Abort, AtRest
  <2>2. s_dev.live
    BY <2>1
  <2>3. service_index \in DOMAIN cfg
    BY <1>9
  <2> QED BY <1>9, <2>2, <2>3 DEF RegisterProtocol
<1>10. ASSUME NEW c \in host.chars, RegisterReport(c) PROVE HostSafe'
  <2> SUFFICES ASSUME Settled PROVE crashed' = crashed \/ "no_mbuf" \in odd'
    BY <1>10 DEF RegisterReport, Abort
  <2>1. host # AtRest
    BY <1>10 DEF RegisterReport, AtRest
  <2>2. s_dev.live
    BY <2>1
  <2>3. ~(ReportFor(c) = <<>> /\ c.mode = "report")
    BY <1>10, AskedIsFound DEF RegisterReport, Asked
  <2> QED BY <1>10, <2>2, <2>3 DEF RegisterReport
<1>11. CASE Synced
  BY <1>11 DEF Synced, PostTo, Abort, Rest, AtRest
<1>12. CASE Connect
  <2> SUFFICES ASSUME Settled PROVE crashed' = crashed 
    BY <1>12 DEF Connect, Abort
  <2>1. host # AtRest
    BY <1>12 DEF Connect, AtRest
  <2>2. s_dev.live
    BY <2>1
  <2> QED BY <1>12, <2>2 DEF Connect
<1>13. CASE Disconnect
  <2> SUFFICES ASSUME Settled PROVE crashed' = crashed
    BY <1>13 DEF Disconnect, Abort, HostGoes, Rest
  <2>1. host # AtRest
    BY <1>13 DEF Disconnect, Abort, HostGoes, Rest, AtRest
  <2>2. s_dev.live
    BY <2>1
  <2> QED BY <1>13, <2>2 DEF Disconnect
<1>14. CASE PostLink
  BY <1>14 DEF PostLink, PostTo, Abort, Rest, AtRest
<1>15. CASE RadioOn
  BY <1>15 DEF RadioOn, AtRest
<1>16. CASE RadioOff
  BY <1>16 DEF RadioOff
<1>17. CASE LinkFails
  BY <1>17 DEF LinkFails
<1>18. ASSUME NEW c \in Conns, LinkUp(c) PROVE HostSafe'
  BY <1>18 DEF LinkUp, AtRest
<1>19. ASSUME NEW c \in Conns, LinkDown(c) PROVE HostSafe'
  BY <1>19 DEF LinkDown, AtRest
<1>20. ASSUME NEW d \in DOMAIN mode, NEW m \in Modes, WriteMode(d, m) PROVE HostSafe'
  BY <1>20 DEF WriteMode
<1>21. CASE Deliver
  BY <1>21 DEF Deliver
<1>22. CASE Reboot
  BY <1>22 DEF Reboot, NoDev, AtRest
<1>23. CASE UNCHANGED vars
  BY <1>23 DEF vars
<1>24. CASE SendReport
  BY <1>24 DEF SendReport
<1>25. CASE ConnectId
  <2> SUFFICES ASSUME Settled PROVE crashed' = crashed 
    BY <1>25 DEF ConnectId, Abort
  <2>1. host # AtRest
    BY <1>25 DEF ConnectId, AtRest
  <2>2. s_dev.live
    BY <2>1
  <2> QED BY <1>25, <2>2 DEF ConnectId
<1>26. CASE ConnectMode
  <2> SUFFICES ASSUME Settled PROVE crashed' = crashed \/ odd' \cap {"freed_mbuf", "no_mbuf"} # {}
    BY <1>26 DEF ConnectMode, Abort
  <2>1. host # AtRest
    BY <1>26 DEF ConnectMode, AtRest
  <2>2. s_dev.live
    BY <2>1
  <2> QED BY <1>26, <2>2 DEF ConnectMode
<1> QED BY <1>1, <1>2, <1>3, <1>4, <1>5, <1>6, <1>7, <1>8, <1>9, <1>10, <1>11, <1>12, <1>13,
   <1>14, <1>15, <1>16, <1>17, <1>18, <1>19, <1>20, <1>21, <1>22, <1>23, <1>24, <1>25, <1>26
      DEF Next, App, Host, Register, Air

-----------------------------------------------------------------------------
(* Reports and their characteristics.                                      *)

\* The configuration is as the parser makes it.
LEMMA ConfigParsed ==
    ASSUME HandleType, NEW d \in DOMAIN cfg
    PROVE  Parsed(cfg[d])
<1>1. CASE cfg \in Configs
  BY <1>1, HiddAssumption
<1>2. CASE cfg = <<>>
  BY <1>2
<1> QED BY <1>1, <1>2 DEF HandleType

\* With reports that can be told apart, the characteristic of a report is found to
\* be its own.
LEMMA OwnReport ==
    ASSUME HandleType, ~Ambiguous, NEW p \in Places(cfg)
    PROVE  ReportFor(HandleOf(p)) = p
<1> DEFINE r == Report(p)
           c == HandleOf(p)
<1>1. r \in Item /\ r.mode \in Modes /\ p[1] \in DOMAIN cfg /\ p[2] \in DOMAIN cfg[p[1]]
  BY PlacesAre DEF Item
<1>2. CASE r.mode = "report"
  <2> DEFINE found == {q \in Places(cfg) : /\ Report(q).id = c.id /\ Report(q).type = c.type
                                           /\ Report(q).mode = "report"}
  <2>1. c.id = r.id /\ c.type = r.type /\ c.mode = "report"
    BY <1>2 DEF HandleOf, CharOf, ReportChar
  <2>2. p \in found
    BY <1>2, <2>1
  <2>3. \A q \in found : q = p
    BY <1>2, <2>1 DEF Ambiguous
  <2>4. FirstReport(found) = p
    BY <2>2, <2>3, FirstIs
  <2> QED BY <2>1, <2>4 DEF ReportFor, find_report
<1>3. CASE r.mode = "boot"
  <2> DEFINE found == {q \in Places(cfg) : /\ Report(q).usage = c.usage /\ Report(q).type = c.type
                                           /\ Report(q).mode = "boot"}
  <2>1. \/ r.type = "input" /\ r.usage \in {"keyboard", "mouse"}
        \/ r.type = "output" /\ r.usage = "keyboard"
    BY <1>1, <1>3, ConfigParsed DEF Parsed, Report
  <2>2. c.usage = r.usage /\ c.type = r.type /\ c.mode = "boot"
    BY <1>3, <2>1 DEF HandleOf, CharOf, BootChar
  <2>3. p \in found
    BY <1>3, <2>2
  <2>4. \A q \in found : q = p
    BY <1>3, <2>2 DEF Ambiguous
  <2>5. FirstReport(found) = p
    BY <2>3, <2>4, FirstIs
  <2> QED BY <2>2, <2>5 DEF ReportFor, find_report_by_usage_and_type
<1> QED BY <1>1, <1>2, <1>3 DEF Modes

\* A characteristic that was asked for is the protocol mode or a report's.
LEMMA AskedPlace ==
    ASSUME HandleType, NEW c, Asked(cfg, c), c.mode \in Modes
    PROVE  \E p \in Places(cfg) : c = HandleOf(p)
<1>1. PICK d \in DOMAIN cfg : c \in Db(cfg, d)
  BY DEF Asked
<1>2. c # Protocol(d)
  BY DEF Protocol, NoChar, Modes
<1>3. PICK i \in DOMAIN cfg[d] : c = CharOf(d, cfg[d][i])
  BY <1>1, <1>2 DEF Db
<1>4. <<d, i>> \in Places(cfg) /\ HandleOf(<<d, i>>) = c
  BY <1>3, PlacesAre DEF HandleOf, Report
<1> QED BY <1>4

\* And its mode is that of its report.
LEMMA HandleMode ==
    ASSUME HandleType, NEW p \in Places(cfg)
    PROVE  HandleOf(p).mode \in Modes
<1>1. Report(p).mode \in Modes
  BY PlacesAre DEF Item
<1> QED BY <1>1 DEF HandleOf, CharOf, BootChar, ReportChar, Modes

\* What does not register anything keeps what is registered.
LEMMA FilledKept ==
    ASSUME FilledInv, UNCHANGED <<cfg, handles, service_index, protocols>>,
           host'.chars = host.chars, odd \subseteq odd',
           radio' = "off" => radio = "off" /\ sent' = sent
    PROVE  FilledInv'
<1> SUFFICES ASSUME Settled PROVE FilledInv'
  BY DEF FilledInv, Settled
<1>1. Places(cfg') = Places(cfg) /\ (Ambiguous' <=> Ambiguous)
  BY DEF Ambiguous, Places, Report
<1>2. Filled' <=> Filled
  BY DEF Filled, HandleOf, Report, Places
<1> QED BY <1>1, <1>2 DEF FilledInv

\* Each report has its own characteristic.
LEMMA FilledStep ==
    ASSUME HiddInv, [Next]_vars
    PROVE  FilledInv'
<1> USE
   DEF devVars, hostVars, callVars, restOfApp, restOfHost, HiddInv, TypeInv, DeviceType, HandleType,
       HostType, HostState, Settled, SettledInv
<1>1. CASE InitAlloc
  <2> SUFFICES ASSUME Settled PROVE FilledInv'
    BY <1>1 DEF FilledInv, InitAlloc
  <2>1. Places(cfg)' = {}
    BY <1>1 DEF InitAlloc, Places
  <2>2. DOMAIN protocols' = {} /\ DOMAIN handles' = {} /\ DOMAIN cfg' = {}
    BY <1>1 DEF InitAlloc
  <2>3. Filled'
    BY <2>1 DEF Filled
  <2>4. sent' = sent /\ radio = "off"
    BY <1>1 DEF InitAlloc
  <2> QED BY <2>1, <2>2, <2>3, <2>4 DEF FilledInv
<1>2. ASSUME NEW c \in Configs, InitConfig(c) PROVE FilledInv'
  <2> SUFFICES ASSUME Settled PROVE FilledInv'
    BY <1>2 DEF FilledInv, InitConfig
  <2>1. CASE UNCHANGED <<cfg, handles, protocols>>
    BY <1>2, <2>1, FilledKept DEF InitConfig
  <2>2. CASE cfg' = c /\ handles' = [p \in Places(c) |-> NoChar]
             /\ protocols' = [d \in DOMAIN c |-> 0]
    <3>1. radio = "off" /\ service_index' = 0 /\ UNCHANGED <<radio, sent>>
      BY <1>2 DEF InitConfig
    <3>2. HandleType'
      BY HandleStep
    <3>3. \A p \in Places(cfg') : p[1] \in Nat \ {0}
      BY <3>2, ConfigIs DEF Places, HandleType
    <3>4. Filled'
      BY <3>1, <3>3 DEF Filled
    <3>5. DOMAIN handles' = Places(cfg') /\ DOMAIN protocols' = DOMAIN cfg'
          /\ \A d \in DOMAIN cfg' : protocols'[d] = 0
      BY <2>2
    <3> QED BY <3>1, <3>4, <3>5 DEF FilledInv
  <2> QED BY <1>2, <2>1, <2>2 DEF InitConfig
<1>3. CASE InitGatts
  BY <1>3, FilledKept DEF InitGatts
<1>4. CASE InitListen
  BY <1>4, FilledKept DEF InitListen
<1>5. CASE DeinitStart
  BY <1>5, FilledKept DEF DeinitStart
<1>6. CASE DeinitEnd
  BY <1>6, FilledKept DEF DeinitEnd
<1>7. ASSUME NEW p \in Places(cfg), Report(p).mode = "report", Report(p).type # "output",
             SetReport(p[1], Report(p).id, Report(p).type)
      PROVE FilledInv'
  BY <1>7, FilledKept DEF SetReport
<1>8. CASE RegisterService
  <2> SUFFICES ASSUME Settled PROVE FilledInv'
    BY <1>8 DEF FilledInv, RegisterService, Abort
  <2>0. UNCHANGED <<cfg, sent, radio>> /\ odd \subseteq odd'
    BY <1>8 DEF RegisterService, Abort
  <2>1. CASE UNCHANGED <<host, handles, protocols, service_index>>
    BY <2>0, <2>1, FilledKept
  <2>2. CASE service_index' = service_index + 1 /\ UNCHANGED <<handles, protocols>>
             /\ host' = [host EXCEPT !.todo = Tail(host.todo), !.chars = Head(host.todo)]
    <3>1. Places(cfg)' = Places(cfg) /\ (Ambiguous' <=> Ambiguous)
      BY <2>0 DEF Ambiguous, Places, Report
    <3>2. \A p \in Places(cfg) : HandleOf(p)' = HandleOf(p)
      BY <2>0 DEF HandleOf, Report
    <3>3. host.chars = {} /\ host.todo # <<>> /\ host'.chars = Head(host.todo)
      <4>1. host.chars = {} /\ host.todo # <<>>
        BY <1>8 DEF RegisterService
      <4> QED BY <2>2, <4>1, HostTakes
    <3>4. host'.chars = Db(cfg, service_index')
      <4>1. 1 \in DOMAIN host.todo /\ Head(host.todo) = host.todo[1]
        BY <3>3
      <4> QED BY <2>2, <3>3, <4>1 DEF RegisterInv
    <3>5. \A d \in DOMAIN cfg :
             protocols'[d] = 0 \/ (protocols'[d] = d /\ d <= service_index')
      BY <2>2, ConfigIs DEF FilledInv
    <3>6. ASSUME NEW p \in Places(cfg), Filled, p[1] <= service_index'
          PROVE  HandleOf(p) \in host'.chars \/ handles[p] = HandleOf(p)
      <4>1. p[1] \in Nat /\ (p[1] <= service_index \/ p[1] = service_index')
        BY <2>2, <3>6, PlacesAre
      <4>2. CASE p[1] <= service_index
        BY <3>3, <3>6, <4>2 DEF Filled
      <4>3. CASE p[1] = service_index'
        BY <3>4, <4>3, PlacesAre DEF HandleOf, Db, Report
      <4> QED BY <4>1, <4>2, <4>3
    <3>7. Filled => Filled'
      BY <2>2, <3>1, <3>2, <3>6 DEF Filled
    <3> QED BY <2>0, <2>2, <3>1, <3>5, <3>7 DEF FilledInv
  <2> QED BY <1>8, <2>1, <2>2 DEF RegisterService, Abort
<1>9. ASSUME NEW c \in host.chars, RegisterProtocol(c) PROVE FilledInv'
  <2> SUFFICES ASSUME Settled PROVE FilledInv'
    BY <1>9 DEF FilledInv, RegisterProtocol, Abort
  <2>0. UNCHANGED <<cfg, sent, radio>> /\ odd \subseteq odd'
    BY <1>9 DEF RegisterProtocol, Abort
  <2>1. CASE UNCHANGED <<host, handles, protocols, service_index>>
    BY <2>0, <2>1, FilledKept
  <2>2. CASE protocols' = [d \in DOMAIN protocols |->
                             IF d = service_index THEN c.map ELSE protocols[d]]
             /\ host' = [host EXCEPT !.chars = host.chars \ {c}]
             /\ UNCHANGED <<handles, service_index>>
    <3>1. Places(cfg)' = Places(cfg) /\ (Ambiguous' <=> Ambiguous)
      BY <2>0 DEF Ambiguous, Places, Report
    <3>2. \A p \in Places(cfg) : HandleOf(p)' = HandleOf(p)
      BY <2>0 DEF HandleOf, Report
    <3>3. host'.chars = host.chars \ {c} /\ c.mode = "protocol"
      BY <1>9, <2>2, HostTakes DEF RegisterProtocol
    <3>4. /\ DOMAIN protocols' = DOMAIN cfg
          /\ \A d \in DOMAIN cfg :
                protocols'[d] = 0 \/ (protocols'[d] = d /\ d <= service_index')
      <4>1. c.map = service_index
        <5>1. c \in Db(cfg, service_index) /\ service_index \in DOMAIN cfg
          BY <1>9 DEF RegisterInv
        <5>2. ASSUME NEW i \in DOMAIN cfg[service_index]
              PROVE  c # CharOf(service_index, cfg[service_index][i])
          <6>1. <<service_index, i>> \in Places(cfg)
            BY <5>1, <5>2, PlacesAre
          <6>2. HandleOf(<<service_index, i>>).mode # "protocol"
            BY <6>1, HandleMode DEF Modes
          <6> QED BY <3>3, <6>2 DEF HandleOf, Report
        <5>3. c = Protocol(service_index)
          BY <5>1, <5>2 DEF Db
        <5> QED BY <5>3 DEF Protocol, NoChar
      <4> QED BY <2>2, <4>1 DEF FilledInv
    <3>5. \A p \in Places(cfg) : HandleOf(p) # c
      BY <3>3, HandleMode DEF Modes
    <3>6. Filled => Filled'
      BY <2>2, <3>1, <3>2, <3>3, <3>5 DEF Filled
    <3> QED BY <2>0, <2>2, <3>1, <3>4, <3>6 DEF FilledInv
  <2> QED BY <1>9, <2>1, <2>2 DEF RegisterProtocol, Abort
<1>10. ASSUME NEW c \in host.chars, RegisterReport(c) PROVE FilledInv'
  <2> SUFFICES ASSUME Settled PROVE FilledInv'
    BY <1>10 DEF FilledInv, RegisterReport, Abort
  <2>0. UNCHANGED <<cfg, sent, radio>> /\ odd \subseteq odd'
    BY <1>10 DEF RegisterReport, Abort
  <2>1. CASE UNCHANGED <<host, handles, protocols, service_index>>
    BY <2>0, <2>1, FilledKept
  <2>2. CASE handles' = (IF ReportFor(c) = <<>> THEN handles
                         ELSE [handles EXCEPT ![ReportFor(c)] = c])
             /\ host' = [host EXCEPT !.chars = host.chars \ {c}]
             /\ UNCHANGED <<protocols, service_index>>
    <3>1. Places(cfg)' = Places(cfg) /\ (Ambiguous' <=> Ambiguous)
      BY <2>0 DEF Ambiguous, Places, Report
    <3>2. \A p \in Places(cfg) : HandleOf(p)' = HandleOf(p)
      BY <2>0 DEF HandleOf, Report
    <3>3. host'.chars = host.chars \ {c} /\ c.mode \in Modes
      BY <1>10, <2>2, HostTakes DEF RegisterReport
    <3>4. DOMAIN handles = Places(cfg) /\ Asked(cfg, c)
      BY <1>10 DEF FilledInv, RegisterInv, Asked
    <3>5. DOMAIN handles' = Places(cfg)
      BY <2>2, <3>4
    <3>6. PICK o \in Places(cfg) : c = HandleOf(o)
      BY <3>3, <3>4, AskedPlace
    <3>7. ASSUME ~Ambiguous, Filled PROVE Filled'
      <4>1. ReportFor(c) = o /\ o # <<>>
        BY <3>6, <3>7, OwnReport, PlacesAre
      <4>2. handles' = [handles EXCEPT ![o] = c]
        BY <2>2, <4>1
      <4>3. ASSUME NEW p \in Places(cfg), p[1] <= service_index
            PROVE  HandleOf(p) \in host'.chars \/ handles'[p] = HandleOf(p)
        <5>1. CASE p = o
          BY <3>4, <3>6, <4>2, <5>1
        <5>2. CASE p # o
          <6>1. HandleOf(p) # c
            BY <3>6, <3>7, <5>2, OwnReport
          <6> QED BY <3>3, <3>4, <3>7, <4>2, <4>3, <5>2, <6>1 DEF Filled
        <5> QED BY <5>1, <5>2
      <4> QED BY <2>2, <3>1, <3>2, <4>3 DEF Filled
    <3> QED BY <2>0, <2>2, <3>1, <3>4, <3>5, <3>7 DEF FilledInv
  <2> QED BY <1>10, <2>1, <2>2 DEF RegisterReport, Abort
<1>11. CASE Synced
  <2> SUFFICES ASSUME Settled PROVE FilledInv'
    BY <1>11 DEF FilledInv, Synced, PostTo, Abort, Rest, AtRest
  <2>1. \/ host' = host
        \/ host.chars = {} /\ (host' = AtRest \/ \E step : host' = [host EXCEPT !.pc = step])
        \/ host.chars = {} /\ host'.chars = {}
    BY <1>11 DEF Synced, PostTo, Abort, Rest, AtRest, HostGoes, RegisterInv, FirstInv
  <2>2. host'.chars = host.chars
    BY <2>1, HostTakes
  <2> QED BY <1>11, <2>2, FilledKept DEF Synced, PostTo, Abort, Rest, AtRest
<1>12. CASE Connect
  <2> SUFFICES ASSUME Settled PROVE FilledInv'
    BY <1>12 DEF FilledInv, Connect, Abort, HostGoes
  <2>1. \/ host' = host
        \/ host.chars = {} /\ (host' = AtRest \/ \E step : host' = [host EXCEPT !.pc = step])
        \/ host.chars = {} /\ host'.chars = {}
    BY <1>12 DEF Connect, Abort, HostGoes, PostTo, Rest, RegisterInv, AtRest, FirstInv
  <2>2. host'.chars = host.chars
    BY <2>1, HostTakes
  <2> QED BY <1>12, <2>2, FilledKept DEF Connect, Abort, HostGoes
<1>13. CASE Disconnect
  <2> SUFFICES ASSUME Settled PROVE FilledInv'
    BY <1>13 DEF FilledInv, Disconnect, Abort, HostGoes, Rest
  <2>1. \/ host' = host
        \/ host.chars = {} /\ (host' = AtRest \/ \E step : host' = [host EXCEPT !.pc = step])
        \/ host.chars = {} /\ host'.chars = {}
    BY <1>13 DEF Disconnect, Abort, HostGoes, Rest, PostTo, RegisterInv, AtRest, FirstInv
  <2>2. host'.chars = host.chars
    BY <2>1, HostTakes
  <2> QED BY <1>13, <2>2, FilledKept DEF Disconnect, Abort, HostGoes, Rest
<1>14. CASE PostLink
  <2> SUFFICES ASSUME Settled PROVE FilledInv'
    BY <1>14 DEF FilledInv, PostLink, PostTo, Abort, Rest, AtRest
  <2>1. \/ host' = host
        \/ host.chars = {} /\ (host' = AtRest \/ \E step : host' = [host EXCEPT !.pc = step])
        \/ host.chars = {} /\ host'.chars = {}
    BY <1>14 DEF PostLink, PostTo, Abort, Rest, AtRest, HostGoes, RegisterInv, FirstInv
  <2>2. host'.chars = host.chars
    BY <2>1, HostTakes
  <2> QED BY <1>14, <2>2, FilledKept DEF PostLink, PostTo, Abort, Rest, AtRest
<1>15. CASE RadioOn
  <2> SUFFICES ASSUME Settled PROVE FilledInv'
    BY <1>15 DEF FilledInv, RadioOn, AtRest
  <2>1. \/ host' = host
        \/ host.chars = {} /\ (host' = AtRest \/ \E step : host' = [host EXCEPT !.pc = step])
        \/ host.chars = {} /\ host'.chars = {}
    BY <1>15 DEF RadioOn, AtRest, Abort, PostTo, Rest, HostGoes, RegisterInv, FirstInv
  <2>2. host'.chars = host.chars
    BY <2>1, HostTakes
  <2> QED BY <1>15, <2>2, FilledKept DEF RadioOn, AtRest
<1>16. CASE RadioOff
  BY <1>16 DEF RadioOff, FilledInv
<1>17. CASE LinkFails
  BY <1>17, FilledKept DEF LinkFails
<1>18. ASSUME NEW c \in Conns, LinkUp(c) PROVE FilledInv'
  <2> SUFFICES ASSUME Settled PROVE FilledInv'
    BY <1>18 DEF FilledInv, LinkUp, AtRest
  <2>1. \/ host' = host
        \/ host.chars = {} /\ (host' = AtRest \/ \E step : host' = [host EXCEPT !.pc = step])
        \/ host.chars = {} /\ host'.chars = {}
    BY <1>18 DEF LinkUp, AtRest, Abort, PostTo, Rest, HostGoes, RegisterInv, FirstInv
  <2>2. host'.chars = host.chars
    BY <2>1, HostTakes
  <2> QED BY <1>18, <2>2, FilledKept DEF LinkUp, AtRest
<1>19. ASSUME NEW c \in Conns, LinkDown(c) PROVE FilledInv'
  <2> SUFFICES ASSUME Settled PROVE FilledInv'
    BY <1>19 DEF FilledInv, LinkDown, AtRest
  <2>1. \/ host' = host
        \/ host.chars = {} /\ (host' = AtRest \/ \E step : host' = [host EXCEPT !.pc = step])
        \/ host.chars = {} /\ host'.chars = {}
    BY <1>19 DEF LinkDown, AtRest, Abort, PostTo, Rest, HostGoes, RegisterInv, FirstInv
  <2>2. host'.chars = host.chars
    BY <2>1, HostTakes
  <2> QED BY <1>19, <2>2, FilledKept DEF LinkDown, AtRest
<1>20. ASSUME NEW d \in DOMAIN mode, NEW m \in Modes, WriteMode(d, m) PROVE FilledInv'
  BY <1>20, FilledKept DEF WriteMode
<1>21. CASE Deliver
  BY <1>21, FilledKept DEF Deliver
<1>22. CASE Reboot
  <2>1. Places(cfg)' = {}
    BY <1>22 DEF Reboot, NoDev, AtRest, Places
  <2>2. DOMAIN protocols' = {} /\ DOMAIN handles' = {} /\ DOMAIN cfg' = {}
    BY <1>22 DEF Reboot, NoDev, AtRest
  <2>3. Filled'
    BY <2>1 DEF Filled
  <2>4. sent' = Nothing
    BY <1>22 DEF Reboot
  <2> QED BY <2>1, <2>2, <2>3, <2>4 DEF FilledInv
<1>23. CASE UNCHANGED vars
  BY <1>23, FilledKept DEF vars
<1>24. CASE SendReport
  <2> SUFFICES ASSUME Settled PROVE FilledInv'
    BY <1>24 DEF FilledInv, SendReport
  <2>1. radio # "off"
    BY <1>24 DEF SendReport
  <2> QED BY <1>24, <2>1, FilledKept DEF SendReport
<1>25. CASE ConnectId
  <2> SUFFICES ASSUME Settled PROVE FilledInv'
    BY <1>25 DEF FilledInv, ConnectId, Abort, HostGoes
  <2>1. \/ host' = host
        \/ host.chars = {} /\ (host' = AtRest \/ \E step : host' = [host EXCEPT !.pc = step])
        \/ host.chars = {} /\ host'.chars = {}
    BY <1>25 DEF ConnectId, Abort, HostGoes, PostTo, Rest, RegisterInv, AtRest, FirstInv
  <2>2. host'.chars = host.chars
    BY <2>1, HostTakes
  <2> QED BY <1>25, <2>2, FilledKept DEF ConnectId, Abort, HostGoes
<1>26. CASE ConnectMode
  <2> SUFFICES ASSUME Settled PROVE FilledInv'
    BY <1>26 DEF FilledInv, ConnectMode, Abort, HostGoes
  <2>1. \/ host' = host
        \/ host.chars = {} /\ (host' = AtRest \/ \E step : host' = [host EXCEPT !.pc = step])
        \/ host.chars = {} /\ host'.chars = {}
    BY <1>26 DEF ConnectMode, Abort, HostGoes, PostTo, Rest, RegisterInv, AtRest, FirstInv
  <2>2. host'.chars = host.chars
    BY <2>1, HostTakes
  <2> QED BY <1>26, <2>2, FilledKept DEF ConnectMode, Abort, HostGoes
<1> QED BY <1>1, <1>2, <1>3, <1>4, <1>5, <1>6, <1>7, <1>8, <1>9, <1>10, <1>11, <1>12, <1>13,
   <1>14, <1>15, <1>16, <1>17, <1>18, <1>19, <1>20, <1>21, <1>22, <1>23, <1>24, <1>25, <1>26
      DEF Next, App, Host, Register, Air

\* A report that was sent stays so.
LEMMA SentStays ==
    ASSUME InputReachesItsReport, UNCHANGED <<cfg, sent>>, odd \subseteq odd'
    PROVE  InputReachesItsReport'
<1>1. (Ambiguous' <=> Ambiguous) /\ (Settled' => Settled)
  BY DEF Ambiguous, Places, Report, Settled
<1> QED BY <1>1 DEF InputReachesItsReport

\* A report that is sent is sent on the characteristic that is its own.
LEMMA SentReaches ==
    ASSUME HiddInv, SendReport
    PROVE  InputReachesItsReport'
<1> USE DEF HiddInv
<1> DEFINE d == call.map
           m == call.mode
           found == {q \in Places(cfg) : /\ Report(q).id = call.id
                                         /\ Report(q).type = call.type
                                         /\ Report(q).mode = s_dev.protocol}
           p == FirstReport(found)
<1>1. UNCHANGED <<cfg, odd>>
  BY DEF SendReport, devVars, restOfApp
<1>2. CASE sent' = sent
  BY <1>1, <1>2, SentStays
<1>3. CASE /\ p # <<>>
           /\ sent' = [map |-> d, id |-> call.id, type |-> call.type, mode |-> m,
                       handle |-> handles[p],
                       conn |-> IF call.type = "input" THEN s_dev.conn ELSE "none"]
  <2>0. (Ambiguous' <=> Ambiguous) /\ odd' = odd
    BY <1>1 DEF Ambiguous, Places, Report
  <2> SUFFICES ASSUME Settled, ~Ambiguous PROVE InputReachesItsReport'
    BY <2>0 DEF InputReachesItsReport, Settled
  <2> HandleType
    BY DEF TypeInv
  <2>1. s_dev.protocol = m /\ m \in Modes /\ d <= service_index
    BY DEF SendReport, CallInv, TypeInv, DeviceType, Device
  <2>2. PICK a \in Places(cfg) : Wanted(a)
    BY DEF SendReport, CallInv
  <2>3. \A q \in Places(cfg) : q[1] = d => handles[q] = HandleOf(q)
    <3>1. host.chars = {}
      BY DEF SendReport, CallInv, RegisterInv
    <3> QED BY <2>1, <3>1 DEF FilledInv, Filled
  <2>4. p \in Places(cfg) /\ Report(p).id = call.id /\ Report(p).type = call.type
        /\ Report(p).mode = m
    <3>1. found # {}
      BY <1>3 DEF FirstReport
    <3>2. p \in found
      BY <3>1, FirstIs
    <3> QED BY <2>1, <3>2
  <2> HIDE DEF p
  <2>5. CASE m = "report"
    <3>1. p = a
      BY <2>2, <2>4, <2>5 DEF Ambiguous, Wanted
    <3>2. handles[p] = ReportChar(d, Report(a))
      BY <2>2, <2>3, <3>1 DEF HandleOf, CharOf, Wanted
    <3> QED BY <1>3, <2>2, <2>5, <3>2 DEF InputReachesItsReport, ReportChar, Wanted
  <2>6. CASE m = "boot"
    <3>1. p[1] \in DOMAIN cfg /\ p[2] \in DOMAIN cfg[p[1]] /\ Parsed(cfg[p[1]])
          /\ cfg[p[1]][p[2]] = Report(p) /\ Report(p).mode = "boot"
      BY <2>4, <2>6, PlacesAre, ConfigParsed DEF Report
    <3>2. Report(p).type = "input"
      BY <2>2, <2>4, <3>1 DEF Parsed, Wanted
    <3>3. PICK j \in DOMAIN cfg[p[1]] : cfg[p[1]][j] = [Report(p) EXCEPT !.mode = "report"]
      BY <3>1 DEF Parsed
    <3> DEFINE t == <<p[1], j>>
    <3>4. t \in Places(cfg) /\ Report(t) = [Report(p) EXCEPT !.mode = "report"]
      BY <3>1, <3>3, PlacesAre DEF Report
    <3>5. Report(p) \in Item
      BY <2>4, PlacesAre
    <3>6. Report(t).id = call.id /\ Report(t).type = call.type /\ Report(t).mode = "report"
      BY <2>4, <3>4, <3>5 DEF Item
    <3>7. t = a
      BY <2>2, <3>4, <3>6 DEF Ambiguous, Wanted
    <3>8. handles[p] = BootChar(d, Report(p))
      BY <2>2, <2>3, <2>4, <3>1, <3>7 DEF HandleOf, CharOf, Wanted
    <3> QED BY <1>3, <2>4, <2>6, <3>2, <3>8 DEF InputReachesItsReport, BootChar
  <2> QED BY <2>1, <2>5, <2>6 DEF Modes
<1> QED BY <1>2, <1>3 DEF SendReport, find_report

\* Each report is sent on its characteristic.
LEMMA ReachStep ==
    ASSUME HiddInv, [Next]_vars
    PROVE  InputReachesItsReport'
<1> USE DEF devVars, hostVars, restOfApp, restOfHost, callVars, HiddInv
<1>1. CASE InitAlloc
  <2>1. Settled => radio = "off"
    BY <1>1 DEF InitAlloc, SettledInv, TypeInv, HostType
  <2>2. Settled => sent' = Nothing
    BY <1>1, <2>1 DEF InitAlloc, FilledInv
  <2> QED BY <1>1, <2>2 DEF InitAlloc, InputReachesItsReport, Settled
<1>2. ASSUME NEW c \in Configs, InitConfig(c) PROVE InputReachesItsReport'
  <2>1. Settled => radio = "off"
    BY <1>2 DEF InitConfig, SettledInv, TypeInv, HostType
  <2>2. Settled => sent' = Nothing
    BY <1>2, <2>1 DEF InitConfig, FilledInv
  <2> QED BY <1>2, <2>2 DEF InitConfig, InputReachesItsReport, Settled
<1>3. CASE InitGatts
  BY <1>3, SentStays DEF InitGatts
<1>4. CASE InitListen
  BY <1>4, SentStays DEF InitListen
<1>5. CASE DeinitStart
  BY <1>5, SentStays DEF DeinitStart
<1>6. CASE DeinitEnd
  BY <1>6, SentStays DEF DeinitEnd
<1>7. ASSUME NEW p \in Places(cfg), Report(p).mode = "report", Report(p).type # "output",
             SetReport(p[1], Report(p).id, Report(p).type)
      PROVE InputReachesItsReport'
  BY <1>7, SentStays DEF SetReport
<1>8. CASE RegisterService
  BY <1>8, SentStays DEF RegisterService, Abort
<1>9. ASSUME NEW c \in host.chars, RegisterProtocol(c) PROVE InputReachesItsReport'
  BY <1>9, SentStays DEF RegisterProtocol, Abort
<1>10. ASSUME NEW c \in host.chars, RegisterReport(c) PROVE InputReachesItsReport'
  BY <1>10, SentStays DEF RegisterReport, Abort
<1>11. CASE Synced
  BY <1>11, SentStays DEF Synced, PostTo, Abort, Rest, AtRest
<1>12. CASE Connect
  BY <1>12, SentStays DEF Connect, Abort, HostGoes
<1>13. CASE Disconnect
  BY <1>13, SentStays DEF Disconnect, Abort, HostGoes, Rest
<1>14. CASE PostLink
  BY <1>14, SentStays DEF PostLink, PostTo, Abort, Rest, AtRest
<1>15. CASE RadioOn
  BY <1>15, SentStays DEF RadioOn, AtRest
<1>16. CASE RadioOff
  BY <1>16, SentStays DEF RadioOff
<1>17. CASE LinkFails
  BY <1>17, SentStays DEF LinkFails
<1>18. ASSUME NEW c \in Conns, LinkUp(c) PROVE InputReachesItsReport'
  BY <1>18, SentStays DEF LinkUp, AtRest
<1>19. ASSUME NEW c \in Conns, LinkDown(c) PROVE InputReachesItsReport'
  BY <1>19, SentStays DEF LinkDown, AtRest
<1>20. ASSUME NEW d \in DOMAIN mode, NEW m \in Modes, WriteMode(d, m) PROVE InputReachesItsReport'
  BY <1>20, SentStays DEF WriteMode
<1>21. CASE Deliver
  BY <1>21, SentStays DEF Deliver
<1>22. CASE Reboot
  BY <1>22 DEF Reboot, NoDev, AtRest, InputReachesItsReport
<1>23. CASE UNCHANGED vars
  BY <1>23, SentStays DEF vars
<1>24. CASE SendReport
  BY <1>24, SentReaches
<1>25. CASE ConnectId
  BY <1>25, SentStays DEF ConnectId, Abort, HostGoes
<1>26. CASE ConnectMode
  BY <1>26, SentStays DEF ConnectMode, Abort, HostGoes
<1> QED BY <1>1, <1>2, <1>3, <1>4, <1>5, <1>6, <1>7, <1>8, <1>9, <1>10, <1>11, <1>12, <1>13,
   <1>14, <1>15, <1>16, <1>17, <1>18, <1>19, <1>20, <1>21, <1>22, <1>23, <1>24, <1>25, <1>26
      DEF Next, App, Host, Register, Air

\* What does not touch the call keeps it.
LEMMA CallKept ==
    ASSUME CallInv, UNCHANGED <<app, cfg, call, service_index, radio>>, odd \subseteq odd',
           s_dev'.protocol = s_dev.protocol, host.pc # "register" => host'.pc # "register"
    PROVE  CallInv'
BY DEF CallInv, Settled, Wanted, Places, Report

\* The report that is being sent.
LEMMA CallStep ==
    ASSUME HiddInv, [Next]_vars
    PROVE  CallInv'
<1> USE
   DEF devVars, hostVars, restOfApp, restOfHost, callVars, HiddInv, TypeInv, DeviceType,
       HostType, Device, HostState
<1>1. CASE InitAlloc
  BY <1>1 DEF InitAlloc, CallInv
<1>2. ASSUME NEW c \in Configs, InitConfig(c) PROVE CallInv'
  BY <1>2 DEF InitConfig, CallInv
<1>3. CASE InitGatts
  BY <1>3 DEF InitGatts, CallInv
<1>4. CASE InitListen
  BY <1>4 DEF InitListen, CallInv
<1>5. CASE DeinitStart
  BY <1>5 DEF DeinitStart, CallInv
<1>6. CASE DeinitEnd
  BY <1>6 DEF DeinitEnd, CallInv
<1>7. ASSUME NEW p \in Places(cfg), Report(p).mode = "report", Report(p).type # "output",
             SetReport(p[1], Report(p).id, Report(p).type)
      PROVE CallInv'
  <2> DEFINE d == p[1]
  <2> SUFFICES ASSUME Settled PROVE CallInv'
    BY <1>7 DEF SetReport, CallInv, Settled
  <2>1. UNCHANGED <<cfg, radio, host, service_index>> /\ s_dev.connected /\ s_dev.owned
        /\ app = "idle" /\ protocols[d] \in DOMAIN mode
    BY <1>7 DEF SetReport
  <2>2. radio = "on" /\ host.pc # "register"
    BY <2>1 DEF SettledInv, RegisterInv
  <2>3. DOMAIN mode = DOMAIN cfg /\ d \in DOMAIN cfg /\ 0 \notin DOMAIN cfg
    BY <2>1, PlacesAre, ConfigIs DEF HandleType
  <2>4. protocols[d] = d /\ d <= service_index
    BY <2>1, <2>3 DEF FilledInv
  <2>5. /\ s_dev' = [s_dev EXCEPT !.protocol = mode[protocols[d]]]
        /\ call' = [map |-> d, id |-> Report(p).id, type |-> Report(p).type, mode |-> mode[d]]
    BY <1>7 DEF SetReport
  <2>6. s_dev'.protocol = call'.mode /\ call'.map = d
    BY <2>4, <2>5
  <2>7. p \in Places(cfg)' /\ Wanted(p)'
    BY <1>7, <2>1, <2>5 DEF Wanted, Report, Places
  <2> QED BY <2>1, <2>2, <2>4, <2>6, <2>7 DEF CallInv
<1>8. CASE RegisterService
  BY <1>8 DEF RegisterService, CallInv, Settled
<1>9. ASSUME NEW c \in host.chars, RegisterProtocol(c) PROVE CallInv'
  BY <1>9, CallKept DEF RegisterProtocol, Abort
<1>10. ASSUME NEW c \in host.chars, RegisterReport(c) PROVE CallInv'
  BY <1>10, CallKept DEF RegisterReport, Abort
<1>11. CASE Synced
  BY <1>11, CallKept DEF Synced, PostTo, Abort, Rest, AtRest
<1>12. CASE Connect
  BY <1>12, CallKept DEF Connect, Abort, HostGoes
<1>13. CASE Disconnect
  BY <1>13, CallKept DEF Disconnect, Abort, HostGoes, Rest, AtRest
<1>14. CASE PostLink
  BY <1>14, CallKept DEF PostLink, PostTo, Abort, Rest, AtRest
<1>15. CASE RadioOn
  BY <1>15 DEF RadioOn, CallInv, SettledInv, Settled
<1>16. CASE RadioOff
  BY <1>16 DEF RadioOff, CallInv
<1>17. CASE LinkFails
  BY <1>17, CallKept DEF LinkFails
<1>18. ASSUME NEW c \in Conns, LinkUp(c) PROVE CallInv'
  BY <1>18, CallKept DEF LinkUp, AtRest
<1>19. ASSUME NEW c \in Conns, LinkDown(c) PROVE CallInv'
  BY <1>19, CallKept DEF LinkDown, AtRest
<1>20. ASSUME NEW d \in DOMAIN mode, NEW m \in Modes, WriteMode(d, m) PROVE CallInv'
  BY <1>20, CallKept DEF WriteMode
<1>21. CASE Deliver
  BY <1>21, CallKept DEF Deliver
<1>22. CASE Reboot
  BY <1>22 DEF Reboot, CallInv
<1>23. CASE UNCHANGED vars
  BY <1>23, CallKept DEF vars
<1>24. CASE SendReport
  BY <1>24 DEF SendReport, CallInv
<1>25. CASE ConnectId
  BY <1>25, CallKept DEF ConnectId, Abort, HostGoes
<1>26. CASE ConnectMode
  BY <1>26, CallKept DEF ConnectMode, Abort, HostGoes
<1> QED BY <1>1, <1>2, <1>3, <1>4, <1>5, <1>6, <1>7, <1>8, <1>9, <1>10, <1>11, <1>12, <1>13,
   <1>14, <1>15, <1>16, <1>17, <1>18, <1>19, <1>20, <1>21, <1>22, <1>23, <1>24, <1>25, <1>26
      DEF Next, App, Host, Register, Air

-----------------------------------------------------------------------------
(* The theorems.                                                           *)

\* The inductive invariant holds of what the program is started with.
LEMMA HiddStarts ==
    ASSUME Init
    PROVE  HiddInv
<1> USE DEF Init
<1>1. <<>> \in Seq({"start", "connect", "disconnect"}) /\ QueueSize \in Nat
  BY HiddAssumption
<1>2. s_dev \in Device /\ ~s_dev.connected /\ ~s_dev.live /\ ~s_dev.owned
      /\ ~s_dev.loop
  BY DEF NoDev, Device, Modes
<1>3. DeviceType
  BY <1>2 DEF DeviceType
<1>4. QueueType
  BY <1>1 DEF QueueType
<1>5. HandleType
  <2>1. DOMAIN handles = {}
    OBVIOUS
  <2> QED BY <2>1 DEF HandleType
<1>6. HostType
  BY RestIs DEF HostType
<1>7. EventInv /\ OneLinkInv /\ FirstInv /\ SettledInv
  BY <1>2 DEF EventInv, OneLinkInv, FirstInv, SettledInv, AtRest
<1>8. RegisterInv
  BY DEF RegisterInv, AtRest
<1>9. FilledInv
  <2>1. Places(cfg) = {} /\ DOMAIN handles = {} /\ DOMAIN protocols = {} /\ DOMAIN cfg = {}
    BY DEF Places
  <2> QED BY <2>1 DEF FilledInv, Filled
<1>10. CallInv /\ HostSafe /\ InputReachesItsReport
  BY DEF CallInv, HostSafe, InputReachesItsReport
<1> QED BY <1>3, <1>4, <1>5, <1>6, <1>7, <1>8, <1>9, <1>10 DEF HiddInv, TypeInv

\* Every step keeps it.
LEMMA HiddStays ==
    ASSUME HiddInv, [Next]_vars
    PROVE  HiddInv'
<1>1. TypeInv'
  BY DeviceStep, HandleStep, QueueStep, HostStep DEF HiddInv, TypeInv
<1>2. EventInv' /\ OneLinkInv' /\ FirstInv' /\ SettledInv'
  BY EventStep, OneLinkStep, FirstStep, SettledStep DEF HiddInv
<1>3. RegisterInv' /\ FilledInv' /\ CallInv' /\ HostSafe' /\ InputReachesItsReport'
  BY RegisterStep, FilledStep, CallStep, SafeStep, ReachStep
<1> QED BY <1>1, <1>2, <1>3 DEF HiddInv

\* The inductive invariant always holds.
LEMMA HiddAlways == Spec => []HiddInv
<1>1. Init => HiddInv
  BY HiddStarts
<1>2. HiddInv /\ [Next]_vars => HiddInv'
  BY HiddStays
<1> QED BY <1>1, <1>2, PTL DEF Spec

\* A connected device is there, its event queue is not overfull, and a
\* report's characteristic is one of a report.
THEOREM hidd_types == Spec => []HiddTypeOK
<1>1. HiddInv => HiddTypeOK
  BY DEF HiddInv, TypeInv, DeviceType, HandleType, QueueType, HiddTypeOK, Device
<1> QED BY <1>1, HiddAlways, PTL

\* As long as the host runs with the device it was started for, a report is sent on
\* the characteristic of its map, its type, its id and the mode that its map had when
\* the call read it, for every configuration whose reports the code can tell apart.
THEOREM input_reaches == Spec => []InputReachesItsReport
<1>1. HiddInv => InputReachesItsReport
  BY DEF HiddInv
<1> QED BY <1>1, HiddAlways, PTL

\* As long as the host runs with the device it was started for, its task is brought
\* down by nothing but a link that failed, the buffer of the protocol mode of several
\* maps, or a buffer that it could not get.
THEOREM host_safe == Spec => []HostSafe
<1>1. HiddInv => HostSafe
  BY DEF HiddInv
<1> QED BY <1>1, HiddAlways, PTL

\* The device knows whether it has a link, and which.
THEOREM link_is_known == Spec => []LinkIsKnown
<1>1. HiddInv => LinkIsKnown
  BY DEF HiddInv, EventInv, OneLinkInv, LinkIsKnown
<1> QED BY <1>1, HiddAlways, PTL

=============================================================================
