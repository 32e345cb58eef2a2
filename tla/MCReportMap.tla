---------------------------- MODULE MCReportMap ----------------------------
\* ReportMap on a few keyboards and mice, whole and cut short, for TLC.
EXTENDS ReportMap

LOCAL F(id, page, usage, type, size, count) ==
    [id |-> id, page |-> page, usage |-> usage, type |-> type, size |-> size,
     count |-> count, nest |-> FALSE]
LOCAL N(f) == [f EXCEPT !.nest = TRUE]
LOCAL C(page, usage, fields) == [page |-> page, usage |-> usage, fields |-> fields]

\* Modifiers and keys, LEDs padded to a byte; and a FEATURE, which is left out.
LOCAL Keys(id) ==
    C("desktop", "KEYBOARD",
      <<F(id, "keys", "modifiers", "INPUT", 1, 8), F(id, "keys", "codes", "INPUT", 8, 2),
        F(id, "leds", "lock", "OUTPUT", 1, 5), F(id, "leds", "padding", "OUTPUT", 3, 1)>>)
LOCAL Lit(id) ==
    C("desktop", "KEYBOARD", <<F(id, "keys", "codes", "INPUT", 8, 2),
                               F(id, "vendor", "backlight", "FEATURE", 8, 1)>>)
LOCAL Media(id) == C("consumer", "CCONTROL", <<F(id, "consumer", "volume", "INPUT", 16, 1)>>)
\* One collection with two ids, and inner collections; the OUTPUT is left out.
LOCAL Pointer == C("desktop", "MOUSE",
      <<N(F(1, "buttons", "buttons", "INPUT", 1, 8)), F(1, "vendor", "haptics", "OUTPUT", 8, 1),
        F(1, "desktop", "JOYSTICK", "INPUT", 8, 2), F(2, "vendor", "wheel", "INPUT", 8, 1),
        F(2, "vendor", "speed", "FEATURE", 4, 2)>>)
LOCAL Mouse(id) == C("desktop", "MOUSE", <<F(id, "desktop", "pointer", "INPUT", 8, 3)>>)
LOCAL Odd == C("desktop", "KEYBOARD", <<F(0, "keys", "codes", "INPUT", 3, 1)>>)

\* What a keyboard or a mouse offers for the reports of its map: a characteristic
\* for each id and type, and those of the boot protocol.
LOCAL Rpt(id, type) == [uuid |-> "RPT", id |-> id, type |-> type]
LOCAL Boot(uuid) == [uuid |-> uuid, id |-> 0, type |-> "none"]
LOCAL Rpts(m) ==
    UNION {{Rpt(m[n].fields[i].id, m[n].fields[i].type) : i \in DOMAIN m[n].fields} :
           n \in DOMAIN m}
LOCAL Has(m, usage) == \E n \in DOMAIN m : m[n].usage = usage
LOCAL Boots(m) ==
    (IF Has(m, "KEYBOARD") THEN {Boot("BOOT_KBD_INP"), Boot("BOOT_KBD_OUT")} ELSE {})
    \cup (IF Has(m, "MOUSE") THEN {Boot("BOOT_MOUSE_INP")} ELSE {})

LOCAL With(map, chars) ==
    [map |-> map, cut |-> 999, short |-> FALSE, chars |-> SetToSeq(chars)]
LOCAL S(map) == With(map, Rpts(map) \cup Boots(map))

LOCAL Maps == {<<Keys(1)>>, <<Keys(0)>>, <<Lit(1)>>, <<Keys(1), Media(2)>>, <<Pointer>>,
               <<Odd>>, <<Keys(1), Odd>>, <<Keys(1), Mouse(2)>>,
               <<Keys(1), Media(2), Pointer>>}
LOCAL CutMap == <<Keys(1), Media(2)>>

\* Without boot protocol, with a report that the map does not declare and one
\* without a report reference; and the two services of a device, with the same ids.
MCDevices ==
    {<<S(m)>> : m \in Maps}
    \cup {<<With(<<Lit(1)>>, Rpts(<<Lit(1)>>) \cup {Rpt(9, "INPUT"), Rpt(0, "none")})>>}
    \cup {<<S(<<Keys(1)>>), S(<<Media(1)>>)>>, <<S(<<Media(2)>>), S(<<Keys(2)>>)>>}
    \cup {<<[S(CutMap) EXCEPT !.cut = c, !.short = b]>> :
             c \in {0, 1, 2, 3, 10, 27, 28, 30, 33}, b \in BOOLEAN}
=============================================================================
