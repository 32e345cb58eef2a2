---------------------------- MODULE MCDiscovery ----------------------------
\* Discovery on three keyboards, for TLC.
EXTENDS Discovery

LOCAL C(uuid, read, notify, type, descrs) ==
    [uuid |-> uuid, read |-> read, notify |-> notify, type |-> type,
     descrs |-> descrs]
LOCAL Value(uuid) == C(uuid, TRUE, FALSE, "FEATURE", <<>>)
LOCAL Input == C("RPT", TRUE, TRUE, "INPUT", <<"CCC", "RPT_REF">>)
LOCAL Output == C("RPT", TRUE, FALSE, "OUTPUT", <<"RPT_REF">>)
LOCAL Feature == C("RPT", TRUE, TRUE, "FEATURE", <<"other", "RPT_REF", "CCC">>)
LOCAL BootInput == C("BOOT_KBD_INP", TRUE, TRUE, "INPUT", <<"CCC">>)
LOCAL S(uuid, chars) == [uuid |-> uuid, chars |-> chars]

LOCAL Gap == S("GAP", <<Value("NAME"), Value("other")>>)
LOCAL Dis == S("DIS", <<Value("MANUFACTURER"), Value("PNP_ID"), Value("SERIAL")>>)
LOCAL Bas == S("BAS", <<C("BATTERY_LEVEL", TRUE, TRUE, "INPUT", <<"CCC">>)>>)

\* The common one; one with two HID services around the battery's; one with its
\* HID service first and the protocol mode behind the reports.
Full == <<Gap, S("other", <<Value("other")>>), Dis, Bas,
          S("HID", <<Value("PROTOCOL_MODE"), Value("REPORT_MAP"), Input, Output,
                     BootInput, Feature>>)>>
TwoHid == <<Dis, S("HID", <<Value("PROTOCOL_MODE"), Value("REPORT_MAP"), Input>>),
            Bas, S("HID", <<Value("REPORT_MAP"), Input, Value("PROTOCOL_MODE"),
                            C("BOOT_KBD_OUT", TRUE, FALSE, "OUTPUT", <<>>)>>), Gap>>
Plain == <<S("HID", <<C("RPT", TRUE, FALSE, "INPUT", <<>>), Input,
                      Value("PROTOCOL_MODE")>>), Dis, Gap>>

MCPeers == {Full, TwoHid, Plain}
=============================================================================
