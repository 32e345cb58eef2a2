----------------------------- MODULE KbdPromise -----------------------------
(***************************************************************************)
(* What the keyboard host promises its user, by include/esp_ble_kbd_host.h *)
(* and README.md: it deals with one keyboard, the partner.  A partner is   *)
(* chosen from a scan, before which the one before has been forgotten;     *)
(* links and bonds are made with the partner only, until the next scan.    *)
(***************************************************************************)
CONSTANTS Addr, NoAddr

VARIABLES
    state,      \* ble_kbd_state_t
    partner,    \* NoAddr while there is none
    link,       \* the device that is connected
    store       \* the devices that are bonded

promiseVars == <<state, partner, link, store>>

Init ==
    /\ state = "IDLE" /\ link = NoAddr /\ partner \in Addr \cup {NoAddr}
    /\ store = {partner} \ {NoAddr}

\* The old partner is forgotten, from any state.
Scan ==
    /\ link = NoAddr
    /\ state' = "SCANNING" /\ partner' = NoAddr /\ store' = {}
    /\ UNCHANGED link

Choose(a) ==
    /\ state = "SCANNING" /\ partner = NoAddr
    /\ state' = "CONNECTING" /\ partner' = a
    /\ UNCHANGED <<link, store>>

Reconnect ==
    /\ state \in {"IDLE", "CONNECTED"} /\ partner # NoAddr
    /\ state' = "RECONNECTING"
    /\ UNCHANGED <<partner, link, store>>

LinkUp ==
    /\ state \in {"CONNECTING", "RECONNECTING"} /\ link = NoAddr /\ partner # NoAddr
    /\ link' = partner
    /\ UNCHANGED <<state, partner, store>>

\* A bond is made, or dropped for a new one.
Bond ==
    /\ link # NoAddr
    /\ store' \in {{}, {partner}}
    /\ UNCHANGED <<state, partner, link>>

Connected ==
    /\ state \in {"CONNECTING", "RECONNECTING"} /\ link # NoAddr
    /\ state' = "CONNECTED"
    /\ UNCHANGED <<partner, link, store>>

LinkDown ==
    /\ link # NoAddr /\ link' = NoAddr
    /\ UNCHANGED <<state, partner, store>>

\* Only the store survives.
Restart ==
    /\ state' = "IDLE" /\ link' = NoAddr /\ store' = store
    /\ \/ partner' \in store
       \/ store = {} /\ partner' = NoAddr

Next ==
    \/ Scan \/ Reconnect \/ LinkUp \/ Bond \/ Connected \/ LinkDown \/ Restart
    \/ \E a \in Addr : Choose(a)

Spec == Init /\ [][Next]_promiseVars
=============================================================================
