----------------------------- MODULE ReportMap -----------------------------
(***************************************************************************)
(* From report descriptors to the reports of a device: the parser of       *)
(* esp_hid/src/esp_hid_common.c, the loop at the end of                    *)
(* read_device_services (nimble_hidh.c) that gives it the descriptor of    *)
(* each HID service and completes the reports that discovery found, and    *)
(* the look-ups of esp_hidh.c that use the result.  What discovery found   *)
(* at a service is given beside its descriptor: the two come from          *)
(* different parts of a keyboard, and the parser leaves some reports out.  *)
(*                                                                         *)
(* The parser is a state machine over the items of a descriptor.  Its      *)
(* position and the report it is measuring are static variables: they      *)
(* outlive a descriptor that ends, or is given up, in the middle.          *)
(*                                                                         *)
(* An item is a tag and a value; usage pages and usages are names.  The    *)
(* item "short" stands for one whose bytes run over the end.               *)
(***************************************************************************)
EXTENDS Naturals, Sequences, SequencesExt, FiniteSetsExt

CONSTANTS
    Devices,        \* what may be parsed: sequences of HID services
    MaxReports,     \* reports[64]
    MaxParsed,      \* bound: no device is parsed once so many descriptors were parsed
    Faults          \* "no_memory": an allocation of the parser fails

Types == {"INPUT", "OUTPUT", "FEATURE"}

\* A field of a collection (nest: inside a collection of its own), an
\* application collection; a characteristic with the id and the type of its report
\* reference (0 and "none" without one); and a service with a descriptor made of
\* collections, of which cut items arrive (short: the next one in part), and with
\* its characteristics that stand for reports.  A report id is a byte.
Field == [id : 0 .. 255, page : STRING, usage : STRING, type : Types,
          size : Nat, count : Nat, nest : BOOLEAN]
Collection == [page : STRING, usage : STRING, fields : Seq(Field)]
Characteristic == [uuid : {"BOOT_KBD_INP", "BOOT_KBD_OUT", "BOOT_MOUSE_INP", "RPT"},
                   id : 0 .. 255, type : Types \cup {"none"}]
Service == [map : Seq(Collection), cut : Nat, short : BOOLEAN, chars : Seq(Characteristic)]

ASSUME ParserAssumption ==
    /\ Devices \subseteq Seq(Service)
    /\ MaxReports \in Nat \ {0} /\ MaxParsed \in Nat
    /\ Faults \subseteq {"no_memory"}

VARIABLES
    s_parse_step, s_collection_depth, s_report_params,
    s_report_size, s_report_count, s_new_map,
    s_temp,         \* s_temp_hid_report_map: NULL, or what was collected
    desc, index,    \* the descriptor and the position in it
    device, d,      \* the device and its service that is parsed
    rpts,           \* dev->reports
    pc,             \* "idle", "service", "parse" or "crashed"
    parsed,         \* history, and bound: descriptors given to the parser since the reset
    results         \* history: how each parse of this device went

lenVars  == <<s_report_params, s_report_size, s_report_count>>
mapVars  == <<s_new_map, s_temp>>
statics  == <<s_parse_step, s_collection_depth, lenVars, mapVars>>
callVars == <<desc, device, d, rpts, pc, parsed, results>>
vars     == <<statics, index, callVars>>

Lengths == 0 .. 65535    \* uint16_t
NULL == [mask |-> {}, reports |-> <<>>, live |-> FALSE]
NoBits == [t \in Types |-> 0]
NoParams == [page |-> "none", usage |-> "none", inner_page |-> "none",
             inner_usage |-> "none", id |-> 0, bits |-> NoBits]

Init ==
    /\ s_parse_step = "USAGE_PAGE" /\ s_collection_depth = 0
    /\ s_report_params = NoParams /\ s_report_size = 0 /\ s_report_count = 0
    /\ s_new_map = FALSE /\ s_temp = NULL
    /\ desc = <<>> /\ index = 1 /\ device = <<>> /\ d = 1
    /\ rpts = <<>> /\ pc = "idle" /\ parsed = 0 /\ results = <<>>

-----------------------------------------------------------------------------
(* Descriptors, and the reports that they declare.                         *)

Item(tag, val) == [tag |-> tag, val |-> val]
FieldItems(f) ==
    (IF f.id = 0 THEN <<>> ELSE <<Item("REPORT_ID", f.id)>>)
    \o <<Item("USAGE_PAGE", f.page), Item("USAGE", f.usage)>>
    \o (IF f.nest THEN <<Item("COLLECTION", "physical")>> ELSE <<>>)
    \o <<Item("SIZE", f.size), Item("COUNT", f.count), Item(f.type, 0)>>
    \o (IF f.nest THEN <<Item("END", 0)>> ELSE <<>>)
CollectionItems(c) ==
    <<Item("USAGE_PAGE", c.page), Item("USAGE", c.usage),
      Item("COLLECTION", "application")>>
    \o FlattenSeq([i \in DOMAIN c.fields |-> FieldItems(c.fields[i])])
    \o <<Item("END", 0)>>
MapItems(m) == FlattenSeq([i \in DOMAIN m |-> CollectionItems(m[i])])
Whole(s) == s.cut >= Len(MapItems(s.map))
Descriptor(s) == IF Whole(s) THEN MapItems(s.map)
                 ELSE SubSeq(MapItems(s.map), 1, s.cut)
                      \o IF s.short THEN <<Item("short", 0)>> ELSE <<>>

UsageOf(page, usage) ==
    CASE page = "desktop" /\ usage \in {"KEYBOARD", "MOUSE", "JOYSTICK", "GAMEPAD"}
            -> usage
      [] page = "consumer" /\ usage = "CCONTROL" -> usage
      [] page = "vendor" -> "VENDOR"
      [] OTHER -> "GENERIC"

BootLen(u, type) == CASE u = "KEYBOARD" /\ type = "INPUT"  -> 8
                      [] u = "KEYBOARD" /\ type = "OUTPUT" -> 1
                      [] u = "MOUSE" /\ type = "INPUT"     -> 3
                      [] OTHER -> 0

\* The usage of a map is the first of these that it has.
Dominant(mask) ==
    LET order == <<"KEYBOARD", "MOUSE", "JOYSTICK", "GAMEPAD", "CCONTROL">>
        known == SelectSeq(order, LAMBDA u : u \in mask)
    IN IF known = <<>> THEN "GENERIC" ELSE Head(known)

\* The reports of one id and usage with so many bits of each type: a keyboard's
\* and a mouse's have a twin in boot protocol, the others of theirs are left out.
ReportsOf(u, id, bits) ==
    LET R(type, proto, len) == [usage |-> u, id |-> id, type |-> type,
                                proto |-> proto, len |-> len]
        Of(type) ==
            IF bits[type] = 0 THEN <<>>
            ELSE IF u \notin {"KEYBOARD", "MOUSE"}
            THEN <<R(type, "REPORT", bits[type] \div 8)>>
            ELSE IF BootLen(u, type) = 0 THEN <<>>
            ELSE <<R(type, "REPORT", bits[type] \div 8),
                   R(type, "BOOT", BootLen(u, type))>>
    IN Of("INPUT") \o Of("OUTPUT") \o Of("FEATURE")

\* Fields from i on with the id of field i, at which an id starts.
StartsId(c, i) == i = 1 \/ c.fields[i].id # c.fields[i - 1].id
IdFields(c, i) == {j \in i .. Len(c.fields) : \A k \in i + 1 .. j : ~StartsId(c, k)}
\* The bits of type t that they have up to each field, and those of each type.
BitsTo(c, i, t) ==
    LET Sum[j \in 0 .. Len(c.fields)] ==
            IF j < i THEN 0
            ELSE Sum[j - 1] + IF j \in IdFields(c, i) /\ c.fields[j].type = t
                              THEN c.fields[j].size * c.fields[j].count ELSE 0
    IN Sum
IdBits(c, i) == [t \in Types |-> BitsTo(c, i, t)[Len(c.fields)]]
\* The first id has the usage of the collection, another one the usage that was
\* named last before it.
IdUsage(c, i) == IF i = 1 THEN UsageOf(c.page, c.usage)
                 ELSE UsageOf(c.fields[i - 1].page, c.fields[i - 1].usage)
IdReports(c, i) == IF StartsId(c, i)
                   THEN ReportsOf(IdUsage(c, i), c.fields[i].id, IdBits(c, i))
                   ELSE <<>>
Declared(m) ==
    FlattenSeq([n \in DOMAIN m |->
        FlattenSeq([i \in DOMAIN m[n].fields |-> IdReports(m[n], i)])])
Usages(m) == UNION {{IdUsage(m[n], i) : i \in {i \in DOMAIN m[n].fields :
                                                   StartsId(m[n], i)}} : n \in DOMAIN m}
\* Reports are full bytes, and their bits can be counted.
Aligned(m) ==
    \A n \in DOMAIN m : \A i \in DOMAIN m[n].fields : \A t \in Types :
        StartsId(m[n], i) => /\ IdBits(m[n], i)[t] % 8 = 0
                             /\ IdBits(m[n], i)[t] < 65536
\* A collection has fields, and all of its fields have an id or none.
WellFormed(m) ==
    \A n \in DOMAIN m :
        /\ m[n].fields # <<>>
        /\ \A i, j \in DOMAIN m[n].fields :
               m[n].fields[i].id = 0 => m[n].fields[j].id = 0
\* The parser can be expected to understand service s.
Sound(s) == /\ Whole(s) /\ s.map # <<>> /\ WellFormed(s.map) /\ Aligned(s.map)
            /\ Len(Declared(s.map)) <= MaxReports

-----------------------------------------------------------------------------
(* The end of a parse.                                                     *)

\* The result is NULL, and why.
GiveUp(how) ==
    /\ pc' = "service" /\ d' = d + 1
    /\ results' = [results EXCEPT ![d].how = how]
    /\ UNCHANGED <<index, desc, device, rpts, parsed>>

\* handle_cmd returns 0.
Proceed == index' = index + 1 /\ UNCHANGED callVars

\* handle_cmd returns -1.
Refuse(how) ==
    /\ s_parse_step' = "USAGE_PAGE"
    /\ UNCHANGED <<s_collection_depth, lenVars>>
    /\ GiveUp(how)

Collected ==
    (IF s_new_map THEN <<>> ELSE s_temp.reports)
    \o ReportsOf(UsageOf(s_report_params.page, s_report_params.usage),
                 s_report_params.id, s_report_params.bits)
\* [mutant] The bound is off by one.
FittingOneMore(rs) == SubSeq(rs, 1, Min({Len(rs), MaxReports + 1}))

\* add_report, for each of rs.
Fitting(rs) == SubSeq(rs, 1, Min({Len(rs), MaxReports}))

FullBytes == \A t \in Types : s_report_params.bits[t] % 8 = 0

\* handle_report for the report that was measured; Then is what follows if it
\* succeeds.  What did fit stays in the table.
HandleReport(Then) ==
    \/ /\ s_temp' = [mask |-> (IF s_new_map THEN {} ELSE s_temp.mask)
                        \cup {UsageOf(s_report_params.page, s_report_params.usage)},
                     reports |-> Fitting(Collected), live |-> TRUE]
       /\ IF Len(Collected) <= MaxReports THEN s_new_map' = FALSE /\ Then
          ELSE UNCHANGED s_new_map /\ Refuse("refused")
    \/ /\ "no_memory" \in Faults /\ ~s_temp.live
       /\ UNCHANGED mapVars /\ Refuse("no_memory")

-----------------------------------------------------------------------------
(* The caller: read_device_services.                                       *)

\* The report of characteristic c of service k, as discovery leaves it: a boot
\* report has no report reference.
Discovered(k, c) ==
    LET Boot(type, usage) == [map |-> k, proto |-> "BOOT", type |-> type, id |-> 0,
                              usage |-> usage, len |-> 8]
    IN CASE c.uuid = "BOOT_KBD_INP"   -> Boot("INPUT", "KEYBOARD")
         [] c.uuid = "BOOT_KBD_OUT"   -> Boot("OUTPUT", "KEYBOARD")
         [] c.uuid = "BOOT_MOUSE_INP" -> Boot("INPUT", "MOUSE")
         [] c.uuid = "RPT" -> [map |-> k, proto |-> "REPORT", type |-> c.type,
                               id |-> c.id, usage |-> "GENERIC", len |-> 0]
ServiceReports(k, s) == [i \in DOMAIN s.chars |-> Discovered(k, s.chars[i])]
\* Each report goes to the head of dev->reports.
Listed(dev) == Reverse(FlattenSeq([k \in DOMAIN dev |-> ServiceReports(k, dev[k])]))

Open(dev) ==
    /\ pc = "idle" /\ parsed < MaxParsed
    /\ desc' = <<>> /\ index' = 1
    /\ device' = dev /\ d' = 1 /\ pc' = "service" /\ results' = <<>>
    /\ rpts' = Listed(dev)
    /\ UNCHANGED <<statics, parsed>>

\* A descriptor that is empty, or of a device without reports, is not parsed.
Parse ==
    /\ pc = "service" /\ d <= Len(device)
    /\ desc' = Descriptor(device[d])
    /\ results' = Append(results, [how |-> "none", reports |-> <<>>,
                                   usage |-> "none", fresh |-> s_parse_step = "USAGE_PAGE"])
    /\ IF rpts = <<>> \/ desc' = <<>>
       THEN d' = d + 1 /\ UNCHANGED <<pc, index, parsed, s_new_map>>
       ELSE pc' = "parse" /\ index' = 1 /\ parsed' = parsed + 1 /\ s_new_map' = TRUE
            /\ UNCHANGED d
    /\ UNCHANGED <<s_parse_step, s_collection_depth, lenVars, s_temp, device, rpts>>

\* Report r and item it of a map.
Match(r, it) ==
    IF r.proto = "BOOT" /\ it.proto = "BOOT" /\ r.type = it.type /\ r.usage = it.usage
    THEN [r EXCEPT !.id = it.id, !.len = it.len]
    ELSE IF r.proto = it.proto /\ r.type = it.type /\ r.id = it.id
    THEN [r EXCEPT !.usage = it.usage, !.len = it.len] ELSE r

\* Report r after all of items.
MatchAll(r, items) ==
    LET After[n \in 0 .. Len(items)] == IF n = 0 THEN r ELSE Match(After[n - 1], items[n])
    IN After[Len(items)]

\* [mutant] The service of a report is not looked at.
MatchedAnywhere(items) == [i \in DOMAIN rpts |-> MatchAll(rpts[i], items)]

Matched(items) ==
    [i \in DOMAIN rpts |-> IF rpts[i].map = d THEN MatchAll(rpts[i], items) ELSE rpts[i]]

DeviceDone ==
    /\ pc = "service" /\ d > Len(device)
    /\ pc' = "idle"
    /\ UNCHANGED <<statics, index, desc, device, d, rpts, parsed, results>>

-----------------------------------------------------------------------------
(* The parser.                                                             *)

It == desc[index]
Reading(step) == /\ pc = "parse" /\ index <= Len(desc) /\ It.tag # "short"
                 /\ s_parse_step = step

\* parse_cmd: not enough bytes, or no memory for the item.
ParseCmdFails ==
    /\ pc = "parse" /\ index <= Len(desc)
    /\ \/ It.tag = "short" /\ GiveUp("refused")
       \/ "no_memory" \in Faults /\ GiveUp("no_memory")
    /\ UNCHANGED statics

WaitUsagePage ==
    /\ Reading("USAGE_PAGE")
    /\ IF It.tag = "USAGE_PAGE"
       THEN /\ s_report_size' = 0 /\ s_report_count' = 0
            /\ s_report_params' = [NoParams EXCEPT !.page = It.val]
            /\ s_parse_step' = "USAGE"
            /\ UNCHANGED s_collection_depth /\ Proceed
       ELSE Refuse("refused")
    /\ UNCHANGED mapVars

WaitUsage ==
    /\ Reading("USAGE")
    /\ IF It.tag = "USAGE"
       THEN /\ s_report_params' = [s_report_params EXCEPT !.usage = It.val]
            /\ s_parse_step' = "COLLECTION"
            /\ UNCHANGED <<s_collection_depth, s_report_size, s_report_count>>
            /\ Proceed
       ELSE Refuse("refused")
    /\ UNCHANGED mapVars

WaitCollection ==
    /\ Reading("COLLECTION")
    /\ IF It = Item("COLLECTION", "application")
       THEN /\ s_report_params' = [s_report_params EXCEPT !.id = 0]
            /\ s_collection_depth' = 1 /\ s_parse_step' = "END"
            /\ UNCHANGED <<s_report_size, s_report_count>> /\ Proceed
       ELSE Refuse("refused")
    /\ UNCHANGED mapVars

\* Inside a collection: the items that only change s_report_params and the two
\* factors.
Measure ==
    /\ Reading("END") /\ It.tag \notin {"REPORT_ID", "END"}
    /\ s_report_params' =
          CASE It.tag = "USAGE_PAGE" -> [s_report_params EXCEPT !.inner_page = It.val]
            [] It.tag = "USAGE" -> [s_report_params EXCEPT !.inner_usage = It.val]
            [] It.tag \in Types ->
                  [s_report_params EXCEPT !.bits[It.tag] =
                      (@ + s_report_size * s_report_count) % 65536]
            [] OTHER -> s_report_params
    /\ s_report_size' = IF It.tag = "SIZE" THEN It.val ELSE s_report_size
    /\ s_report_count' = IF It.tag = "COUNT" THEN It.val ELSE s_report_count
    /\ s_collection_depth' = IF It.tag = "COLLECTION" THEN (s_collection_depth + 1) % 256
                             ELSE s_collection_depth
    /\ Proceed
    /\ UNCHANGED <<s_parse_step, mapVars>>

\* [mutant] The lengths go on from one id to the next.
NextIdKeepsBits ==
    [s_report_params EXCEPT !.usage = s_report_params.inner_usage,
                            !.page = s_report_params.inner_page, !.id = It.val]

\* The report after a change of the id.
NextId ==
    [s_report_params EXCEPT !.bits = NoBits, !.usage = s_report_params.inner_usage,
                            !.page = s_report_params.inner_page, !.id = It.val]

\* A report that does not amount to full bytes is neither added nor forgotten.
ReportId ==
    /\ Reading("END") /\ It.tag = "REPORT_ID"
    /\ LET changed == s_report_params.id \notin {0, It.val} IN
       IF changed /\ FullBytes
       THEN HandleReport(/\ s_report_params' = NextId
                         /\ UNCHANGED <<s_parse_step, s_collection_depth,
                                        s_report_size, s_report_count>>
                         /\ Proceed)
       ELSE /\ s_report_params' = [s_report_params EXCEPT !.id = It.val]
            /\ UNCHANGED <<s_parse_step, s_collection_depth, s_report_size,
                           s_report_count, mapVars>>
            /\ Proceed

EndCollection ==
    /\ Reading("END") /\ It.tag = "END"
    /\ LET Outermost == /\ s_parse_step' = "USAGE_PAGE" /\ s_collection_depth' = 0
                        /\ UNCHANGED lenVars /\ Proceed
       IN IF s_collection_depth # 1
          THEN /\ s_collection_depth' = (s_collection_depth + 255) % 256
               /\ UNCHANGED <<s_parse_step, lenVars, mapVars>> /\ Proceed
          ELSE IF FullBytes THEN HandleReport(Outermost)
          ELSE Outermost /\ UNCHANGED mapVars

\* The end of esp_hid_parse_report_map: it reads through s_temp whatever became
\* of it.  Memory for no reports at all is an allocation of 0 bytes, which may
\* fail at any time.
ParseEnd ==
    /\ pc = "parse" /\ index > Len(desc)
    /\ \/ /\ "no_memory" \in Faults \/ (s_temp.live /\ s_temp.reports = <<>>)
          /\ s_temp' = NULL /\ GiveUp("no_memory")
       \/ /\ ~s_temp.live
          /\ pc' = "crashed"
          /\ UNCHANGED <<s_temp, index, desc, device, d, rpts, parsed, results>>
       \/ /\ s_temp.live
          /\ s_temp' = NULL /\ rpts' = Matched(s_temp.reports)
          /\ results' = [results EXCEPT ![d] =
                [@ EXCEPT !.how = "map", !.usage = Dominant(s_temp.mask),
                          !.reports = s_temp.reports]]
          /\ pc' = "service" /\ d' = d + 1
          /\ UNCHANGED <<index, desc, device, parsed>>
    /\ UNCHANGED <<s_parse_step, s_collection_depth, lenVars, s_new_map>>

\* A read through NULL resets the chip; so does its user, between devices.
Reboot ==
    /\ pc \in {"crashed", "idle"}
    /\ s_parse_step' = "USAGE_PAGE" /\ s_collection_depth' = 0
    /\ s_report_params' = NoParams /\ s_report_size' = 0 /\ s_report_count' = 0
    /\ s_new_map' = FALSE /\ s_temp' = NULL
    /\ desc' = <<>> /\ index' = 1 /\ device' = <<>> /\ d' = 1
    /\ rpts' = <<>> /\ pc' = "idle" /\ parsed' = 0 /\ results' = <<>>

Parser == \/ ParseCmdFails \/ WaitUsagePage \/ WaitUsage \/ WaitCollection
          \/ Measure \/ ReportId \/ EndCollection \/ ParseEnd
Next == \/ \E dev \in Devices : Open(dev)
        \/ Parse \/ DeviceDone \/ Parser \/ Reboot

Spec == Init /\ [][Next]_vars

-----------------------------------------------------------------------------
(* The look-ups of esp_hidh.c in a list of reports.                        *)

\* The loops end at the first report that passes.
FirstOf(passing) == IF passing = {} THEN 0 ELSE Min(passing)

\* report_type & ESP_HID_REPORT_TYPE_INPUT: OUTPUT is 2 and FEATURE is 3.
PassesAsInput(r) == r.type \in {"INPUT", "FEATURE"} /\ r.proto = "REPORT"

\* [mutant] A packet that starts with an id must have the declared length.
ReportByDataExact(rs, len, first) ==
    LET inputs == {i \in DOMAIN rs : PassesAsInput(rs[i])}
        bare == {i \in inputs : rs[i].len = len /\ rs[i].id = 0}
        withId == {i \in inputs : rs[i].len = len - 1 /\ rs[i].id = first}
    IN IF bare # {} \/ first = 0 THEN FirstOf(bare) ELSE FirstOf(withId)

\* esp_hidh_dev_get_input_report_by_proto_and_data: a packet of len bytes; the
\* position of its report, 0 for none.
ReportByData(rs, len, first) ==
    LET inputs == {i \in DOMAIN rs : PassesAsInput(rs[i])}
        bare == {i \in inputs : rs[i].len = len /\ rs[i].id = 0}
        withId == {i \in inputs : rs[i].len <= len - 1 /\ rs[i].id = first}
    IN IF bare # {} \/ first = 0 THEN FirstOf(bare) ELSE FirstOf(withId)

\* esp_hidh_dev_get_report_by_id_and_type, for the reads and writes of BLE.
ReportByIdAndType(rs, map, id, type) ==
    FirstOf({i \in DOMAIN rs : /\ rs[i].map = map /\ rs[i].id = id /\ rs[i].type = type
                                /\ rs[i].proto = "REPORT"})

-----------------------------------------------------------------------------
(* Properties.                                                             *)

\* The parser's statics: the table holds at most its 64 reports, and the depth
\* is at least 1 inside a collection (it is an unsigned byte that END decreases).
\* Each descriptor that ends inside an inner collection may leave it 2 higher, so
\* that the 128th of them since the reset can bring it round to 0.
ParserTypeOK ==
    /\ s_parse_step \in {"USAGE_PAGE", "USAGE", "COLLECTION", "END"}
    /\ s_collection_depth \in 0 .. 255
    /\ \A t \in Types : s_report_params.bits[t] \in Lengths
    /\ Len(s_temp.reports) <= MaxReports
    /\ s_parse_step = "END" /\ parsed < 128 => s_collection_depth > 0
    /\ pc = "parse" => Len(results) = d

\* A descriptor that arrives whole is understood exactly, whatever descriptors
\* were parsed or given up before it, as long as none of them left the parser in
\* the middle of a collection.
ParsedExact ==
    \A k \in DOMAIN results :
        /\ results[k].fresh /\ Sound(device[k]) /\ rpts # <<>>
        /\ k < d \/ pc = "crashed"
        /\ results[k].how # "no_memory"
        => /\ results[k].how = "map"
           /\ results[k].reports = Declared(device[k].map)
           /\ results[k].usage = Dominant(Usages(device[k].map))

\* The report of service k that it completes.
Completed(k, it) == [map |-> k, proto |-> it.proto, type |-> it.type, id |-> it.id,
                     usage |-> it.usage, len |-> it.len]

\* Declaration it is about the report r that discovery found.
Means(r, it) ==
    /\ r.proto = it.proto /\ r.type = it.type
    /\ IF r.proto = "BOOT" THEN r.usage = it.usage ELSE r.id = it.id

\* A boot report that has its id from no map yet passes for one without an id
\* (nimble_hidh.c:533), of whatever usage.
PassesFor(r, it) == /\ r.proto = "BOOT" /\ it.proto = "BOOT" /\ r.type = it.type
                    /\ r.id = it.id /\ r.usage # it.usage

\* Unique report references, and one boot report of a kind: what the map says can
\* be told apart.
Distinct(m) ==
    LET rs == Declared(m) IN
    \A i, j \in DOMAIN rs :
        /\ rs[i].proto = rs[j].proto /\ rs[i].type = rs[j].type
        /\ rs[i].id = rs[j].id \/ (rs[i].proto = "BOOT" /\ rs[i].usage = rs[j].usage)
        => i = j

\* Each report that discovery found is completed from the descriptor of its own
\* service, by the declaration that is about it and by no other: two services may
\* use the same ids.  One that the map does not declare, or that the parser leaves
\* out (a keyboard's FEATURE), stays as it was found, and so does every report of a
\* service whose descriptor was not understood.
MatchedExact ==
    pc = "idle" => \A i \in DOMAIN rpts :
        LET r == Listed(device)[i]
            k == r.map
            rs == Declared(device[k].map)
            meant == {n \in DOMAIN rs : Means(r, rs[n])}
        IN /\ results[k].how # "map" => rpts[i] = r
           /\ results[k].how = "map" /\ results[k].fresh /\ Sound(device[k])
              /\ Distinct(device[k].map) /\ (\A n \in DOMAIN rs : ~PassesFor(r, rs[n]))
              => /\ meant = {} => rpts[i] = r
                 /\ \A n \in meant : rpts[i] = Completed(k, rs[n])

\* A packet of a declared input report is taken for one of its id and usage, in
\* the list that bt_hidh.c makes of a map: with its id in front if it has one, and
\* also if it is longer than declared, as some keyboards' are (esp_hidh.c:659).  A
\* FEATURE report passes the test for INPUT ones and may be found in its place, so
\* that this needs one usage for each id, and one length where there are no ids.
DataFindsReport ==
    \A k \in DOMAIN results :
        LET rs == Reverse(results[k].reports)
            Ambiguous(i, j) == /\ PassesAsInput(rs[j]) /\ rs[j].id = rs[i].id
                               /\ (rs[j].usage # rs[i].usage \/ (rs[i].id = 0 /\ i # j))
            Found(i, n) == /\ n # 0
                           /\ rs[n].id = rs[i].id /\ rs[n].usage = rs[i].usage
        IN results[k].how = "map" =>
           \A i \in DOMAIN rs :
               /\ rs[i].type = "INPUT" /\ rs[i].proto = "REPORT"
               /\ \A j \in DOMAIN rs : ~Ambiguous(i, j)
               => IF rs[i].id = 0 THEN Found(i, ReportByData(rs, rs[i].len, 1))
                  ELSE \A extra \in 0 .. 1 :
                          \/ \E j \in DOMAIN rs : rs[j].id = 0
                          \/ Found(i, ReportByData(rs, rs[i].len + 1 + extra, rs[i].id))

\* A read or a write by service, id and type reaches the report that discovery
\* found with them and no other, whatever became of the maps (nimble_hidh.c:851,
\* 867), if the device gives them once.
IdFindsReport ==
    pc = "idle" => \A i \in DOMAIN rpts :
        LET r == Listed(device)[i]
            Same(q) == q.proto = "REPORT" /\ q.map = r.map /\ q.id = r.id /\ q.type = r.type
        IN r.proto = "REPORT" /\ (\A j \in DOMAIN rpts : Same(Listed(device)[j]) => j = i)
           => ReportByIdAndType(rpts, r.map, r.id, r.type) = i

\* The look-ups by which reports are received and requested: see the two parts.
ReportsAreFound == DataFindsReport /\ IdFindsReport
=============================================================================
