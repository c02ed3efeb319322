------------------------------- MODULE OspfConfig -------------------------------
(***************************************************************************)
(* The OSPF part of the configuration (config/ospf.go): parseOSPFConfig    *)
(* with everything it calls, and InterfaceConfigs.                         *)
(*                                                                         *)
(* A document is what the YAML decoder hands over: nested maps, which the  *)
(* code goes through in Go's random order.  The settings cost,             *)
(* hello-interval and dead-interval are treated alike on all three levels  *)
(* (protocol, area, interface) and differ in their upper limit.  A number  *)
(* is converted to the limit's width once it has passed the range check;   *)
(* 0 stands for a setting that is to be inherited.  A map with an unknown  *)
(* key, and something else where a map has to be, are called broken.       *)
(*                                                                         *)
(* parseID is the function IdOf: several names, such as 0 and 0.0.0.0, can *)
(* have the same id, and a name can have none.                             *)
(***************************************************************************)
EXTENDS Integers, FiniteSets

CONSTANTS Settings,    \* the names of the settings
          Limit,       \* Limit[x]: the largest value of setting x
          Default,     \* Default[x]: its value if nobody sets it
          Names,       \* strings that are used as ids
          Ids,         \* the ids of routers and areas
          IdOf,        \* parseID: IdOf[n] is an id, or BadId
          BadId,
          Backbone,    \* the id 0
          Interfaces,  \* the names of network interfaces
          Unset,       \* the document says nothing of a setting
          NotInt,      \* it gives something that is no integer
          Documents    \* the documents that may be parsed

ASSUME SettingsAssumption ==
    /\ Limit \in [Settings -> Nat]
    /\ Default \in [Settings -> Nat]
    /\ \A x \in Settings : Default[x] \in 1 .. Limit[x]
ASSUME IdsAssumption ==
    /\ IdOf \in [Names -> Ids \cup {BadId}]
    /\ BadId \notin Ids
    /\ Backbone \in Ids
ASSUME RawAssumption == Unset \notin Int \cup {NotInt} /\ NotInt \notin Int

Raw == Int \cup {Unset, NotInt}

\* What the decoder hands over for the settings of one level.
SettingsDocs == [Settings -> Raw]

ASSUME NamesAssumption ==
    /\ Unset \notin Names /\ NotInt \notin Names
    /\ "router-id" \notin Settings
ASSUME DocumentsAssumption ==
    \A d \in Documents :
        /\ d.broken \in BOOLEAN /\ d.settings \in SettingsDocs
        /\ d.routerID \in Names \cup {Unset, NotInt}
        /\ DOMAIN d.areas \subseteq Names
        /\ \A n \in DOMAIN d.areas :
              /\ d.areas[n].broken \in BOOLEAN /\ d.areas[n].settings \in SettingsDocs
              /\ DOMAIN d.areas[n].interfaces \subseteq Interfaces
              /\ \A i \in DOMAIN d.areas[n].interfaces :
                    /\ d.areas[n].interfaces[i].broken \in BOOLEAN
                    /\ d.areas[n].interfaces[i].settings \in SettingsDocs

VARIABLES
    doc,        \* the document
    status,     \* where the parser is
    keys,       \* the settings of the document its loop has still to do
    areaKeys,   \* the areas the loop has still to do
    c,          \* the OSPFConfig
    inherit,    \* the areas whose defaults are still to be set
    collect,    \* the areas InterfaceConfigs has still to do
    configs     \* the result of InterfaceConfigs

vars == <<doc, status, keys, areaKeys, c, inherit, collect, configs>>

--------------------------------------------------------------------------------
(* One id, one setting, one interface, one area.                             *)

ParseID(name) == IdOf[name]

\* v < 1, v > math.MaxUint16 or math.MaxUint32, or not an int.
InRange_NoUpper(x, v) == v # NotInt /\ 1 <= v
InRange(x, v) == v # NotInt /\ 1 <= v /\ v <= Limit[x]

\* uint16(v) or uint32(v).
Convert(x, v) == v % (Limit[x] + 1)

Given(settings) == {x \in Settings : settings[x] # Unset}

ValidSettings(settings) == \A x \in Given(settings) : InRange(x, settings[x])

\* The settings as parseAreaConfig and parseInterfaceConfig leave them.
ParsedSettings(settings) ==
    [x \in Settings |-> IF x \in Given(settings) THEN Convert(x, settings[x]) ELSE 0]

ValidInterface(i) == ~i.broken /\ ValidSettings(i.settings)

ParseInterfaceConfig(name, i) ==
    [areaID |-> ParseID(name), settings |-> ParsedSettings(i.settings)]

ValidArea(area) ==
    /\ ~area.broken
    /\ ValidSettings(area.settings)
    /\ \A i \in DOMAIN area.interfaces : ValidInterface(area.interfaces[i])

ParseAreaConfig(name, area) ==
    [settings |-> ParsedSettings(area.settings),
     interfaces |-> [i \in DOMAIN area.interfaces |->
                        ParseInterfaceConfig(name, area.interfaces[i])]]

\* What is 0 is taken from the level above.
Inherit(settings, above) ==
    [x \in Settings |-> IF settings[x] = 0 THEN above[x] ELSE settings[x]]

\* OSPFAreaConfig.setDefaults: first the area, then its interfaces.
WithDefaults_InterfacesFirst(area, above) ==
    [settings |-> Inherit(area.settings, above),
     interfaces |-> [i \in DOMAIN area.interfaces |->
         [area.interfaces[i] EXCEPT !.settings = Inherit(@, area.settings)]]]
WithDefaults(area, above) ==
    LET settings == Inherit(area.settings, above)
    IN  [settings |-> settings,
         interfaces |-> [i \in DOMAIN area.interfaces |->
             [area.interfaces[i] EXCEPT !.settings = Inherit(@, settings)]]]

--------------------------------------------------------------------------------
(* parseOSPFConfig                                                           *)

NoRouterID == Backbone

Init ==
    /\ doc \in Documents
    /\ status = "parse"
    /\ keys = Given(doc.settings) \cup (IF doc.routerID = Unset THEN {} ELSE {"router-id"})
    /\ areaKeys = DOMAIN doc.areas
    /\ c = [routerID |-> NoRouterID, settings |-> Default, areas |-> [id \in {} |-> {}]]
    /\ inherit = {}
    /\ collect = {}
    /\ configs = [i \in {} |-> {}]

\* return nil, err
Fail ==
    /\ status' = "failed"
    /\ UNCHANGED <<doc, keys, areaKeys, c, inherit, collect, configs>>

ParseUnknownKey ==
    /\ status = "parse"
    /\ doc.broken
    /\ Fail

\* A string goes through parseID; an integer in range is a name of its id, and
\* one out of range is a name without an id.
ParseRouterID ==
    /\ status = "parse"
    /\ "router-id" \in keys
    /\ IF doc.routerID = NotInt \/ ParseID(doc.routerID) = BadId
       THEN Fail
       ELSE /\ c' = [c EXCEPT !.routerID = ParseID(doc.routerID)]
            /\ keys' = keys \ {"router-id"}
            /\ UNCHANGED <<doc, status, areaKeys, inherit, collect, configs>>

ParseSetting(x) ==
    /\ status = "parse"
    /\ x \in keys
    /\ IF ~InRange(x, doc.settings[x])
       THEN Fail
       ELSE /\ c' = [c EXCEPT !.settings[x] = Convert(x, doc.settings[x])]
            /\ keys' = keys \ {x}
            /\ UNCHANGED <<doc, status, areaKeys, inherit, collect, configs>>

\* c.Areas[id] = *ac, over what another name of the same area has left there.
SetArea(areas, id, area) ==
    [k \in DOMAIN areas \cup {id} |-> IF k = id THEN area ELSE areas[k]]

ParseArea(n) ==
    /\ status = "parse"
    /\ n \in areaKeys
    /\ IF ParseID(n) = BadId \/ ~ValidArea(doc.areas[n])
       THEN Fail
       ELSE /\ c' = [c EXCEPT !.areas =
                        SetArea(@, ParseID(n), ParseAreaConfig(n, doc.areas[n]))]
            /\ areaKeys' = areaKeys \ {n}
            /\ UNCHANGED <<doc, status, keys, inherit, collect, configs>>

ParseEnd ==
    /\ status = "parse"
    /\ ~doc.broken
    /\ keys = {} /\ areaKeys = {}
    /\ status' = "defaults"
    /\ inherit' = DOMAIN c.areas
    /\ UNCHANGED <<doc, keys, areaKeys, c, collect, configs>>

\* The loop over c.Areas.
SetDefaults(id) ==
    /\ status = "defaults"
    /\ id \in inherit
    /\ inherit' = inherit \ {id}
    /\ c' = [c EXCEPT !.areas[id] = WithDefaults(@, c.settings)]
    /\ UNCHANGED <<doc, status, keys, areaKeys, collect, configs>>

CheckBackbone ==
    /\ status = "defaults"
    /\ inherit = {}
    /\ IF Backbone \notin DOMAIN c.areas
       THEN Fail
       ELSE /\ status' = "collect"
            /\ collect' = DOMAIN c.areas
            /\ UNCHANGED <<doc, keys, areaKeys, c, inherit, configs>>

--------------------------------------------------------------------------------
(* InterfaceConfigs, which an OSPF instance calls for every update.          *)

CollectArea(id) ==
    /\ status = "collect"
    /\ id \in collect
    /\ collect' = collect \ {id}
    /\ LET new == c.areas[id].interfaces
       IN  configs' = [i \in DOMAIN configs \cup DOMAIN new |->
                          IF i \in DOMAIN new THEN new[i] ELSE configs[i]]
    /\ UNCHANGED <<doc, status, keys, areaKeys, c, inherit>>

CollectEnd ==
    /\ status = "collect"
    /\ collect = {}
    /\ status' = "done"
    /\ UNCHANGED <<doc, keys, areaKeys, c, inherit, collect, configs>>

ParseStep ==
    \/ ParseUnknownKey \/ ParseRouterID
    \/ \E x \in Settings : ParseSetting(x)
    \/ \E n \in Names : ParseArea(n)
    \/ ParseEnd

Next ==
    \/ ParseStep
    \/ \E id \in Ids : SetDefaults(id)
    \/ CheckBackbone
    \/ \E id \in Ids : CollectArea(id)
    \/ CollectEnd

Spec == Init /\ [][Next]_vars

--------------------------------------------------------------------------------
(* Properties                                                                *)

Levels == [Settings -> Nat]

TypeOK ==
    /\ doc \in Documents
    /\ status \in {"parse", "defaults", "collect", "done", "failed"}
    /\ keys \subseteq Given(doc.settings) \cup {"router-id"}
    /\ "router-id" \in keys => doc.routerID # Unset
    /\ areaKeys \subseteq DOMAIN doc.areas
    /\ DOMAIN c = {"routerID", "settings", "areas"}
    /\ c.routerID \in Ids /\ c.settings \in Levels /\ DOMAIN c.areas \subseteq Ids
    /\ inherit \subseteq DOMAIN c.areas /\ collect \subseteq DOMAIN c.areas

\* There is something in document d that must not be accepted: stated from the
\* document alone, without the parser's own checks.
BadSettings(settings) ==
    \E x \in Settings : settings[x] # Unset /\ settings[x] \notin 1 .. Limit[x]
BadID(r) == r = NotInt \/ (r \in Names /\ IdOf[r] = BadId)
Defective(d) ==
    \/ d.broken \/ BadSettings(d.settings) \/ BadID(d.routerID)
    \/ \E n \in DOMAIN d.areas :
          \/ BadID(n) \/ d.areas[n].broken \/ BadSettings(d.areas[n].settings)
          \/ \E i \in DOMAIN d.areas[n].interfaces :
                LET interface == d.areas[n].interfaces[i]
                IN  interface.broken \/ BadSettings(interface.settings)
    \/ \A n \in DOMAIN d.areas : IdOf[n] # Backbone

\* The parser's verdict does not depend on the order it goes through the maps:
\* a document is refused if and only if it has a defect, however deep.
VerdictIsDocument ==
    /\ status = "failed" => Defective(doc)
    /\ status \in {"collect", "done"} => ~Defective(doc)

\* The value that setting x of interface i in area n should have: the innermost
\* one that is given.
Nearest(n, i, x) ==
    LET area == doc.areas[n]
        own == area.interfaces[i].settings[x]
    IN  IF own # Unset THEN own
        ELSE IF area.settings[x] # Unset THEN area.settings[x]
        ELSE IF doc.settings[x] # Unset THEN doc.settings[x]
        ELSE Default[x]

\* conf is what area n of the document says of interface i.
ConfiguredBy(conf, n, i) ==
    /\ i \in DOMAIN doc.areas[n].interfaces
    /\ conf.areaID = IdOf[n]
    /\ \A x \in Settings : conf.settings[x] = Nearest(n, i, x)

\* Every interface of the result has the innermost setting of one area of the
\* document that names it, whatever the order of the maps, and no interface of
\* the document gets lost, except one that only another name of an area that
\* is configured twice has.  So if no area has two names and no interface two
\* areas in the document, the result does not depend on the order at all.
SettingsAreNearest ==
    status = "done" =>
        /\ \A i \in DOMAIN configs :
              \E n \in DOMAIN doc.areas : ConfiguredBy(configs[i], n, i)
        /\ \A n \in DOMAIN doc.areas : \A i \in DOMAIN doc.areas[n].interfaces :
              \/ i \in DOMAIN configs
              \/ \E m \in DOMAIN doc.areas : m # n /\ IdOf[m] = IdOf[n]

================================================================================
