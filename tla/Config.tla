------------------------------- MODULE Config -------------------------------
(***************************************************************************)
(* The configuration file (internal/config): Load decodes it, normalizes   *)
(* it, fills in defaults and validates it, collecting every problem before *)
(* it refuses the file.                                                    *)
(*                                                                         *)
(* A step is one stage of parse, one section of Validate, or one round of  *)
(* the loops over EVSEs and their connectors, which remember in maps what  *)
(* they have seen.  A problem is the path it is reported at.               *)
(*                                                                         *)
(* Data.  A text is "" or "blank" (only spaces), "good", "bad" (refused by *)
(* the field's pattern or list), or the name of a value where two fields   *)
(* are compared.  Durations are counted in half seconds.  A bind address   *)
(* is a host and a port; all spellings of the wildcard are the host "any". *)
(***************************************************************************)
EXTENDS Integers, Sequences

Second == 2

\* Fields checked on their own.
Optional == {"charger.ip"}
Patterned ==
    {"charger.id", "charger.ocpp_version", "auth.default_id_tag",
     "ocpi.country_code", "ocpi.party_id", "ocpi.public_base_url",
     "location.id", "location.country", "location.latitude", "location.longitude"}
Free == {"location.address", "location.city"}
PlainFields == Optional \cup Patterned \cup Free

Section(name) ==
    IF name = "charger" THEN {"charger.id", "charger.ip", "charger.ocpp_version"}
    ELSE IF name = "auth" THEN {"auth.default_id_tag"}
    ELSE IF name = "ocpi"
      THEN {"ocpi.country_code", "ocpi.party_id", "ocpi.public_base_url"}
      ELSE {"location.id", "location.address", "location.city", "location.country",
            "location.latitude", "location.longitude"}

DurationFields == {"interval", "timeout", "call", "debounce"}
BindFields  == {"ocpp", "ocpi"}
TokenFields == {"token_a", "token_c"}

\* How a duration was written: "unset", "junk", "tree" (not a scalar) or "ok".
Duration(kind, value) == [kind |-> kind, value |-> value]

CONSTANTS
    Texts,      \* what a text can be
    Inputs      \* the files to look at

Connectors ==
    [id : Texts, standard : Texts, format : Texts, power_type : Texts,
     max_voltage : Int, max_amperage : Int, max_electric_power : Int]

EVSEs ==
    [uid : Texts, evse_id : Texts, connector : Int, connectors : Seq(Connectors)]

Durations == [kind : {"unset", "junk", "tree", "ok"}, value : Int]

Configs ==
    [file : Texts,
     plain : [PlainFields -> Texts],
     durations : [DurationFields -> Durations],
     binds : [BindFields -> [text : Texts, host : Texts, port : Int]],
     tokens : [TokenFields -> Texts],
     retries : Int,
     evses : Seq(EVSEs)]

\* Texts holds what Load writes into the fields itself.
ASSUME InputsAssumption ==
    /\ {"", "good", "any"} \subseteq Texts
    /\ \A input \in Inputs : input \in Configs

\* Where a problem is: a field, and the EVSE and the connector it belongs to.
Problem(field, i, j) == [field |-> field, evse |-> i, connector |-> j]
At(field) == Problem(field, 0, 0)

VARIABLES
    cfg,        \* the Config being loaded
    pc,         \* where parse is
    i, j,       \* the loops of validateLocation and validateConnectors
    seenUID, seenEVSEID, seenConnectorID,   \* the maps of validateLocation
    seen,       \* the map of validateConnectors
    errs        \* validator.errs

maps == <<seenUID, seenEVSEID, seenConnectorID, seen>>
loadVars == <<cfg, pc, i, j, maps, errs>>

Init ==
    /\ cfg \in Inputs
    /\ pc = "decode"
    /\ i = 1
    /\ j = 1
    /\ seenUID = {}
    /\ seenEVSEID = {}
    /\ seenConnectorID = {}
    /\ seen = {}
    /\ errs = {}

Goto(from, to) == pc = from /\ pc' = to

-----------------------------------------------------------------------------
(***************************************************************************)
(* parse, before validation.                                               *)
(***************************************************************************)
\* Duration.UnmarshalYAML: a node that is not a scalar leaves the text empty.
UnmarshalYAML(d) == IF d.kind = "tree" THEN Duration("unset", 0) ELSE d

\* What the decoder refuses: an empty file, an unknown field, a wrong type, a
\* syntax error, a second document.  The problem is where the error text says.
yamlErrors(file) == {At(file)}

\* Nothing else is looked at then.
decode ==
    /\ pc = "decode"
    /\ \/ /\ cfg.file = "ok"
          /\ cfg' = [cfg EXCEPT !.durations =
                        [d \in DurationFields |-> UnmarshalYAML(cfg.durations[d])]]
          /\ pc' = "normalize"
          /\ UNCHANGED errs
       \/ /\ cfg.file # "ok"
          /\ errs' = yamlErrors(cfg.file)
          /\ pc' = "refused"
          /\ UNCHANGED cfg
    /\ UNCHANGED <<i, j, maps>>

Trim(text) == IF text = "blank" THEN "" ELSE text

normalizeConnector(c) ==
    [c EXCEPT !.id = Trim(@), !.standard = Trim(@), !.format = Trim(@), !.power_type = Trim(@)]

normalizeEVSE(e) ==
    [e EXCEPT !.uid = Trim(@), !.evse_id = Trim(@),
              !.connectors = [n \in DOMAIN e.connectors |-> normalizeConnector(e.connectors[n])]]

\* Address and city are not trimmed.
normalize ==
    /\ Goto("normalize", "defaults")
    /\ cfg' = [cfg EXCEPT
          !.plain = [f \in PlainFields |-> IF f \in Free THEN cfg.plain[f] ELSE Trim(cfg.plain[f])],
          !.binds = [b \in BindFields |-> [cfg.binds[b] EXCEPT !.text = Trim(@)]],
          !.tokens = [t \in TokenFields |-> Trim(cfg.tokens[t])],
          !.evses = [n \in DOMAIN cfg.evses |-> normalizeEVSE(cfg.evses[n])]]
    /\ UNCHANGED <<i, j, maps, errs>>

DefaultDuration ==
    [interval |-> 60 * Second, timeout |-> 90 * Second, call |-> 30 * Second, debounce |-> 1]
DefaultBind ==
    [ocpp |-> [text |-> "good", host |-> "any", port |-> 9000],
     ocpi |-> [text |-> "good", host |-> "any", port |-> 8080]]
DefaultPushMaxRetries == 5

applyDefaults ==
    /\ Goto("defaults", "charger")
    /\ cfg' = [cfg EXCEPT
          !.durations = [d \in DurationFields |->
              IF cfg.durations[d].kind = "unset"
                THEN Duration("ok", DefaultDuration[d])
                ELSE cfg.durations[d]],
          !.plain = [cfg.plain EXCEPT !["charger.ocpp_version"] = IF @ = "" THEN "good" ELSE @],
          !.binds = [b \in BindFields |->
              IF cfg.binds[b].text = "" THEN DefaultBind[b] ELSE cfg.binds[b]],
          !.retries = IF @ = 0 THEN DefaultPushMaxRetries ELSE @]
    /\ UNCHANGED <<i, j, maps, errs>>

-----------------------------------------------------------------------------
(***************************************************************************)
(* Validate.                                                               *)
(***************************************************************************)
required(text) == text \notin {"", "blank"}

\* A field's pattern, list, range or shape of a host name is not met.
refused(text) == text = "bad"

\* The problems with the plain fields of a section.
plainErrors(name) ==
    {At(f) : f \in {g \in Section(name) :
        \/ g \notin Optional /\ ~required(cfg.plain[g])
        \/ g \notin Free /\ refused(cfg.plain[g])}}

\* Duration.parse succeeds and the value is above zero.
positiveDuration(d) == cfg.durations[d].kind = "ok" /\ cfg.durations[d].value > 0

Add(problems) == errs' = errs \cup problems

validateCharger ==
    /\ Goto("charger", "server")
    /\ Add(plainErrors("charger")
           \cup {At(d) : d \in {x \in {"interval", "timeout", "call"} : ~positiveDuration(x)}}
           \cup IF /\ positiveDuration("interval")
                   /\ positiveDuration("timeout")
                   /\ cfg.durations["timeout"].value <= cfg.durations["interval"].value
                  THEN {At("timeout")} ELSE {})
    /\ UNCHANGED <<cfg, i, j, maps>>

\* The address splits, its port is one that can be dialled, its host a name.
validateBind(b) ==
    /\ required(b.text)
    /\ ~refused(b.text)
    /\ b.port \in 1 .. 65535
    /\ ~refused(b.host)

\* Two listeners collide on a port if they share a host or one is a wildcard.
validateServer ==
    LET ocpp == cfg.binds["ocpp"]
        ocpi == cfg.binds["ocpi"]
    IN  /\ Goto("server", "auth")
        /\ Add({At(b) : b \in {x \in BindFields : ~validateBind(cfg.binds[x])}}
               \cup IF /\ validateBind(ocpp)
                       /\ validateBind(ocpi)
                       /\ ocpp.port = ocpi.port
                       /\ ocpp.host = ocpi.host \/ "any" \in {ocpp.host, ocpi.host}
                      THEN {At("ocpi")} ELSE {})
        /\ UNCHANGED <<cfg, i, j, maps>>

validateAuth ==
    /\ Goto("auth", "ocpi")
    /\ Add(plainErrors("auth"))
    /\ UNCHANGED <<cfg, i, j, maps>>

\* "short" stands for a token below minTokenLen, "spaced" for one with spaces.
validateToken(token) == required(token) /\ token \notin {"short", "spaced"}

validateOCPI ==
    /\ Goto("ocpi", "location")
    /\ Add(plainErrors("ocpi")
           \cup {At(t) : t \in {x \in TokenFields : ~validateToken(cfg.tokens[x])}}
           \cup (IF cfg.tokens["token_a"] # "" /\ cfg.tokens["token_a"] = cfg.tokens["token_c"]
                   THEN {At("token_c")} ELSE {})
           \cup (IF cfg.durations["debounce"].kind # "ok" \/ cfg.durations["debounce"].value < 0
                   THEN {At("debounce")} ELSE {})
           \cup (IF cfg.retries < 0 THEN {At("max_retries")} ELSE {}))
    /\ UNCHANGED <<cfg, i, j, maps>>

Decided(problems) == IF problems = {} THEN "loaded" ELSE "refused"

\* validateLocation, up to its loop.
validateLocation ==
    /\ pc = "location"
    /\ Add(plainErrors("location")
           \cup IF cfg.evses = <<>> THEN {At("location.evses")} ELSE {})
    /\ pc' = IF cfg.evses = <<>> THEN Decided(errs') ELSE "evse"
    /\ UNCHANGED <<cfg, i, j, maps>>

\* Mutant of validateEVSE: the connector id is not remembered.
validateEVSEForgets ==
    LET e == cfg.evses[i]
    IN  /\ pc = "evse"
        /\ Add((IF ~required(e.uid) \/ e.uid = "long" \/ e.uid \in seenUID
                  THEN {Problem("uid", i, 0)} ELSE {})
               \cup (IF ~required(e.evse_id) \/ refused(e.evse_id) \/ e.evse_id \in seenEVSEID
                       THEN {Problem("evse_id", i, 0)} ELSE {})
               \cup (IF e.connector < 1 \/ e.connector \in seenConnectorID
                       THEN {Problem("ocpp_connector_id", i, 0)} ELSE {})
               \cup (IF e.connectors = <<>> THEN {Problem("connectors", i, 0)} ELSE {}))
        /\ seenUID' = IF required(e.uid) THEN seenUID \cup {e.uid} ELSE seenUID
        /\ seenEVSEID' = IF required(e.evse_id) THEN seenEVSEID \cup {e.evse_id} ELSE seenEVSEID
        /\ seen' = {}
        /\ j' = 1
        /\ pc' = "connector"
        /\ UNCHANGED <<cfg, i, seenConnectorID>>

\* One round of the loop over the EVSEs, up to its call of validateConnectors.
validateEVSE ==
    LET e == cfg.evses[i]
    IN  /\ pc = "evse"
        /\ Add((IF ~required(e.uid) \/ e.uid = "long" \/ e.uid \in seenUID
                  THEN {Problem("uid", i, 0)} ELSE {})
               \cup (IF ~required(e.evse_id) \/ refused(e.evse_id) \/ e.evse_id \in seenEVSEID
                       THEN {Problem("evse_id", i, 0)} ELSE {})
               \cup (IF e.connector < 1 \/ e.connector \in seenConnectorID
                       THEN {Problem("ocpp_connector_id", i, 0)} ELSE {})
               \cup (IF e.connectors = <<>> THEN {Problem("connectors", i, 0)} ELSE {}))
        /\ seenUID' = IF required(e.uid) THEN seenUID \cup {e.uid} ELSE seenUID
        /\ seenEVSEID' = IF required(e.evse_id) THEN seenEVSEID \cup {e.evse_id} ELSE seenEVSEID
        /\ seenConnectorID' =
              IF e.connector >= 1 THEN seenConnectorID \cup {e.connector} ELSE seenConnectorID
        /\ seen' = {}
        /\ j' = 1
        /\ pc' = "connector"
        /\ UNCHANGED <<cfg, i>>

Rated(c) == {f \in {"standard", "format", "power_type"} : ~required(c[f]) \/ refused(c[f])}
Sized(c) == {f \in {"max_voltage", "max_amperage"} : c[f] <= 0}
            \cup IF c.max_electric_power < 0 THEN {"max_electric_power"} ELSE {}

\* Mutant of validateConnector: a connector without an id ends the check of it.
validateConnectorStops ==
    LET c == cfg.evses[i].connectors[j]
    IN  /\ pc = "connector"
        /\ j \in DOMAIN cfg.evses[i].connectors
        /\ Add(IF ~required(c.id) THEN {Problem("id", i, j)}
               ELSE (IF c.id \in seen THEN {Problem("id", i, j)} ELSE {})
                    \cup {Problem(f, i, j) : f \in Rated(c) \cup Sized(c)})
        /\ seen' = IF required(c.id) THEN seen \cup {c.id} ELSE seen
        /\ j' = j + 1
        /\ UNCHANGED <<cfg, pc, i, seenUID, seenEVSEID, seenConnectorID>>

\* One round of validateConnectors.
validateConnector ==
    LET c == cfg.evses[i].connectors[j]
    IN  /\ pc = "connector"
        /\ j \in DOMAIN cfg.evses[i].connectors
        /\ Add((IF ~required(c.id) \/ c.id \in seen THEN {Problem("id", i, j)} ELSE {})
               \cup {Problem(f, i, j) : f \in Rated(c) \cup Sized(c)})
        /\ seen' = IF required(c.id) THEN seen \cup {c.id} ELSE seen
        /\ j' = j + 1
        /\ UNCHANGED <<cfg, pc, i, seenUID, seenEVSEID, seenConnectorID>>

\* validateConnectors returns: the next EVSE, or the verdict.
validated ==
    /\ pc = "connector"
    /\ j \notin DOMAIN cfg.evses[i].connectors
    /\ i' = i + 1
    /\ pc' = IF i + 1 \in DOMAIN cfg.evses THEN "evse" ELSE Decided(errs)
    /\ UNCHANGED <<cfg, j, maps, errs>>

Load ==
    \/ decode \/ normalize \/ applyDefaults
    \/ validateCharger \/ validateServer \/ validateAuth \/ validateOCPI
    \/ validateLocation \/ validateEVSE \/ validateConnector \/ validated

-----------------------------------------------------------------------------
(***************************************************************************)
(* Lookups in a loaded Config: the first EVSE that matches.                *)
(***************************************************************************)
First(S) == {n \in S : \A m \in S : n <= m}

EVSEByUID(uid) == First({n \in DOMAIN cfg.evses : cfg.evses[n].uid = uid})

EVSEByConnectorID(id) == First({n \in DOMAIN cfg.evses : cfg.evses[n].connector = id})

-----------------------------------------------------------------------------
(***************************************************************************)
(* Properties.                                                             *)
(***************************************************************************)
\* What the rest of the program takes for granted of a loaded Config.
\* EVSE: "The mapping is explicit here so that nothing anywhere else has to
\* guess it": every EVSE is found by its uid and by its connector, and no
\* connector is the station's own.
AddressingUsable ==
    /\ cfg.evses # <<>>
    /\ \A n \in DOMAIN cfg.evses :
          /\ cfg.evses[n].connector >= 1
          /\ EVSEByUID(cfg.evses[n].uid) = {n}
          /\ EVSEByConnectorID(cfg.evses[n].connector) = {n}

\* The durations are parsed, a station that keeps the interval is given longer
\* than that, and the two listeners can be open at once.
TimingUsable ==
    /\ \A d \in DurationFields : cfg.durations[d].kind = "ok"
    /\ 0 < cfg.durations["interval"].value
    /\ cfg.durations["interval"].value < cfg.durations["timeout"].value
    /\ 0 < cfg.durations["call"].value
    /\ cfg.binds["ocpp"].port = cfg.binds["ocpi"].port =>
          /\ cfg.binds["ocpp"].host # cfg.binds["ocpi"].host
          /\ "any" \notin {cfg.binds["ocpp"].host, cfg.binds["ocpi"].host}

\* Validate returns nil only "if the config is usable": whatever combination of
\* omissions, defaults, blanks and duplicates a file holds, a Config that Load
\* returns meets what the server, the core and the command adapter rely on.
LoadedIsUsable == pc = "loaded" => AddressingUsable /\ TimingUsable

EVSEBefore(n) == {cfg.evses[m] : m \in 1 .. n - 1}

ConnectorBefore(n, k) == {cfg.evses[n].connectors[l] : l \in 1 .. k - 1}

\* The problems of an EVSE and of a connector, stated without loops and maps:
\* a value is wrong by itself, or some earlier one has it already.
EVSEProblems(n) ==
    LET e == cfg.evses[n]
    IN  (IF e.uid \in {"", "long"} \/ \E d \in EVSEBefore(n) : d.uid = e.uid
           THEN {Problem("uid", n, 0)} ELSE {})
        \cup (IF e.evse_id \in {"", "bad"} \/ \E d \in EVSEBefore(n) : d.evse_id = e.evse_id
                THEN {Problem("evse_id", n, 0)} ELSE {})
        \cup (IF e.connector < 1 \/ \E d \in EVSEBefore(n) : d.connector = e.connector
                THEN {Problem("ocpp_connector_id", n, 0)} ELSE {})
        \cup (IF e.connectors = <<>> THEN {Problem("connectors", n, 0)} ELSE {})

ConnectorProblems(n, k) ==
    LET c == cfg.evses[n].connectors[k]
    IN  {Problem(f, n, k) : f \in Rated(c) \cup Sized(c)}
        \cup IF c.id = "" \/ \E d \in ConnectorBefore(n, k) : d.id = c.id
               THEN {Problem("id", n, k)} ELSE {}

Problems(n) ==
    EVSEProblems(n)
    \cup UNION {ConnectorProblems(n, k) : k \in DOMAIN cfg.evses[n].connectors}

\* "Validation does not stop at the first failure": of a file that is refused
\* after validation, every EVSE and connector that has a problem is reported,
\* duplicates of values that are themselves wrong included, and no other.
AllProblemsReported ==
    (pc \in {"loaded", "refused"} /\ cfg.file = "ok") =>
        {p \in errs : p.evse > 0} = UNION {Problems(n) : n \in DOMAIN cfg.evses}
=============================================================================
