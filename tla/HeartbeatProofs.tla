-------------------------- MODULE HeartbeatProofs --------------------------
(***************************************************************************)
(* What holds of every file that can be written and of every station, not  *)
(* only of the files and the times TLC goes through: what Load promises of *)
(* the Config it returns and of the problems it reports, and how the read  *)
(* deadline treats stations that are silent and stations that are not.     *)
(***************************************************************************)
EXTENDS Heartbeat, FiniteSetTheorems, TLAPS

USE HeartbeatAssumption

-----------------------------------------------------------------------------
(***************************************************************************)
(* Types.                                                                  *)
(***************************************************************************)
\* The stages of parse up to the end of the sections of Validate, the loops,
\* and what comes after Load.
Sections == {"decode", "normalize", "defaults", "charger", "server", "auth", "ocpi", "location"}
Loops == {"evse", "connector"}
Up == {"loaded", "serving", "dropped", "closed"}

\* The Config keeps its shape while it is normalized and completed.
LoadTypeOK ==
    /\ cfg \in Configs
    /\ pc \in Sections \cup Loops \cup Up \cup {"refused"}
    /\ i \in Nat \ {0}
    /\ j \in Nat \ {0}

LEMMA TextsFacts == "" \in Texts /\ "good" \in Texts /\ "any" \in Texts
BY InputsAssumption

LEMMA TrimType == ASSUME NEW t \in Texts PROVE Trim(t) \in Texts
BY TextsFacts DEF Trim

LEMMA NormalizeConnectorType ==
    ASSUME NEW c \in Connectors PROVE normalizeConnector(c) \in Connectors
BY TrimType DEF normalizeConnector, Connectors

LEMMA NormalizeEVSEType ==
    ASSUME NEW e \in EVSEs PROVE normalizeEVSE(e) \in EVSEs
<1>1. [n \in DOMAIN e.connectors |-> normalizeConnector(e.connectors[n])] \in Seq(Connectors)
  BY NormalizeConnectorType DEF EVSEs
<1> QED
  BY <1>1, TrimType DEF normalizeEVSE, EVSEs

LEMMA DefaultDurationType ==
    ASSUME NEW d \in DurationFields
    PROVE  Duration("ok", DefaultDuration[d]) \in Durations
<1>1. DefaultDuration[d] \in Int
  BY DEF DurationFields, DefaultDuration, Second
<1> QED
  BY <1>1 DEF Duration, Durations

LEMMA DefaultBindType ==
    ASSUME NEW b \in BindFields
    PROVE  DefaultBind[b] \in [text : Texts, host : Texts, port : Int]
<1>1. \A p \in Int :
         [text |-> "good", host |-> "any", port |-> p] \in [text : Texts, host : Texts, port : Int]
  BY TextsFacts
<1>2. DefaultBind["ocpp"] = [text |-> "good", host |-> "any", port |-> 9000]
  BY DEF DefaultBind
<1>3. DefaultBind["ocpi"] = [text |-> "good", host |-> "any", port |-> 8080]
  BY DEF DefaultBind
<1>4. b = "ocpp" \/ b = "ocpi"
  BY DEF BindFields
<1> QED
  BY <1>1, <1>2, <1>3, <1>4

\* Loading a file keeps the shape of the Config.
LEMMA LoadType ==
    ASSUME LoadTypeOK, Load
    PROVE  LoadTypeOK'
<1>1. CASE decode
  <2>1. \A d \in Durations : UnmarshalYAML(d) \in Durations
    BY DEF UnmarshalYAML, Durations, Duration
  <2>2. [d \in DurationFields |-> UnmarshalYAML(cfg.durations[d])] \in [DurationFields -> Durations]
    BY <2>1 DEF LoadTypeOK, Configs
  <2>3. cfg' \in Configs
    BY <1>1, <2>2 DEF decode, LoadTypeOK, Configs
  <2> QED
    BY <1>1, <2>3 DEF decode, LoadTypeOK, Sections
<1>2. CASE normalize
  <2>1. [f \in PlainFields |-> IF f \in Free THEN cfg.plain[f] ELSE Trim(cfg.plain[f])]
          \in [PlainFields -> Texts]
    BY TrimType DEF LoadTypeOK, Configs
  <2>2. [b \in BindFields |-> [cfg.binds[b] EXCEPT !.text = Trim(@)]]
          \in [BindFields -> [text : Texts, host : Texts, port : Int]]
    BY TrimType DEF LoadTypeOK, Configs
  <2>3. [t \in TokenFields |-> Trim(cfg.tokens[t])] \in [TokenFields -> Texts]
    BY TrimType DEF LoadTypeOK, Configs
  <2>4. [n \in DOMAIN cfg.evses |-> normalizeEVSE(cfg.evses[n])] \in Seq(EVSEs)
    <3>1. cfg.evses \in Seq(EVSEs)
      BY DEF LoadTypeOK, Configs
    <3>2. \A n \in DOMAIN cfg.evses : normalizeEVSE(cfg.evses[n]) \in EVSEs
      BY <3>1, NormalizeEVSEType
    <3> QED
      BY <3>1, <3>2
  <2>5. cfg' \in Configs
    BY <1>2, <2>1, <2>2, <2>3, <2>4 DEF normalize, LoadTypeOK, Configs
  <2> QED
    BY <1>2, <2>5 DEF normalize, Goto, LoadTypeOK, Sections
<1>3. CASE applyDefaults
  <2>1. [d \in DurationFields |->
           IF cfg.durations[d].kind = "unset"
             THEN Duration("ok", DefaultDuration[d])
             ELSE cfg.durations[d]] \in [DurationFields -> Durations]
    BY DefaultDurationType DEF LoadTypeOK, Configs
  <2>2. [cfg.plain EXCEPT !["charger.ocpp_version"] = IF @ = "" THEN "good" ELSE @]
          \in [PlainFields -> Texts]
    BY TextsFacts DEF LoadTypeOK, Configs
  <2>3. [b \in BindFields |->
           IF cfg.binds[b].text = "" THEN DefaultBind[b] ELSE cfg.binds[b]]
          \in [BindFields -> [text : Texts, host : Texts, port : Int]]
    BY DefaultBindType DEF LoadTypeOK, Configs
  <2>4. (IF cfg.retries = 0 THEN DefaultPushMaxRetries ELSE cfg.retries) \in Int
    BY DEF LoadTypeOK, Configs, DefaultPushMaxRetries
  <2>5. cfg' = [cfg EXCEPT
          !.durations = [d \in DurationFields |->
              IF cfg.durations[d].kind = "unset"
                THEN Duration("ok", DefaultDuration[d])
                ELSE cfg.durations[d]],
          !.plain = [cfg.plain EXCEPT !["charger.ocpp_version"] = IF @ = "" THEN "good" ELSE @],
          !.binds = [b \in BindFields |->
              IF cfg.binds[b].text = "" THEN DefaultBind[b] ELSE cfg.binds[b]],
          !.retries = IF cfg.retries = 0 THEN DefaultPushMaxRetries ELSE cfg.retries]
    BY <1>3 DEF applyDefaults, LoadTypeOK, Configs
  <2>6. cfg' \in Configs
    BY <2>1, <2>2, <2>3, <2>4, <2>5 DEF LoadTypeOK, Configs
  <2> QED
    BY <1>3, <2>6 DEF applyDefaults, Goto, LoadTypeOK, Sections
<1>4. CASE validateCharger
  BY <1>4 DEF validateCharger, Goto, LoadTypeOK, Sections
<1>5. CASE validateServer
  BY <1>5 DEF validateServer, Goto, LoadTypeOK, Sections
<1>6. CASE validateAuth
  BY <1>6 DEF validateAuth, Goto, LoadTypeOK, Sections
<1>7. CASE validateOCPI
  BY <1>7 DEF validateOCPI, Goto, LoadTypeOK, Sections
<1>8. CASE validateLocation
  BY <1>8 DEF validateLocation, Decided, LoadTypeOK, Sections, Loops, Up
<1>9. CASE validateEVSE
  BY <1>9 DEF validateEVSE, LoadTypeOK, Sections, Loops, Up
<1>10. CASE validateConnector
  BY <1>10 DEF validateConnector, LoadTypeOK, Sections, Loops, Up
<1>11. CASE validated
  BY <1>11 DEF validated, Decided, LoadTypeOK, Sections, Loops, Up
<1> QED
  BY <1>1, <1>2, <1>3, <1>4, <1>5, <1>6, <1>7, <1>8, <1>9, <1>10, <1>11 DEF Load

-----------------------------------------------------------------------------
(***************************************************************************)
(* What the sections of Validate leave behind, as long as nothing has been *)
(* reported.                                                               *)
(***************************************************************************)
DurationsChecked ==
    /\ \A d \in {"interval", "timeout", "call"} : positiveDuration(d)
    /\ cfg.durations["interval"].value < cfg.durations["timeout"].value

BindsChecked ==
    cfg.binds["ocpp"].port = cfg.binds["ocpi"].port =>
        /\ cfg.binds["ocpp"].host # cfg.binds["ocpi"].host
        /\ "any" \notin {cfg.binds["ocpp"].host, cfg.binds["ocpi"].host}

DebounceChecked == cfg.durations["debounce"].kind = "ok"

AfterCharger == {"server", "auth", "ocpi", "location"} \cup Loops \cup Up
AfterServer  == {"auth", "ocpi", "location"} \cup Loops \cup Up
AfterOCPI    == {"location"} \cup Loops \cup Up

CheckInv ==
    /\ pc \in Up => errs = {} /\ cfg.evses # <<>>
    /\ pc \in Loops => cfg.evses # <<>>
    /\ pc \in AfterCharger /\ errs = {} => DurationsChecked
    /\ pc \in AfterServer /\ errs = {} => BindsChecked
    /\ pc \in AfterOCPI /\ errs = {} => DebounceChecked

USE DEF Sections, Loops, Up, AfterCharger, AfterServer, AfterOCPI

\* A step of Validate past the first sections only adds problems.
LEMMA CheckStays ==
    ASSUME CheckInv, cfg' = cfg, errs = {} \/ errs' # {},
           pc' \in AfterCharger => pc \in AfterCharger,
           pc' \in AfterServer => pc \in AfterServer,
           pc' \in AfterOCPI => pc \in AfterOCPI,
           pc' \in Up => errs' = {} /\ cfg.evses # <<>>,
           pc' \in Loops => cfg.evses # <<>>
    PROVE  CheckInv'
BY DEF CheckInv, DurationsChecked, BindsChecked, DebounceChecked, positiveDuration

LEMMA LoadCheck ==
    ASSUME LoadTypeOK, CheckInv, Load
    PROVE  CheckInv'
<1>1. CASE decode
  BY <1>1 DEF decode, CheckInv
<1>2. CASE normalize
  BY <1>2 DEF normalize, Goto, CheckInv
<1>3. CASE applyDefaults
  BY <1>3 DEF applyDefaults, Goto, CheckInv
<1>4. CASE validateCharger
  <2>1. pc' = "server" /\ cfg' = cfg
    BY <1>4 DEF validateCharger, Goto
  <2>2. errs' = {} => DurationsChecked
    <3> SUFFICES ASSUME errs' = {} PROVE DurationsChecked
      OBVIOUS
    <3>1. \A d \in {"interval", "timeout", "call"} : positiveDuration(d)
      BY <1>4 DEF validateCharger, Add
    <3>2. ~(cfg.durations["timeout"].value <= cfg.durations["interval"].value)
      BY <1>4, <3>1 DEF validateCharger, Add
    <3>3. cfg.durations["timeout"].value \in Int /\ cfg.durations["interval"].value \in Int
      BY DEF LoadTypeOK, Configs, Durations, DurationFields
    <3> QED
      BY <3>1, <3>2, <3>3 DEF DurationsChecked
  <2> QED
    BY <2>1, <2>2 DEF CheckInv, DurationsChecked, positiveDuration
<1>5. CASE validateServer
  <2>1. pc = "server" /\ pc' = "auth" /\ cfg' = cfg
    BY <1>5 DEF validateServer, Goto
  <2>2. errs' = {} => errs = {}
    BY <1>5 DEF validateServer, Add
  <2>3. errs' = {} => BindsChecked
    <3> SUFFICES ASSUME errs' = {} PROVE BindsChecked
      OBVIOUS
    <3>1. \A b \in BindFields : validateBind(cfg.binds[b])
      BY <1>5 DEF validateServer, Add
    <3>2. validateBind(cfg.binds["ocpp"]) /\ validateBind(cfg.binds["ocpi"])
      BY <3>1 DEF BindFields
    <3> QED
      BY <1>5, <3>2 DEF validateServer, Add, BindsChecked
  <2> QED
    BY <2>1, <2>2, <2>3 DEF CheckInv, DurationsChecked, BindsChecked, positiveDuration
<1>6. CASE validateAuth
  <2>1. pc = "auth" /\ pc' = "ocpi" /\ cfg' = cfg /\ (errs' = {} => errs = {})
    BY <1>6 DEF validateAuth, Goto, Add
  <2> QED
    BY <2>1, CheckStays
<1>7. CASE validateOCPI
  <2>1. pc = "ocpi" /\ pc' = "location" /\ cfg' = cfg
    BY <1>7 DEF validateOCPI, Goto
  <2>2. errs' = {} => errs = {} /\ DebounceChecked
    BY <1>7 DEF validateOCPI, Add, DebounceChecked
  <2> QED
    BY <2>1, <2>2
    DEF CheckInv, DurationsChecked, BindsChecked, DebounceChecked, positiveDuration
<1>8. CASE validateLocation
  <2>1. pc = "location" /\ cfg' = cfg /\ (errs' = {} => errs = {})
    BY <1>8 DEF validateLocation, Add
  <2>2. cfg.evses = <<>> => errs' # {}
    BY <1>8 DEF validateLocation, Add
  <2>3. pc' \in {"evse", "loaded", "refused"} /\ (pc' = "loaded" => errs' = {} /\ cfg.evses = <<>>)
        /\ (pc' = "evse" => cfg.evses # <<>>)
    BY <1>8 DEF validateLocation, Decided
  <2> QED
    BY <2>1, <2>2, <2>3, CheckStays
<1>9. CASE validateEVSE
  <2>1. pc = "evse" /\ pc' = "connector" /\ cfg' = cfg /\ (errs' = {} => errs = {})
    BY <1>9 DEF validateEVSE, Add
  <2> QED
    BY <2>1, CheckStays DEF CheckInv
<1>10. CASE validateConnector
  <2>1. pc = "connector" /\ pc' = pc /\ cfg' = cfg /\ (errs' = {} => errs = {})
    BY <1>10 DEF validateConnector, Add
  <2> QED
    BY <2>1, CheckStays DEF CheckInv
<1>11. CASE validated
  <2>1. pc = "connector" /\ pc' \in {"evse", "loaded", "refused"} /\ cfg' = cfg /\ errs' = errs
        /\ (pc' = "loaded" => errs = {})
    BY <1>11 DEF validated, Decided
  <2> QED
    BY <2>1, CheckStays DEF CheckInv
<1> QED
  BY <1>1, <1>2, <1>3, <1>4, <1>5, <1>6, <1>7, <1>8, <1>9, <1>10, <1>11 DEF Load

-----------------------------------------------------------------------------
(***************************************************************************)
(* The loops over the EVSEs and their connectors: what the maps hold, and  *)
(* that the problems reported are those of the rounds that are done.       *)
(***************************************************************************)
Final == {"loaded", "refused"}

NoBlank ==
    \A n \in DOMAIN cfg.evses :
        /\ cfg.evses[n].uid # "blank"
        /\ cfg.evses[n].evse_id # "blank"
        /\ \A k \in DOMAIN cfg.evses[n].connectors : cfg.evses[n].connectors[k].id # "blank"

\* A map holds the values of the rounds that are done, save the missing ones.
RoundDone(n) == n < i \/ (n = i /\ pc = "connector")

SeenInv ==
    /\ \A u : u \in seenUID <=>
          required(u) /\ \E n \in DOMAIN cfg.evses : RoundDone(n) /\ cfg.evses[n].uid = u
    /\ \A u : u \in seenEVSEID <=>
          required(u) /\ \E n \in DOMAIN cfg.evses : RoundDone(n) /\ cfg.evses[n].evse_id = u
    /\ \A u : u \in seenConnectorID <=>
          \E n \in DOMAIN cfg.evses : RoundDone(n) /\ cfg.evses[n].connector = u /\ u >= 1

SeenHere ==
    \A u : u \in seen <=>
        required(u) /\ \E k \in 1 .. j - 1 : cfg.evses[i].connectors[k].id = u

ErrsOf(n) == {p \in errs : p.evse = n}

\* The problems that name an EVSE are those of the rounds that are done.
Reported ==
    /\ \A p \in errs : p.evse \in 0 .. Len(cfg.evses)
    /\ \A n \in DOMAIN cfg.evses :
          /\ n < i => ErrsOf(n) = Problems(n)
          /\ n = i /\ pc = "connector" =>
                /\ \A p \in ErrsOf(n) :
                      \/ p \in EVSEProblems(n)
                      \/ \E k \in 1 .. j - 1 : p \in ConnectorProblems(n, k)
                /\ EVSEProblems(n) \subseteq ErrsOf(n)
                /\ \A k \in 1 .. j - 1 : ConnectorProblems(n, k) \subseteq ErrsOf(n)
          /\ n > i \/ (n = i /\ pc = "evse") => ErrsOf(n) = {}

ProblemInv ==
    /\ pc \in {"normalize", "defaults"} \cup AfterCharger \cup {"charger"} => cfg.file = "ok"
    /\ pc \notin {"decode", "normalize"} /\ cfg.file = "ok" => NoBlank
    /\ pc \in Sections =>
          /\ i = 1
          /\ seenUID = {} /\ seenEVSEID = {} /\ seenConnectorID = {}
          /\ \A p \in errs : p.evse = 0
    /\ pc \in Loops => i \in DOMAIN cfg.evses /\ SeenInv /\ Reported
    /\ pc = "connector" => j \in 1 .. Len(cfg.evses[i].connectors) + 1 /\ SeenHere
    /\ pc \in Final /\ cfg.file = "ok" => i = Len(cfg.evses) + 1 /\ Reported

USE DEF Final

LEMMA PlainErrorsAt ==
    ASSUME NEW name, NEW p \in plainErrors(name) PROVE p.evse = 0
BY DEF plainErrors, At, Problem

LEMMA ProblemsSame ==
    ASSUME cfg' = cfg, NEW n, NEW k
    PROVE  /\ EVSEProblems(n)' = EVSEProblems(n)
           /\ ConnectorProblems(n, k)' = ConnectorProblems(n, k)
BY DEF EVSEProblems, ConnectorProblems, EVSEBefore, ConnectorBefore

LEMMA AllProblemsSame ==
    ASSUME cfg' = cfg, NEW n
    PROVE  Problems(n)' = Problems(n)
<1>1. \A k : ConnectorProblems(n, k)' = ConnectorProblems(n, k)
  BY ProblemsSame
<1>2. EVSEProblems(n)' = EVSEProblems(n)
  BY ProblemsSame
<1> QED
  BY <1>1, <1>2 DEF Problems

LEMMA EVSEProblemPlace ==
    ASSUME NEW n, NEW p \in EVSEProblems(n) PROVE p.evse = n
<1>1. \E f : p = Problem(f, n, 0)
  BY DEF EVSEProblems
<1> QED
  BY <1>1 DEF Problem

LEMMA ConnectorProblemPlace ==
    ASSUME NEW n, NEW k, NEW p \in ConnectorProblems(n, k) PROVE p.evse = n
<1>1. \E f : p = Problem(f, n, k)
  BY DEF ConnectorProblems
<1> QED
  BY <1>1 DEF Problem

\* The maps decide what comparing with every earlier EVSE decides.
LEMMA EVSERound ==
    ASSUME LoadTypeOK, ProblemInv, validateEVSE
    PROVE  errs' = errs \cup EVSEProblems(i)
<1> DEFINE e == cfg.evses[i]
<1>1. pc = "evse" /\ i \in DOMAIN cfg.evses /\ NoBlank /\ SeenInv
  BY DEF validateEVSE, ProblemInv
<1>2. e.uid # "blank" /\ e.evse_id # "blank"
  BY <1>1 DEF NoBlank
<1>3. e.connector \in Int
  <2>1. cfg.evses \in Seq(EVSEs)
    BY DEF LoadTypeOK, Configs
  <2>2. e \in EVSEs
    BY <1>1, <2>1
  <2> QED
    BY <2>2 DEF EVSEs
<1>4. \A n : n \in DOMAIN cfg.evses /\ RoundDone(n) <=> n \in 1 .. i - 1
  <2>1. i \in 1 .. Len(cfg.evses) /\ DOMAIN cfg.evses = 1 .. Len(cfg.evses) /\ Len(cfg.evses) \in Nat
    BY <1>1 DEF LoadTypeOK, Configs
  <2> QED
    BY <1>1, <2>1 DEF RoundDone
<1>5. e.uid \in seenUID <=> required(e.uid) /\ \E n \in 1 .. i - 1 : cfg.evses[n].uid = e.uid
  BY <1>1, <1>4 DEF SeenInv
<1>6. e.evse_id \in seenEVSEID
        <=> required(e.evse_id) /\ \E n \in 1 .. i - 1 : cfg.evses[n].evse_id = e.evse_id
  BY <1>1, <1>4 DEF SeenInv
<1>7. e.connector \in seenConnectorID
        <=> \E n \in 1 .. i - 1 : cfg.evses[n].connector = e.connector /\ e.connector >= 1
  BY <1>1, <1>4 DEF SeenInv
<1>8. (~required(e.uid) \/ e.uid = "long" \/ e.uid \in seenUID)
        <=> (e.uid \in {"", "long"} \/ \E d \in EVSEBefore(i) : d.uid = e.uid)
  BY <1>2, <1>5 DEF required, EVSEBefore
<1>9. (~required(e.evse_id) \/ refused(e.evse_id) \/ e.evse_id \in seenEVSEID)
        <=> (e.evse_id \in {"", "bad"} \/ \E d \in EVSEBefore(i) : d.evse_id = e.evse_id)
  BY <1>2, <1>6 DEF required, refused, EVSEBefore
<1>10. (e.connector < 1 \/ e.connector \in seenConnectorID)
        <=> (e.connector < 1 \/ \E d \in EVSEBefore(i) : d.connector = e.connector)
  BY <1>3, <1>7 DEF EVSEBefore
<1> QED
  BY <1>8, <1>9, <1>10 DEF validateEVSE, Add, EVSEProblems

LEMMA ConnectorRound ==
    ASSUME LoadTypeOK, ProblemInv, validateConnector
    PROVE  errs' = errs \cup ConnectorProblems(i, j)
<1> DEFINE c == cfg.evses[i].connectors[j]
<1>1. pc = "connector" /\ i \in DOMAIN cfg.evses /\ NoBlank /\ SeenHere
      /\ j \in DOMAIN cfg.evses[i].connectors
  BY DEF validateConnector, ProblemInv
<1>2. c.id # "blank"
  BY <1>1 DEF NoBlank
<1>3. (~required(c.id) \/ c.id \in seen)
        <=> (c.id = "" \/ \E d \in ConnectorBefore(i, j) : d.id = c.id)
  BY <1>1, <1>2 DEF SeenHere, required, ConnectorBefore
<1> QED
  BY <1>3 DEF validateConnector, Add, ConnectorProblems

LEMMA EvsesFacts ==
    ASSUME LoadTypeOK
    PROVE  /\ cfg.evses \in Seq(EVSEs)
           /\ Len(cfg.evses) \in Nat
           /\ DOMAIN cfg.evses = 1 .. Len(cfg.evses)
           /\ \A n \in DOMAIN cfg.evses :
                 /\ cfg.evses[n].connector \in Int
                 /\ cfg.evses[n].connectors \in Seq(Connectors)
                 /\ Len(cfg.evses[n].connectors) \in Nat
                 /\ DOMAIN cfg.evses[n].connectors = 1 .. Len(cfg.evses[n].connectors)
<1>1. cfg.evses \in Seq(EVSEs)
  BY DEF LoadTypeOK, Configs
<1>2. \A n \in DOMAIN cfg.evses : cfg.evses[n] \in EVSEs
  BY <1>1
<1>3. \A n \in DOMAIN cfg.evses :
         cfg.evses[n].connector \in Int /\ cfg.evses[n].connectors \in Seq(Connectors)
  BY <1>2 DEF EVSEs
<1> QED
  BY <1>1, <1>3

\* The problems of an EVSE are those of its own fields and of its connectors.
LEMMA EVSERoundReported ==
    ASSUME LoadTypeOK, ProblemInv, validateEVSE
    PROVE  Reported'
<1>1. /\ pc = "evse" /\ pc' = "connector" /\ cfg' = cfg /\ i' = i /\ j' = 1
      /\ i \in DOMAIN cfg.evses /\ Reported
  BY DEF validateEVSE, ProblemInv
<1>2. errs' = errs \cup EVSEProblems(i)
  BY EVSERound
<1>3. \A p \in EVSEProblems(i) : p.evse = i
  BY EVSEProblemPlace
<1>4. \A p \in errs' : p.evse \in 0 .. Len(cfg'.evses)
  BY <1>1, <1>2, <1>3, EvsesFacts DEF Reported
<1>5. ASSUME NEW n \in DOMAIN cfg.evses
      PROVE  /\ n < i => ErrsOf(n)' = Problems(n)
             /\ n = i => ErrsOf(n)' = EVSEProblems(n)
             /\ n > i => ErrsOf(n)' = {}
  <2>1. n \in Int /\ i \in Int
    BY <1>1, EvsesFacts
  <2>2. n # i => ErrsOf(n)' = ErrsOf(n)
    BY <1>2, <1>3 DEF ErrsOf
  <2>3. n = i => ErrsOf(n)' = ErrsOf(n) \cup EVSEProblems(i)
    BY <1>2, <1>3 DEF ErrsOf
  <2>4. (n < i => ErrsOf(n) = Problems(n)) /\ (n >= i => ErrsOf(n) = {})
    BY <1>1, <2>1 DEF Reported
  <2> QED
    BY <2>1, <2>2, <2>3, <2>4
<1>6. \A k : k \notin 1 .. j' - 1
  BY <1>1
<1>7. ASSUME NEW n
      PROVE  /\ Problems(n)' = Problems(n)
             /\ EVSEProblems(n)' = EVSEProblems(n)
             /\ \A k : ConnectorProblems(n, k)' = ConnectorProblems(n, k)
  BY <1>1, AllProblemsSame, ProblemsSame
<1> QED
  BY <1>1, <1>4, <1>5, <1>6, <1>7 DEF Reported

LEMMA ConnectorRoundReported ==
    ASSUME LoadTypeOK, ProblemInv, validateConnector
    PROVE  Reported'
<1>1. /\ pc = "connector" /\ pc' = pc /\ cfg' = cfg /\ i' = i /\ j' = j + 1 /\ j \in Nat \ {0}
      /\ i \in DOMAIN cfg.evses /\ Reported
  BY DEF validateConnector, ProblemInv, LoadTypeOK
<1>2. errs' = errs \cup ConnectorProblems(i, j)
  BY ConnectorRound
<1>3. \A p \in ConnectorProblems(i, j) : p.evse = i
  BY ConnectorProblemPlace
<1>4. \A p \in errs' : p.evse \in 0 .. Len(cfg'.evses)
  BY <1>1, <1>2, <1>3, EvsesFacts DEF Reported
<1>5. ASSUME NEW n \in DOMAIN cfg.evses
      PROVE  /\ n < i => ErrsOf(n)' = Problems(n)
             /\ n = i =>
                   /\ \A p \in ErrsOf(n)' :
                         \/ p \in EVSEProblems(n)
                         \/ \E k \in 1 .. j - 1 : p \in ConnectorProblems(n, k)
                         \/ p \in ConnectorProblems(n, j)
                   /\ EVSEProblems(n) \subseteq ErrsOf(n)'
                   /\ \A k \in 1 .. j - 1 : ConnectorProblems(n, k) \subseteq ErrsOf(n)'
                   /\ ConnectorProblems(n, j) \subseteq ErrsOf(n)'
             /\ n > i => ErrsOf(n)' = {}
  <2>1. n \in Int /\ i \in Int
    BY <1>1, EvsesFacts
  <2>2. n # i => ErrsOf(n)' = ErrsOf(n)
    BY <1>2, <1>3 DEF ErrsOf
  <2>3. n = i => ErrsOf(n)' = ErrsOf(n) \cup ConnectorProblems(i, j)
    BY <1>2, <1>3 DEF ErrsOf
  <2> QED
    BY <1>1, <2>1, <2>2, <2>3 DEF Reported
<1>6. \A k : k \in 1 .. j' - 1 <=> k \in 1 .. j - 1 \/ k = j
  BY <1>1
<1>7. ASSUME NEW n
      PROVE  /\ Problems(n)' = Problems(n)
             /\ EVSEProblems(n)' = EVSEProblems(n)
             /\ \A k : ConnectorProblems(n, k)' = ConnectorProblems(n, k)
  BY <1>1, AllProblemsSame, ProblemsSame
<1> QED
  BY <1>1, <1>4, <1>5, <1>6, <1>7 DEF Reported

LEMMA EVSEDoneReported ==
    ASSUME LoadTypeOK, ProblemInv, validated
    PROVE  Reported'
<1>1. /\ pc = "connector" /\ pc' # "connector" /\ cfg' = cfg /\ i' = i + 1 /\ errs' = errs
      /\ i \in DOMAIN cfg.evses /\ Reported
      /\ j \notin DOMAIN cfg.evses[i].connectors
      /\ j \in 1 .. Len(cfg.evses[i].connectors) + 1
  BY DEF validated, Decided, ProblemInv
<1>2. DOMAIN cfg.evses[i].connectors = 1 .. j - 1
  <2>1. Len(cfg.evses[i].connectors) \in Nat
        /\ DOMAIN cfg.evses[i].connectors = 1 .. Len(cfg.evses[i].connectors)
    BY <1>1, EvsesFacts
  <2> QED
    BY <1>1, <2>1
<1>3. ASSUME NEW n \in DOMAIN cfg.evses
      PROVE  /\ n < i' => ErrsOf(n) = Problems(n)
             /\ n >= i' => ErrsOf(n) = {}
  <2>1. n \in Int /\ i \in Int
    BY SMTT(30), <1>1, EvsesFacts
  <2>2. n = i => ErrsOf(n) = Problems(n)
    <3> SUFFICES ASSUME n = i PROVE \A p : p \in ErrsOf(n) <=> p \in Problems(n)
      OBVIOUS
    <3>1. \A p : p \in ErrsOf(n) <=>
             p \in EVSEProblems(n) \/ \E k \in 1 .. j - 1 : p \in ConnectorProblems(n, k)
      BY <1>1 DEF Reported
    <3>2. \A p : p \in Problems(n) <=>
             \/ p \in EVSEProblems(n)
             \/ \E k \in DOMAIN cfg.evses[n].connectors : p \in ConnectorProblems(n, k)
      BY DEF Problems
    <3> QED
      BY <1>2, <3>1, <3>2
  <2> QED
    BY <1>1, <2>1, <2>2 DEF Reported
<1>4. ASSUME NEW n
      PROVE  Problems(n)' = Problems(n) /\ ErrsOf(n)' = ErrsOf(n)
  BY <1>1, AllProblemsSame DEF ErrsOf
<1>5. \A n \in DOMAIN cfg.evses : n > i' \/ n = i' => n >= i'
  BY <1>1, EvsesFacts
<1> QED
  BY <1>1, <1>3, <1>4, <1>5 DEF Reported

\* The maps take in the values of the round, unless they are missing.
LEMMA EVSERoundSeen ==
    ASSUME LoadTypeOK, ProblemInv, validateEVSE
    PROVE  SeenInv' /\ SeenHere'
<1> DEFINE e == cfg.evses[i]
<1>1. /\ pc = "evse" /\ pc' = "connector" /\ cfg' = cfg /\ i' = i /\ j' = 1
      /\ i \in DOMAIN cfg.evses /\ SeenInv
  BY DEF validateEVSE, ProblemInv
<1>2. /\ seenUID' = IF required(e.uid) THEN seenUID \cup {e.uid} ELSE seenUID
      /\ seenEVSEID' = IF required(e.evse_id) THEN seenEVSEID \cup {e.evse_id} ELSE seenEVSEID
      /\ seenConnectorID' =
            IF e.connector >= 1 THEN seenConnectorID \cup {e.connector} ELSE seenConnectorID
      /\ seen' = {}
  BY DEF validateEVSE
<1>3. \A n \in DOMAIN cfg.evses : RoundDone(n)' <=> RoundDone(n) \/ n = i
  BY <1>1 DEF RoundDone
<1>4. \A u : u \in seenUID' <=>
         required(u) /\ \E n \in DOMAIN cfg.evses : RoundDone(n)' /\ cfg.evses[n].uid = u
  BY <1>1, <1>2, <1>3 DEF SeenInv
<1>5. \A u : u \in seenEVSEID' <=>
         required(u) /\ \E n \in DOMAIN cfg.evses : RoundDone(n)' /\ cfg.evses[n].evse_id = u
  BY <1>1, <1>2, <1>3 DEF SeenInv
<1>6. \A u : u \in seenConnectorID' <=>
         \E n \in DOMAIN cfg.evses : RoundDone(n)' /\ cfg.evses[n].connector = u /\ u >= 1
  BY <1>1, <1>2, <1>3 DEF SeenInv
<1>7. SeenInv'
  BY <1>1, <1>4, <1>5, <1>6 DEF SeenInv
<1>8. SeenHere'
  BY <1>1, <1>2 DEF SeenHere
<1> QED
  BY <1>7, <1>8

LEMMA ConnectorRoundSeen ==
    ASSUME LoadTypeOK, ProblemInv, validateConnector
    PROVE  SeenHere'
<1> DEFINE c == cfg.evses[i].connectors[j]
<1>1. /\ cfg' = cfg /\ i' = i /\ j' = j + 1 /\ j \in Nat \ {0} /\ SeenHere
      /\ seen' = IF required(c.id) THEN seen \cup {c.id} ELSE seen
  BY DEF validateConnector, ProblemInv, LoadTypeOK
<1>2. \A k : k \in 1 .. j' - 1 <=> k \in 1 .. j - 1 \/ k = j
  BY <1>1
<1>3. \A u : u \in seen' <=>
         required(u) /\ \E k \in 1 .. j' - 1 : cfg.evses[i].connectors[k].id = u
  BY <1>1, <1>2 DEF SeenHere
<1> QED
  BY <1>1, <1>3 DEF SeenHere

\* Between the rounds the maps stay.
LEMMA SeenStays ==
    ASSUME LoadTypeOK, ProblemInv, pc = "connector", cfg' = cfg,
           UNCHANGED <<seenUID, seenEVSEID, seenConnectorID>>,
           (pc' = "connector" /\ i' = i) \/ (pc' = "evse" /\ i' = i + 1)
    PROVE  SeenInv'
<1>1. i \in DOMAIN cfg.evses /\ SeenInv
  BY DEF ProblemInv
<1>2. \A n \in DOMAIN cfg.evses : RoundDone(n)' <=> RoundDone(n)
  BY <1>1, EvsesFacts DEF RoundDone
<1> QED
  BY <1>1, <1>2 DEF SeenInv

\* normalize leaves no text that only looks like one.
LEMMA NormalizeNoBlank ==
    ASSUME LoadTypeOK, normalize
    PROVE  NoBlank'
<1>1. cfg'.evses = [n \in DOMAIN cfg.evses |-> normalizeEVSE(cfg.evses[n])]
  BY DEF normalize, LoadTypeOK, Configs
<1>2. \A t : Trim(t) # "blank"
  BY DEF Trim
<1>3. ASSUME NEW c \in Connectors PROVE normalizeConnector(c).id # "blank"
  BY <1>2 DEF normalizeConnector, Connectors
<1>4. ASSUME NEW e \in EVSEs
      PROVE  /\ normalizeEVSE(e).uid # "blank"
             /\ normalizeEVSE(e).evse_id # "blank"
             /\ \A k \in DOMAIN normalizeEVSE(e).connectors :
                   normalizeEVSE(e).connectors[k].id # "blank"
  <2>1. normalizeEVSE(e).connectors
          = [n \in DOMAIN e.connectors |-> normalizeConnector(e.connectors[n])]
    BY DEF normalizeEVSE, EVSEs
  <2>2. \A n \in DOMAIN e.connectors : e.connectors[n] \in Connectors
    BY DEF EVSEs
  <2>3. normalizeEVSE(e).uid # "blank" /\ normalizeEVSE(e).evse_id # "blank"
    BY <1>2 DEF normalizeEVSE, EVSEs
  <2> QED
    BY <1>3, <2>1, <2>2, <2>3
<1>5. \A n \in DOMAIN cfg.evses : cfg.evses[n] \in EVSEs
  BY EvsesFacts
<1> QED
  BY <1>1, <1>4, <1>5 DEF NoBlank

\* Before the loops nothing is said of any EVSE.
LEMMA NothingReported ==
    ASSUME LoadTypeOK, i = 1, UNCHANGED <<cfg, i>>, pc' # "connector",
           \A p \in errs' : p.evse = 0
    PROVE  Reported'
<1>1. \A n \in DOMAIN cfg.evses : n \in Nat \ {0} /\ ErrsOf(n)' = {}
  BY EvsesFacts DEF ErrsOf
<1>2. \A n \in DOMAIN cfg.evses : ~(n < i)
  BY <1>1
<1>3. 0 \in 0 .. Len(cfg.evses)
  BY EvsesFacts
<1> QED
  BY <1>1, <1>2, <1>3 DEF Reported

LEMMA LoadProblems ==
    ASSUME LoadTypeOK, ProblemInv, Load
    PROVE  ProblemInv'
<1> USE DEF Add
<1>1. CASE decode
  <2>1. \A p \in yamlErrors(cfg.file) : p.evse = 0
    BY DEF yamlErrors, At, Problem
  <2>2. pc' = "normalize" => cfg.file = "ok" /\ cfg'.file = cfg.file /\ errs' = errs
    BY <1>1 DEF decode, LoadTypeOK, Configs
  <2>3. pc' # "normalize" => pc' = "refused" /\ cfg.file # "ok" /\ cfg' = cfg
    BY <1>1 DEF decode
  <2>4. UNCHANGED <<i, j, maps>> /\ pc = "decode"
    BY <1>1 DEF decode
  <2> QED
    BY <2>1, <2>2, <2>3, <2>4 DEF ProblemInv, maps
<1>2. CASE normalize
  <2>1. cfg'.file = cfg.file
    BY <1>2 DEF normalize, LoadTypeOK, Configs
  <2>2. pc = "normalize" /\ pc' = "defaults" /\ UNCHANGED <<i, j, maps, errs>>
    BY <1>2 DEF normalize, Goto
  <2> QED
    BY <1>2, <2>1, <2>2, NormalizeNoBlank DEF ProblemInv, maps
<1>3. CASE applyDefaults
  <2>1. cfg'.file = cfg.file /\ cfg'.evses = cfg.evses
    BY <1>3 DEF applyDefaults, LoadTypeOK, Configs
  <2>2. pc = "defaults" /\ pc' = "charger" /\ UNCHANGED <<i, j, maps, errs>>
    BY <1>3 DEF applyDefaults, Goto
  <2> QED
    BY <2>1, <2>2 DEF ProblemInv, NoBlank, maps
<1>4. CASE validateCharger
  <2>1. \A p \in errs' : p \in errs \/ p.evse = 0
    BY <1>4, PlainErrorsAt DEF validateCharger, At, Problem
  <2>2. pc = "charger" /\ pc' = "server" /\ UNCHANGED <<cfg, i, j, maps>>
    BY <1>4 DEF validateCharger, Goto
  <2> QED
    BY <2>1, <2>2 DEF ProblemInv, NoBlank, maps
<1>5. CASE validateServer
  <2>1. \A p \in errs' : p \in errs \/ p.evse = 0
    BY <1>5 DEF validateServer, At, Problem
  <2>2. pc = "server" /\ pc' = "auth" /\ UNCHANGED <<cfg, i, j, maps>>
    BY <1>5 DEF validateServer, Goto
  <2> QED
    BY <2>1, <2>2 DEF ProblemInv, NoBlank, maps
<1>6. CASE validateAuth
  <2>1. \A p \in errs' : p \in errs \/ p.evse = 0
    BY <1>6, PlainErrorsAt DEF validateAuth
  <2>2. pc = "auth" /\ pc' = "ocpi" /\ UNCHANGED <<cfg, i, j, maps>>
    BY <1>6 DEF validateAuth, Goto
  <2> QED
    BY <2>1, <2>2 DEF ProblemInv, NoBlank, maps
<1>7. CASE validateOCPI
  <2>1. \A p \in errs' : p \in errs \/ p.evse = 0
    <3>1. \A p \in plainErrors("ocpi") : p.evse = 0
      BY PlainErrorsAt
    <3>2. \A f : At(f).evse = 0
      BY DEF At, Problem
    <3> QED
      BY <1>7, <3>1, <3>2 DEF validateOCPI
  <2>2. pc = "ocpi" /\ pc' = "location" /\ UNCHANGED <<cfg, i, j, maps>>
    BY <1>7 DEF validateOCPI, Goto
  <2> QED
    BY <2>1, <2>2 DEF ProblemInv, NoBlank, maps
<1>8. CASE validateLocation
  <2>1. \A p \in errs' : p \in errs \/ p.evse = 0
    BY <1>8, PlainErrorsAt DEF validateLocation, At, Problem
  <2>2. pc = "location" /\ UNCHANGED <<cfg, i, j, maps>>
    BY <1>8 DEF validateLocation
  <2>3. /\ i = 1 /\ cfg.file = "ok" /\ NoBlank
        /\ seenUID = {} /\ seenEVSEID = {} /\ seenConnectorID = {}
        /\ \A p \in errs' : p.evse = 0
    BY <2>1, <2>2 DEF ProblemInv
  <2>4. pc' = IF cfg.evses = <<>> THEN Decided(errs') ELSE "evse"
    BY <1>8 DEF validateLocation
  <2>5. pc' \in Final \cup {"evse"} /\ (pc' = "evse" <=> cfg.evses # <<>>)
    BY <2>4 DEF Decided
  <2>6. Reported'
    BY <2>2, <2>3, <2>5, NothingReported
  <2>7. pc' = "evse" => SeenInv'
    <3>1. \A n \in DOMAIN cfg.evses : pc' = "evse" => ~RoundDone(n)'
      BY <2>2, <2>3, EvsesFacts DEF RoundDone
    <3> QED
      BY <2>2, <2>3, <3>1 DEF SeenInv, maps
  <2>8. cfg.evses # <<>> => i \in DOMAIN cfg.evses
    BY <2>3, EvsesFacts
  <2>9. cfg.evses = <<>> => i = Len(cfg.evses) + 1
    BY <2>3
  <2> QED
    BY <2>2, <2>3, <2>5, <2>6, <2>7, <2>8, <2>9 DEF ProblemInv, NoBlank
<1>9. CASE validateEVSE
  <2>1. pc = "evse" /\ pc' = "connector" /\ cfg' = cfg /\ i' = i /\ j' = 1
    BY <1>9 DEF validateEVSE
  <2>2. SeenInv' /\ SeenHere' /\ Reported'
    BY <1>9, EVSERoundSeen, EVSERoundReported
  <2>3. i \in DOMAIN cfg.evses /\ NoBlank /\ cfg.file = "ok"
    BY <2>1 DEF ProblemInv
  <2>4. 1 \in 1 .. Len(cfg.evses[i].connectors) + 1
    BY <2>3, EvsesFacts
  <2> QED
    BY <2>1, <2>2, <2>3, <2>4 DEF ProblemInv, NoBlank
<1>10. CASE validateConnector
  <2>1. /\ pc = "connector" /\ pc' = "connector" /\ cfg' = cfg /\ i' = i /\ j' = j + 1
        /\ UNCHANGED <<seenUID, seenEVSEID, seenConnectorID>>
        /\ j \in DOMAIN cfg.evses[i].connectors
    BY <1>10 DEF validateConnector
  <2>2. SeenInv' /\ SeenHere' /\ Reported'
    <3>1. SeenInv'
      BY <2>1, SeenStays
    <3> QED
      BY <1>10, <3>1, ConnectorRoundSeen, ConnectorRoundReported
  <2>3. i \in DOMAIN cfg.evses /\ NoBlank /\ cfg.file = "ok"
    BY <2>1 DEF ProblemInv
  <2>4. j' \in 1 .. Len(cfg.evses[i].connectors) + 1
    <3> DEFINE m == Len(cfg.evses[i].connectors)
    <3>1. m \in Nat /\ DOMAIN cfg.evses[i].connectors = 1 .. m
      BY <2>3, EvsesFacts
    <3>2. j \in 1 .. m /\ j' = j + 1
      BY <2>1, <3>1
    <3> HIDE DEF m
    <3>3. j' \in 1 .. m + 1
      BY <3>1, <3>2
    <3> QED
      BY <3>3 DEF m
  <2> QED
    BY <2>1, <2>2, <2>3, <2>4 DEF ProblemInv, NoBlank
<1>11. CASE validated
  <2>1. /\ pc = "connector" /\ cfg' = cfg /\ i' = i + 1
        /\ UNCHANGED <<seenUID, seenEVSEID, seenConnectorID>>
        /\ pc' = IF i + 1 \in DOMAIN cfg.evses THEN "evse" ELSE Decided(errs)
    BY <1>11 DEF validated, maps
  <2>2. Reported'
    BY <1>11, EVSEDoneReported
  <2>3. i \in DOMAIN cfg.evses /\ NoBlank /\ cfg.file = "ok"
    BY <2>1 DEF ProblemInv
  <2>4. pc' \in Final \cup {"evse"} /\ (pc' = "evse" <=> i + 1 \in DOMAIN cfg.evses)
    BY <2>1 DEF Decided
  <2>5. i + 1 \notin DOMAIN cfg.evses => i + 1 = Len(cfg.evses) + 1
    BY <2>3, EvsesFacts
  <2>6. pc' = "evse" => SeenInv'
    BY <2>1, SeenStays
  <2> QED
    BY <2>1, <2>2, <2>3, <2>4, <2>5, <2>6 DEF ProblemInv, NoBlank
<1> QED
  BY <1>1, <1>2, <1>3, <1>4, <1>5, <1>6, <1>7, <1>8, <1>9, <1>10, <1>11 DEF Load

\* Once the file is loaded only the stage changes.
LEMMA ProblemsStay ==
    ASSUME LoadTypeOK, ProblemInv, UNCHANGED <<cfg, i, j, maps, errs>>,
           pc' = pc \/ (pc \in Up /\ pc' \in Up \ {"loaded"})
    PROVE  ProblemInv'
<1>1. CASE pc' = pc
  <2>1. SeenInv' = SeenInv /\ SeenHere' = SeenHere /\ NoBlank' = NoBlank
    BY <1>1 DEF NoBlank, SeenInv, SeenHere, RoundDone, maps
  <2>2. Reported => Reported'
    BY <1>1, ProblemsSame, AllProblemsSame DEF Reported, ErrsOf
  <2> QED
    BY <1>1, <2>1, <2>2 DEF ProblemInv, maps
<1>2. CASE pc \in Up /\ pc' \in Up \ {"loaded"}
  BY <1>2 DEF ProblemInv, NoBlank
<1> QED
  BY <1>1, <1>2

-----------------------------------------------------------------------------
(***************************************************************************)
(* The wire.                                                               *)
(***************************************************************************)
Phases == {"idle", "waiting", "answered", "ended"}

WireTypeOK ==
    /\ line \in Seq(Callers)
    /\ read \in 0 .. Len(line)
    /\ busy \in BOOLEAN
    /\ busy => read > 0
    /\ work \in 0 .. MaxWork
    /\ phase \in [Callers -> Phases]
    /\ clock \in [Callers -> Nat]
    /\ waited \in [Callers -> Nat]
    /\ left \in 0 .. Initial + 1
    /\ heartbeat \in Nat
    /\ deadline \in Nat /\ ping \in Nat /\ silence \in Nat

TypeOK == LoadTypeOK /\ WireTypeOK

\* Nothing is sent before the station is connected.
QuietInv ==
    pc \notin {"serving", "dropped", "closed"} =>
        /\ line = <<>> /\ read = 0 /\ busy = FALSE
        /\ phase["main"] = "idle" /\ clock["main"] = 0
        /\ left = Initial + 1 /\ silence = 0

LoadInv == TypeOK /\ CheckInv /\ ProblemInv /\ QuietInv

LEMMA ConstantFacts ==
    /\ Initial \in Nat /\ CallBuffer \in Nat /\ CallTimeout \in Nat
    /\ MaxDelay \in Nat /\ MaxWork \in Nat /\ MaxTimeout \in Nat
    /\ "main" \in Callers
    /\ MaxDelay <= CallTimeout
BY DEF Callers

\* The durations of a Config that was loaded.
LEMMA DurationFacts ==
    ASSUME LoadTypeOK, CheckInv
    PROVE  /\ Interval \in Int /\ Timeout \in Int
           /\ pc \in Up => 0 < Interval /\ Interval < Timeout
<1>1. Interval \in Int /\ Timeout \in Int
  BY DEF LoadTypeOK, Configs, Durations, DurationFields, Interval, Timeout
<1>2. pc \in Up => DurationsChecked
  BY DEF CheckInv
<1> QED
  BY <1>1, <1>2 DEF DurationsChecked, positiveDuration, Interval, Timeout

LEMMA BootFacts ==
    ASSUME LoadTypeOK, CheckInv, pc \in Up
    PROVE  /\ boot \in Nat
           /\ Interval >= Second => boot <= Interval
<1>1. Interval \in Int /\ 0 < Interval
  BY DurationFacts
<1>2. \A n \in Int : 0 < n =>
         /\ n \div 2 \in Nat
         /\ (n \div 2) * 2 \in Nat
         /\ (n \div 2) * 2 <= n
         /\ n >= 2 => n \div 2 > 0
  OBVIOUS
<1> DEFINE h == Interval \div 2
<1>3. h \in Nat /\ h * 2 \in Nat /\ h * 2 <= Interval /\ (Interval >= 2 => h > 0)
  BY <1>1, <1>2
<1>4. handed = h
  BY DEF handed, Second
<1> HIDE DEF h
<1> QED
  BY <1>1, <1>3, <1>4 DEF boot, fallbackHeartbeat, Second

\* Of the variables of Config only pc changes after Load.
LEMMA StageSteps ==
    ASSUME QuietInv, [Next]_vars
    PROVE  \/ Load /\ UNCHANGED <<wireVars, stationVars, watchVars>>
           \/ /\ UNCHANGED <<cfg, i, j, maps, errs>>
              /\ pc' = pc \/ (pc \in Up /\ pc' \in Up \ {"loaded"})
<1>1. CASE Loading
  BY <1>1 DEF Loading
<1>2. CASE Connect \/ Expire
  BY <1>2 DEF Connect, Expire, Goto
<1>3. ASSUME NEW c \in Callers, Call(c) \/ Answered(c) \/ TimedOut(c)
      PROVE  /\ UNCHANGED <<cfg, i, j, maps, errs>>
             /\ pc' = pc \/ (pc \in Up /\ pc' \in Up \ {"loaded"})
  BY <1>3 DEF Call, Answered, TimedOut, loadVars
<1>4. CASE ReadMessage \/ dispatch \/ enqueue \/ Tick \/ Stopped \/ UNCHANGED vars
  BY <1>4 DEF ReadMessage, dispatch, enqueue, Tick, Stopped, loadVars, vars
<1> QED
  BY <1>1, <1>2, <1>3, <1>4 DEF Next

\* A sequence that loses its first element, and one that is appended to.
LEMMA TailElements ==
    ASSUME NEW S, NEW s \in Seq(S), s # <<>>
    PROVE  /\ Len(s) \in Nat /\ Len(s) >= 1
           /\ Head(s) = s[1] /\ Head(s) \in S
           /\ Tail(s) \in Seq(S)
           /\ Len(Tail(s)) = Len(s) - 1
           /\ \A n \in 1 .. Len(s) - 1 : Tail(s)[n] = s[n + 1]
OBVIOUS

LEMMA AppendElements ==
    ASSUME NEW S, NEW s \in Seq(S), NEW e \in S
    PROVE  /\ Len(s) \in Nat
           /\ Append(s, e) \in Seq(S)
           /\ Len(Append(s, e)) = Len(s) + 1
           /\ Append(s, e)[Len(s) + 1] = e
           /\ \A n \in 1 .. Len(s) : Append(s, e)[n] = s[n]
OBVIOUS

LEMMA EnterType ==
    ASSUME WireTypeOK, NEW c \in Callers, NEW p \in Phases, Enter(c, p)
    PROVE  phase' \in [Callers -> Phases] /\ clock' \in [Callers -> Nat]
BY DEF WireTypeOK, Enter

LEMMA StepWireType ==
    ASSUME LoadTypeOK, CheckInv, WireTypeOK, [Next]_vars
    PROVE  WireTypeOK'
<1> USE ConstantFacts DEF wireVars, stationVars, watchVars
<1>1. CASE Loading
  BY <1>1 DEF Loading, WireTypeOK
<1>2. CASE Connect
  <2>1. Timeout \in Nat
    BY <1>2, DurationFacts DEF Connect, Goto
  <2> QED
    BY <1>2, <2>1 DEF Connect, WireTypeOK
<1>3. ASSUME NEW c \in Callers, Call(c) PROVE WireTypeOK'
  <2>1. phase' \in [Callers -> Phases] /\ clock' \in [Callers -> Nat]
    BY <1>3, EnterType DEF Call, Phases
  <2>2. line \in Seq(Callers) /\ Len(line) \in Nat
    BY DEF WireTypeOK
  <2>3. line' \in Seq(Callers) /\ Len(line') = Len(line) + 1
    BY <1>3, <2>2, AppendElements DEF Call
  <2>4. UNCHANGED <<read, busy, work, waited, left, heartbeat, deadline, ping, silence>>
    BY <1>3 DEF Call
  <2>5. read' \in 0 .. Len(line')
    BY <2>2, <2>3, <2>4 DEF WireTypeOK
  <2> QED
    BY <2>1, <2>3, <2>4, <2>5 DEF WireTypeOK
<1>4. ASSUME NEW c \in Callers, Answered(c) PROVE WireTypeOK'
  <2>1. phase' \in [Callers -> Phases] /\ clock' \in [Callers -> Nat]
    BY <1>4, EnterType DEF Answered, Phases
  <2>2. heartbeat' \in Nat
    BY <1>4, BootFacts DEF Answered, WireTypeOK
  <2>3. left' \in 0 .. Initial + 1
    BY <1>4 DEF Answered, WireTypeOK
  <2>4. waited' \in [Callers -> Nat]
    BY <1>4 DEF Answered, WireTypeOK
  <2> QED
    BY <1>4, <2>1, <2>2, <2>3, <2>4 DEF Answered, WireTypeOK
<1>5. ASSUME NEW c \in Callers, TimedOut(c) PROVE WireTypeOK'
  <2>1. phase' \in [Callers -> Phases] /\ clock' \in [Callers -> Nat]
    BY <1>5, EnterType DEF TimedOut, Phases
  <2> QED
    BY <1>5, <2>1 DEF TimedOut, WireTypeOK
<1>6. CASE ReadMessage
  <2>1. Timeout \in Nat
    BY <1>6, DurationFacts DEF ReadMessage
  <2> QED
    BY <1>6, <2>1 DEF ReadMessage, refreshDeadline, WireTypeOK
<1>7. CASE Expire
  BY <1>7 DEF Expire, WireTypeOK
<1>8. CASE dispatch
  BY <1>8 DEF dispatch, WireTypeOK
<1>9. CASE enqueue
  <2>1. line \in Seq(Callers) /\ Len(line) \in Nat /\ read \in 1 .. Len(line)
    BY <1>9 DEF enqueue, WireTypeOK
  <2>2. line # <<>>
    BY <2>1
  <2>3. line' \in Seq(Callers) /\ Len(line') = Len(line) - 1 /\ Head(line) \in Callers
    BY <1>9, <2>1, <2>2, TailElements DEF enqueue
  <2>4. phase' \in [Callers -> Phases] /\ clock' \in [Callers -> Nat]
    BY <1>9, <2>3, EnterType DEF enqueue, WireTypeOK, Phases
  <2>5. UNCHANGED <<work, waited, left, heartbeat, deadline, ping, silence>> /\ busy' = FALSE
        /\ read' = read - 1
    BY <1>9 DEF enqueue
  <2>6. read' \in 0 .. Len(line')
    BY <2>1, <2>3, <2>5
  <2> QED
    BY <2>3, <2>4, <2>5, <2>6 DEF WireTypeOK
<1>10. CASE Tick
  <2>1. clock' \in [Callers -> Nat]
    BY <1>10 DEF Tick, WireTypeOK
  <2>2. waited' \in [Callers -> Nat]
    BY <1>10 DEF Tick, WireTypeOK
  <2>3. work' \in 0 .. MaxWork
    BY <1>10 DEF Tick, WireTypeOK
  <2>4. deadline' \in Nat /\ ping' \in Nat /\ silence' \in Nat
    BY <1>10 DEF Tick, WireTypeOK, pongHandler
  <2>5. UNCHANGED <<line, read, busy, phase, left, heartbeat>>
    BY <1>10 DEF Tick
  <2>6. /\ line' \in Seq(Callers) /\ read' \in 0 .. Len(line')
        /\ busy' \in BOOLEAN /\ (busy' => read' > 0)
        /\ phase' \in [Callers -> Phases]
        /\ left' \in 0 .. Initial + 1 /\ heartbeat' \in Nat
    BY <2>5 DEF WireTypeOK
  <2> QED
    BY <2>1, <2>2, <2>3, <2>4, <2>6 DEF WireTypeOK
<1>11. CASE Stopped \/ UNCHANGED vars
  <2>1. UNCHANGED <<wireVars, stationVars, watchVars>>
    BY <1>11 DEF Stopped, vars
  <2> QED
    BY <2>1 DEF WireTypeOK
<1> QED
  BY <1>1, <1>2, <1>3, <1>4, <1>5, <1>6, <1>7, <1>8, <1>9, <1>10, <1>11 DEF Next

LEMMA InitLoad == HeartbeatInit => LoadInv
<1> SUFFICES ASSUME HeartbeatInit PROVE LoadInv
  OBVIOUS
<1> USE ConstantFacts
<1>1. LoadTypeOK
  <2>1. cfg \in Inputs /\ pc = "decode" /\ i = 1 /\ j = 1
    BY DEF HeartbeatInit, Init
  <2>2. cfg \in Configs
    BY <2>1, InputsAssumption
  <2> QED
    BY <2>1, <2>2 DEF LoadTypeOK
<1>2. CheckInv
  BY DEF HeartbeatInit, Init, CheckInv
<1>3. ProblemInv
  BY DEF HeartbeatInit, Init, ProblemInv
<1>4. WireTypeOK
  <2>1. /\ line = <<>> /\ read = 0 /\ busy = FALSE /\ work = 0
        /\ phase = [c \in Callers |-> "idle"]
        /\ clock = [c \in Callers |-> 0]
        /\ waited = [c \in Callers |-> 0]
        /\ left = Initial + 1 /\ heartbeat = 60 * Second
        /\ deadline = 0 /\ ping = 0 /\ silence = 0
    BY DEF HeartbeatInit, fallbackHeartbeat
  <2>2. /\ line \in Seq(Callers) /\ read \in 0 .. Len(line)
        /\ left \in 0 .. Initial + 1 /\ heartbeat \in Nat
    BY <2>1 DEF Second
  <2>3. /\ phase \in [Callers -> Phases]
        /\ clock \in [Callers -> Nat]
        /\ waited \in [Callers -> Nat]
    BY <2>1 DEF Phases
  <2>4. work \in 0 .. MaxWork
    BY <2>1
  <2>6. busy \in BOOLEAN /\ (busy => read > 0)
    <3>1. busy = FALSE
      BY <2>1
    <3> QED
      BY <3>1, Zenon
  <2>5. deadline \in Nat /\ ping \in Nat /\ silence \in Nat
    BY <2>1
  <2> QED
    BY <2>2, <2>3, <2>4, <2>5, <2>6 DEF WireTypeOK
<1>5. QuietInv
  BY DEF HeartbeatInit, QuietInv
<1> QED
  BY <1>1, <1>2, <1>3, <1>4, <1>5 DEF LoadInv, TypeOK

LEMMA StepLoad ==
    ASSUME LoadInv, [Next]_vars
    PROVE  LoadInv'
<1>1. LoadTypeOK /\ WireTypeOK /\ CheckInv /\ ProblemInv /\ QuietInv
  BY DEF LoadInv, TypeOK
<1>2. WireTypeOK'
  BY <1>1, StepWireType
<1>3. CASE Load /\ UNCHANGED <<wireVars, stationVars, watchVars>>
  <2>1. LoadTypeOK' /\ CheckInv' /\ ProblemInv'
    BY <1>1, <1>3, LoadType, LoadCheck, LoadProblems
  <2>2. pc \notin {"serving", "dropped", "closed"}
    BY <1>3
       DEF Load, decode, normalize, applyDefaults, validateCharger, validateServer, validateAuth,
       validateOCPI, validateLocation, validateEVSE, validateConnector, validated, Goto
  <2>3. QuietInv'
    BY <1>1, <1>3, <2>2 DEF QuietInv, wireVars, stationVars, watchVars
  <2> QED
    BY <1>2, <2>1, <2>3 DEF LoadInv, TypeOK
<1>4. CASE /\ UNCHANGED <<cfg, i, j, maps, errs>>
           /\ pc' = pc \/ (pc \in Up /\ pc' \in Up \ {"loaded"})
  <2>1. LoadTypeOK'
    BY <1>1, <1>4 DEF LoadTypeOK
  <2>2. CheckInv'
    BY <1>1, <1>4, CheckStays DEF CheckInv
  <2>3. ProblemInv'
    BY <1>1, <1>4, ProblemsStay
  <2>4. QuietInv'
    <3>1. CASE pc' \in {"serving", "dropped", "closed"}
      BY <3>1 DEF QuietInv
    <3>2. CASE pc' \notin {"serving", "dropped", "closed"}
      <4>1. pc' = pc
        BY <1>4, <3>2
      <4>2. UNCHANGED <<wireVars, stationVars, watchVars>>
        BY <3>2, <4>1, <1>3
           DEF Next, vars, Loading, Connect, Goto, Call, Answered, TimedOut, ReadMessage,
           Expire, dispatch, enqueue, Tick, Stopped
      <4> QED
        BY <1>1, <4>1, <4>2 DEF QuietInv, wireVars, stationVars, watchVars
    <3> QED
      BY <3>1, <3>2
  <2> QED
    BY <1>2, <2>1, <2>2, <2>3, <2>4 DEF LoadInv, TypeOK
<1> QED
  BY <1>1, <1>3, <1>4, StageSteps

\* Whatever is written into the file and however the station behaves, the
\* Config keeps its shape, the maps hold what the rounds have seen, and every
\* time and every place in line stays within its range.
THEOREM TypeCorrect == Spec => []TypeOK
<1>1. LoadInv => TypeOK
  BY DEF LoadInv
<1> QED
  BY InitLoad, StepLoad, <1>1, PTL DEF Spec

LEMMA LoadHolds == Spec => []LoadInv
BY InitLoad, StepLoad, PTL DEF Spec

\* A Config without a reported problem can be addressed by uid and connector.
LEMMA NoProblemUsable ==
    ASSUME LoadTypeOK, cfg.evses # <<>>, \A n \in DOMAIN cfg.evses : Problems(n) = {}
    PROVE  AddressingUsable
<1>1. ASSUME NEW n \in DOMAIN cfg.evses
      PROVE  /\ cfg.evses[n].connector >= 1
             /\ \A m \in 1 .. n - 1 : cfg.evses[m].uid # cfg.evses[n].uid
             /\ \A m \in 1 .. n - 1 : cfg.evses[m].connector # cfg.evses[n].connector
  <2>1. EVSEProblems(n) = {}
    BY DEF Problems
  <2>2. /\ ~(cfg.evses[n].connector < 1)
        /\ ~ \E d \in EVSEBefore(n) : d.uid = cfg.evses[n].uid
        /\ ~ \E d \in EVSEBefore(n) : d.connector = cfg.evses[n].connector
    BY <2>1 DEF EVSEProblems
  <2>3. cfg.evses[n].connector \in Int
    BY EvsesFacts
  <2> QED
    BY <2>2, <2>3 DEF EVSEBefore
<1>2. ASSUME NEW n \in DOMAIN cfg.evses, NEW m \in DOMAIN cfg.evses, m # n
      PROVE  cfg.evses[m].uid # cfg.evses[n].uid /\ cfg.evses[m].connector # cfg.evses[n].connector
  <2>1. m \in 1 .. n - 1 \/ n \in 1 .. m - 1
    BY <1>2, EvsesFacts
  <2> QED
    BY <1>1, <2>1
<1>3. \A n \in DOMAIN cfg.evses : n \in Nat /\ First({n}) = {n}
  BY EvsesFacts DEF First
<1>4. ASSUME NEW n \in DOMAIN cfg.evses
      PROVE  /\ {m \in DOMAIN cfg.evses : cfg.evses[m].uid = cfg.evses[n].uid} = {n}
             /\ {m \in DOMAIN cfg.evses : cfg.evses[m].connector = cfg.evses[n].connector} = {n}
  BY <1>2
<1> QED
  BY <1>1, <1>3, <1>4 DEF AddressingUsable, EVSEByUID, EVSEByConnectorID

\* Load, over every file: a Config it returns has EVSEs that are found by their
\* uids and by their connectors, durations that can be kept, and two addresses
\* that can be listened on.  That nothing is duplicated follows from what the
\* maps of the loops hold; the rest is left behind by the sections.
THEOREM LoadedIsUsableHolds == Spec => []LoadedIsUsable
<1>1. LoadInv => LoadedIsUsable
  <2> SUFFICES ASSUME LoadInv, pc = "loaded" PROVE AddressingUsable /\ TimingUsable
    BY DEF LoadedIsUsable
  <2>1. LoadTypeOK /\ CheckInv /\ ProblemInv
    BY DEF LoadInv, TypeOK
  <2>2. errs = {} /\ cfg.evses # <<>> /\ DurationsChecked /\ BindsChecked /\ DebounceChecked
    BY <2>1 DEF CheckInv
  <2>3. i = Len(cfg.evses) + 1 /\ Reported
    BY <2>1 DEF ProblemInv
  <2>4. ASSUME NEW n \in DOMAIN cfg.evses PROVE Problems(n) = {}
    <3>1. n < i
      BY <2>1, <2>3, EvsesFacts
    <3> QED
      BY <2>2, <2>3, <3>1 DEF Reported, ErrsOf
  <2>5. AddressingUsable
    BY <2>1, <2>2, <2>4, NoProblemUsable
  <2>6. \A d \in DurationFields : cfg.durations[d].kind = "ok"
    BY <2>2 DEF DurationFields, DurationsChecked, DebounceChecked, positiveDuration
  <2>7. 0 < cfg.durations["interval"].value /\ 0 < cfg.durations["call"].value
    BY <2>1, <2>2
       DEF DurationsChecked, positiveDuration, LoadTypeOK, Configs, Durations, DurationFields
  <2>8. TimingUsable
    BY <2>2, <2>6, <2>7 DEF TimingUsable, DurationsChecked, BindsChecked
  <2> QED
    BY <2>5, <2>8
<1> QED
  BY LoadHolds, <1>1, PTL

\* The verdict on every file that can be decoded names exactly the EVSEs and
\* connectors that have a problem.
THEOREM AllProblemsReportedHolds == Spec => []AllProblemsReported
<1>1. LoadInv => AllProblemsReported
  <2> SUFFICES ASSUME LoadInv, pc \in {"loaded", "refused"}, cfg.file = "ok"
               PROVE  \A p : p \in {q \in errs : q.evse > 0}
                               <=> p \in UNION {Problems(n) : n \in DOMAIN cfg.evses}
    BY DEF AllProblemsReported
  <2>1. LoadTypeOK /\ i = Len(cfg.evses) + 1 /\ Reported
    BY DEF LoadInv, TypeOK, ProblemInv
  <2>2. \A n \in DOMAIN cfg.evses : n \in Nat /\ n > 0 /\ n < i
    BY <2>1, EvsesFacts
  <2>3. \A n \in DOMAIN cfg.evses : Problems(n) = {p \in errs : p.evse = n}
    BY <2>1, <2>2 DEF Reported, ErrsOf
  <2>4. \A p \in errs : p.evse > 0 => p.evse \in DOMAIN cfg.evses
    BY <2>1, EvsesFacts DEF Reported
  <2> TAKE p
  <2>5. p \in UNION {Problems(n) : n \in DOMAIN cfg.evses}
          <=> \E n \in DOMAIN cfg.evses : p \in Problems(n)
    OBVIOUS
  <2> QED
    BY <2>2, <2>3, <2>4, <2>5
<1> QED
  BY LoadHolds, <1>1, PTL

-----------------------------------------------------------------------------
(***************************************************************************)
(* The read deadline.                                                      *)
(***************************************************************************)
\* How long a CALL has been in the handler.
InHandler == IF busy THEN work ELSE 0

\* While nothing is read the deadline comes nearer as the silence grows.  It is
\* only passed over by a reader that is held up, for as long as the handler is
\* at one CALL: the reader holds one CALL more than the channel takes.
SilenceInv ==
    pc = "serving" =>
        /\ silence + deadline <= Timeout \/ (deadline = 0 /\ silence <= MaxWork)
        /\ Blocked => silence <= MaxWork
        /\ Blocked /\ busy => silence <= work
        /\ read - Handling <= CallBuffer + 1

\* In line are the CALLs of the callers that wait, each once, and of those that
\* have given up.
LineInv ==
    /\ \A a, b \in 1 .. Len(line) : line[a] = line[b] => a = b
    /\ \A a \in 1 .. Len(line) :
          \/ phase[line[a]] = "waiting"
          \/ phase[line[a]] = "ended" /\ waited[line[a]] >= CallTimeout
    /\ \A c \in Callers : phase[c] = "waiting" => \E a \in 1 .. Len(line) : line[a] = c

\* What PunctualIsKept supposes.
Ample == Interval >= Second /\ Timeout > Interval + Margin

\* The deadline is further away than the next CALL can be: what is left of the
\* pause, of the answer's way back and of the CALLs in line before it, and the
\* way of the next CALL; and than the reader can be held up.
Told == left <= Initial => heartbeat <= Interval

IdleInTime ==
    phase["main"] = "idle" =>
        /\ clock["main"] <= Pause("main")
        /\ deadline > Pause("main") - clock["main"] + MaxDelay

AnsweredInTime ==
    phase["main"] = "answered" =>
        /\ clock["main"] <= MaxDelay
        /\ deadline > MaxDelay - clock["main"] + Interval + MaxDelay

WaitingInTime ==
    phase["main"] = "waiting" =>
        \A a \in 1 .. read :
            line[a] = "main" =>
                deadline > a * MaxWork - InHandler + MaxDelay + Interval + MaxDelay

HeldInTime == Blocked => deadline > (IF busy THEN MaxWork - work ELSE 0) + MaxDelay

NextInTime ==
    ~Blocked /\ read < Len(line) =>
        deadline > 0 /\ deadline > MaxDelay - waited[line[read + 1]]

MainInv ==
    pc = "serving" /\ phase["main"] # "ended" /\ Ample =>
        Told /\ IdleInTime /\ AnsweredInTime /\ WaitingInTime /\ HeldInTime /\ NextInTime

\* What the types say of the numbers.
LEMMA WireFacts ==
    ASSUME LoadInv
    PROVE  /\ Interval \in Int /\ Timeout \in Int
           /\ pc \in Up => 0 < Interval /\ Interval < Timeout
           /\ line \in Seq(Callers) /\ Len(line) \in Nat
           /\ read \in Nat /\ read <= Len(line)
           /\ work \in Nat /\ work <= MaxWork
           /\ Handling \in {0, 1} /\ (busy <=> Handling = 1)
           /\ deadline \in Nat /\ silence \in Nat
<1>1. LoadTypeOK /\ CheckInv /\ WireTypeOK
  BY DEF LoadInv, TypeOK
<1>2. /\ line \in Seq(Callers) /\ Len(line) \in Nat
      /\ read \in Nat /\ read <= Len(line)
      /\ work \in Nat /\ work <= MaxWork
      /\ deadline \in Nat /\ silence \in Nat
  BY <1>1, ConstantFacts DEF WireTypeOK
<1>3. Handling \in {0, 1} /\ (busy <=> Handling = 1)
  <2>1. busy \in BOOLEAN
    BY <1>1 DEF WireTypeOK
  <2> QED
    BY <2>1 DEF Handling
<1> QED
  BY <1>1, <1>2, <1>3, DurationFacts

LEMMA StepSilence ==
    ASSUME LoadInv, SilenceInv, [Next]_vars
    PROVE  SilenceInv'
<1> USE ConstantFacts, WireFacts
<1>1. CASE Loading
  <2>1. pc' # "serving"
    BY <1>1 DEF Loading, Load, decode, normalize, applyDefaults, validateCharger, validateServer,
       validateAuth, validateOCPI, validateLocation, validateEVSE, validateConnector, validated,
       Goto, Decided
  <2> QED
    BY <2>1 DEF SilenceInv
<1>2. CASE Connect
  <2>1. pc = "loaded" /\ pc' = "serving" /\ deadline' = Timeout
        /\ UNCHANGED <<cfg, read, busy, work, silence>>
    BY <1>2 DEF Connect, Goto, wireVars
  <2>2. read = 0 /\ busy = FALSE /\ silence = 0
    BY <2>1 DEF LoadInv, QuietInv
  <2>3. Timeout' = Timeout /\ Handling' = 0
    BY <2>1, <2>2 DEF Timeout, Handling
  <2> QED
    BY <2>1, <2>2, <2>3 DEF SilenceInv, Blocked
<1>3. ASSUME NEW c \in Callers, Call(c) \/ Answered(c) \/ TimedOut(c) PROVE SilenceInv'
  <2>1. pc = "serving" /\ UNCHANGED <<cfg, read, busy, work, deadline, silence>>
    BY <1>3 DEF Call, Answered, TimedOut, loadVars, wireVars, watchVars
  <2> QED
    BY <2>1 DEF SilenceInv, Blocked, Handling, Timeout
<1>4. CASE ReadMessage
  <2>1. /\ pc = "serving" /\ ~Blocked /\ read' = read + 1 /\ deadline' = Timeout /\ silence' = 0
        /\ UNCHANGED <<cfg, busy, work>>
    BY <1>4 DEF ReadMessage, refreshDeadline, loadVars
  <2>2. Timeout' = Timeout /\ Handling' = Handling
    BY <2>1 DEF Timeout, Handling
  <2> QED
    BY <2>1, <2>2 DEF SilenceInv, Blocked
<1>5. CASE Expire
  BY <1>5 DEF Expire, Goto, SilenceInv
<1>6. CASE dispatch
  <2>1. /\ pc = "serving" /\ Handling = 0 /\ busy' = TRUE
        /\ UNCHANGED <<cfg, read, deadline, silence>>
    BY <1>6 DEF dispatch, loadVars, watchVars, Handling
  <2>2. Timeout' = Timeout /\ Handling' = 1
    BY <2>1 DEF Timeout, Handling
  <2>3. ~Blocked'
    BY <2>1, <2>2 DEF SilenceInv, Blocked
  <2> QED
    BY <2>1, <2>2, <2>3 DEF SilenceInv
<1>7. CASE enqueue
  <2>1. /\ pc = "serving" /\ Handling = 1 /\ busy' = FALSE /\ read' = read - 1
        /\ UNCHANGED <<cfg, deadline, silence>>
    BY <1>7 DEF enqueue, loadVars, watchVars, Handling
  <2>2. Timeout' = Timeout /\ Handling' = 0
    BY <2>1 DEF Timeout, Handling
  <2>3. Blocked' <=> Blocked
    BY <2>1, <2>2 DEF Blocked
  <2> QED
    BY <2>1, <2>2, <2>3 DEF SilenceInv
<1>8. CASE Tick
  <2>1. /\ pc = "serving"
        /\ deadline > 0 \/ Blocked
        /\ read > 0 => busy /\ work < MaxWork
        /\ deadline' = IF deadline > 0 THEN deadline - 1 ELSE 0
        /\ silence' = silence + 1
        /\ work' = IF busy THEN work + 1 ELSE 0
        /\ UNCHANGED <<cfg, read, busy>>
    BY <1>8 DEF Tick, pongHandler, loadVars
  <2>2. Timeout' = Timeout /\ Handling' = Handling /\ (Blocked' <=> Blocked)
    BY <2>1 DEF Timeout, Handling, Blocked
  <2>3. Blocked => busy /\ work < MaxWork /\ silence <= work
    BY <2>1 DEF SilenceInv, Blocked
  <2>4. silence' + deadline' <= Timeout \/ (deadline' = 0 /\ silence' <= MaxWork)
    BY SMTT(30), <2>1, <2>3 DEF SilenceInv
  <2>5. Blocked => silence' <= work' /\ silence' <= MaxWork
    BY <2>1, <2>3
  <2> QED
    BY <2>1, <2>2, <2>4, <2>5 DEF SilenceInv
<1>9. CASE Stopped \/ UNCHANGED vars
  BY <1>9 DEF Stopped, vars, loadVars, wireVars, watchVars, SilenceInv, Blocked, Handling, Timeout
<1> QED
  BY <1>1, <1>2, <1>3, <1>4, <1>5, <1>6, <1>7, <1>8, <1>9 DEF Next

LEMMA InitSilence == HeartbeatInit => SilenceInv
BY DEF HeartbeatInit, Init, SilenceInv

\* A station that says nothing, or whose main line has ended, is served no
\* longer than the timeout, or than the one CALL that holds the reader up; no
\* ping and no other traffic below the OCPP messages puts it off.
THEOREM SilenceIsNoticedHolds == Spec => []SilenceIsNoticed
<1>1. LoadInv /\ SilenceInv => SilenceIsNoticed
  <2> SUFFICES ASSUME LoadInv, SilenceInv, pc = "serving"
               PROVE  silence <= Timeout \/ silence <= MaxWork
    BY DEF SilenceIsNoticed
  <2> QED
    BY WireFacts DEF SilenceInv
<1>2. Spec => []SilenceInv
  BY InitSilence, StepSilence, LoadHolds, PTL DEF Spec
<1> QED
  BY LoadHolds, <1>1, <1>2, PTL

LEMMA LineSame ==
    ASSUME LineInv, UNCHANGED <<line, phase, waited>>
    PROVE  LineInv'
BY DEF LineInv

LEMMA EnterElse ==
    ASSUME WireTypeOK, NEW c \in Callers, NEW p, Enter(c, p)
    PROVE  /\ phase'[c] = p /\ clock'[c] = 0
           /\ \A d \in Callers : d # c => phase'[d] = phase[d] /\ clock'[d] = clock[d]
BY DEF WireTypeOK, Enter

LEMMA StepLine ==
    ASSUME LoadInv, LineInv, [Next]_vars
    PROVE  LineInv'
<1>0. WireTypeOK
  BY DEF LoadInv, TypeOK
<1>1. CASE Loading \/ Connect \/ ReadMessage \/ Expire \/ dispatch \/ Stopped \/ UNCHANGED vars
  <2>1. UNCHANGED <<line, phase, waited>>
    BY <1>1
       DEF Loading, Connect, ReadMessage, Expire, dispatch, Stopped, vars, wireVars, stationVars
  <2> QED
    BY <2>1, LineSame
<1>2. ASSUME NEW c \in Callers, Call(c) PROVE LineInv'
  <2>1. phase[c] = "idle" /\ line' = Append(line, c) /\ waited' = waited /\ Enter(c, "waiting")
    BY <1>2 DEF Call
  <2>2. /\ Len(line) \in Nat /\ Len(line') = Len(line) + 1 /\ line'[Len(line) + 1] = c
        /\ \A a \in 1 .. Len(line) : line'[a] = line[a] /\ line[a] \in Callers
    <3>1. line \in Seq(Callers)
      BY <1>0 DEF WireTypeOK
    <3> QED
      BY <2>1, <3>1, AppendElements
  <2>3. \A a \in 1 .. Len(line) : line[a] # c
    BY <2>1 DEF LineInv
  <2>4. phase'[c] = "waiting" /\ \A d \in Callers : d # c => phase'[d] = phase[d]
    BY <1>0, <2>1, EnterElse
  <2>5. \A a \in 1 .. Len(line') : a = Len(line) + 1 \/ a \in 1 .. Len(line)
    BY <2>2
  <2>6. \A a, b \in 1 .. Len(line') : line'[a] = line'[b] => a = b
    BY SMTT(30), <2>2, <2>3, <2>5 DEF LineInv
  <2>7. \A a \in 1 .. Len(line') :
           \/ phase'[line'[a]] = "waiting"
           \/ phase'[line'[a]] = "ended" /\ waited'[line'[a]] >= CallTimeout
    BY <2>1, <2>2, <2>3, <2>4, <2>5 DEF LineInv
  <2>8. \A d \in Callers : phase'[d] = "waiting" => \E a \in 1 .. Len(line') : line'[a] = d
    <3> SUFFICES ASSUME NEW d \in Callers, phase'[d] = "waiting"
                 PROVE  \E a \in 1 .. Len(line') : line'[a] = d
      OBVIOUS
    <3>1. CASE d = c
      <4>1. Len(line) + 1 \in 1 .. Len(line')
        BY <2>2
      <4> QED
        BY <3>1, <4>1, <2>2
    <3>2. CASE d # c
      <4>1. PICK a \in 1 .. Len(line) : line[a] = d
        BY <3>2, <2>4 DEF LineInv
      <4>2. a \in 1 .. Len(line')
        BY <2>2
      <4> QED
        BY <4>1, <4>2, <2>2
    <3> QED
      BY <3>1, <3>2
  <2> QED
    BY <2>6, <2>7, <2>8 DEF LineInv
<1>3. ASSUME NEW c \in Callers, Answered(c) PROVE LineInv'
  <2>1. /\ phase[c] = "answered" /\ line' = line /\ waited' = [waited EXCEPT ![c] = 0]
        /\ Enter(c, "idle") \/ Enter(c, "ended")
    BY <1>3 DEF Answered, wireVars
  <2>2. phase'[c] \in {"idle", "ended"} /\ \A d \in Callers : d # c => phase'[d] = phase[d]
    BY <1>0, <2>1, EnterElse
  <2>3. \A d \in Callers : d # c => waited'[d] = waited[d]
    BY <1>0, <2>1 DEF WireTypeOK
  <2>4. \A a \in 1 .. Len(line) : line[a] \in Callers /\ line[a] # c
    <3>1. \A a \in 1 .. Len(line) : line[a] \in Callers
      BY <1>0 DEF WireTypeOK
    <3>2. \A a \in 1 .. Len(line) : phase[line[a]] # "answered"
      BY DEF LineInv
    <3> QED
      BY <2>1, <3>1, <3>2
  <2> QED
    BY <2>1, <2>2, <2>3, <2>4 DEF LineInv
<1>4. ASSUME NEW c \in Callers, TimedOut(c) PROVE LineInv'
  <2>1. line' = line /\ waited' = waited /\ Enter(c, "ended") /\ waited[c] >= CallTimeout
    BY <1>4 DEF TimedOut, wireVars
  <2>2. phase'[c] = "ended" /\ \A d \in Callers : d # c => phase'[d] = phase[d]
    BY <1>0, <2>1, EnterElse
  <2>3. \A a \in 1 .. Len(line) : line[a] \in Callers
    BY <1>0 DEF WireTypeOK
  <2> QED
    BY <2>1, <2>2, <2>3 DEF LineInv
<1>5. CASE enqueue
  <2>1. /\ line' = Tail(line) /\ waited' = waited /\ busy
        /\ Enter(Head(line), "answered") \/ phase' = phase
    BY <1>5 DEF enqueue
  <2>2. line # <<>>
    BY <1>0, <2>1 DEF WireTypeOK
  <2>3. /\ Len(line) \in Nat /\ Len(line) >= 1 /\ Head(line) = line[1] /\ Head(line) \in Callers
        /\ Len(line') = Len(line) - 1
        /\ \A a \in 1 .. Len(line) - 1 : line'[a] = line[a + 1]
        /\ \A a \in 1 .. Len(line) : line[a] \in Callers
    BY <1>0, <2>1, <2>2, TailElements DEF WireTypeOK
  <2>4. phase[line[1]] = "waiting" => phase'[line[1]] = "answered"
    BY <1>0, <1>5, <2>3, EnterElse DEF enqueue
  <2>5. \A d \in Callers : d # line[1] => phase'[d] = phase[d]
    BY <1>0, <2>1, <2>3, EnterElse
  <2>6. \A a \in 1 .. Len(line') : a + 1 \in 1 .. Len(line) /\ a + 1 # 1 /\ line'[a] = line[a + 1]
    BY SMTT(30), <2>3
  <2>7. \A a \in 1 .. Len(line') : line[a + 1] # line[1]
    BY <2>3, <2>6 DEF LineInv
  <2>8. \A a, b \in 1 .. Len(line') : line'[a] = line'[b] => a = b
    <3> SUFFICES ASSUME NEW a \in 1 .. Len(line'), NEW b \in 1 .. Len(line'), line'[a] = line'[b]
                 PROVE  a = b
      OBVIOUS
    <3>1. a + 1 = b + 1
      BY SMTT(30), <2>6 DEF LineInv
    <3> QED
      BY <3>1, <2>3
  <2>9. \A a \in 1 .. Len(line') :
           \/ phase'[line'[a]] = "waiting"
           \/ phase'[line'[a]] = "ended" /\ waited'[line'[a]] >= CallTimeout
    BY <2>1, <2>3, <2>5, <2>6, <2>7 DEF LineInv
  <2>10. \A d \in Callers : phase'[d] = "waiting" => \E a \in 1 .. Len(line') : line'[a] = d
    <3> SUFFICES ASSUME NEW d \in Callers, phase'[d] = "waiting"
                 PROVE  \E a \in 1 .. Len(line') : line'[a] = d
      OBVIOUS
    <3>1. d # line[1]
      <4>1. 1 \in 1 .. Len(line)
        BY <2>3
      <4>2. phase[line[1]] = "waiting" \/ phase[line[1]] = "ended"
        BY <4>1 DEF LineInv
      <4>3. phase[line[1]] = "ended" => phase'[line[1]] = "ended"
        BY <1>5, <2>3 DEF enqueue
      <4> QED
        BY <2>4, <4>2, <4>3
    <3>2. PICK a \in 1 .. Len(line) : line[a] = d
      BY <3>1, <2>5 DEF LineInv
    <3>3. a # 1 /\ a - 1 \in 1 .. Len(line') /\ line'[a - 1] = line[a]
      BY <3>1, <3>2, <2>3
    <3> QED
      BY <3>2, <3>3
  <2> QED
    BY <2>8, <2>9, <2>10 DEF LineInv
<1>6. CASE Tick
  <2>1. /\ UNCHANGED <<line, phase>>
        /\ waited' = [c \in Callers |->
              IF phase[c] \in {"waiting", "answered"} THEN waited[c] + 1 ELSE waited[c]]
    BY <1>6 DEF Tick
  <2>2. \A c \in Callers : phase[c] = "ended" => waited'[c] = waited[c]
    BY <2>1
  <2>3. \A a \in 1 .. Len(line) : line[a] \in Callers
    BY <1>0 DEF WireTypeOK
  <2> QED
    BY <2>1, <2>2, <2>3 DEF LineInv
<1> QED
  BY <1>1, <1>2, <1>3, <1>4, <1>5, <1>6 DEF Next

LEMMA InitLine == HeartbeatInit => LineInv
BY DEF HeartbeatInit, LineInv

LEMMA LineHolds == Spec => []LineInv
BY InitLine, StepLine, LoadHolds, PTL DEF Spec

\* There is one place in line for every caller.
LEMMA LineLength ==
    ASSUME LoadInv, LineInv
    PROVE  Cardinality(Reporters) \in Nat /\ Len(line) <= Cardinality(Reporters) + 1
<1>1. Cardinality(Reporters) \in Nat
  BY FS_CardinalityType
<1>2. IsFiniteSet(Callers) /\ Cardinality(Callers) = Cardinality(Reporters) + 1
  <2>1. Callers = Reporters \cup {"main"}
    BY DEF Callers
  <2> QED
    BY <2>1, FS_AddElement
<1>3. line \in [1 .. Len(line) -> Callers] /\ Len(line) \in Nat
  BY SMTT(30) DEF LoadInv, TypeOK, WireTypeOK
<1>4. IsFiniteSet(1 .. Len(line)) /\ Cardinality(1 .. Len(line)) = Len(line)
  <2> DEFINE n == Len(line)
  <2>1. n \in Int /\ n \in Nat /\ 1 \in Int
    BY <1>3
  <2> HIDE DEF n
  <2>2. IsFiniteSet(1 .. n) /\ Cardinality(1 .. n) = IF 1 > n THEN 0 ELSE n - 1 + 1
    BY <2>1, FS_Interval
  <2>3. Cardinality(1 .. n) = n
    BY <2>1, <2>2
  <2> QED
    BY <2>2, <2>3 DEF n
<1>5. ~(Cardinality(Callers) < Cardinality(1 .. Len(line)))
  BY <1>2, <1>3, <1>4, FS_PigeonHole DEF LineInv
<1> QED
  BY <1>1, <1>2, <1>3, <1>4, <1>5

LEMMA TimesMonotone ==
    ASSUME NEW a \in Nat, NEW b \in Nat, NEW w \in Nat, a <= b
    PROVE  a * w \in Nat /\ b * w \in Nat /\ a * w <= b * w
OBVIOUS

LEMMA TimesNext ==
    ASSUME NEW a \in Nat, NEW w \in Nat
    PROVE  a * w \in Nat /\ (a + 1) * w = a * w + w
OBVIOUS

\* The margin covers the handlers of all the CALLs in line.
LEMMA MarginFacts ==
    /\ Margin \in Nat
    /\ Margin >= MaxDelay + MaxDelay + MaxWork
    /\ \A a \in Nat : a <= Cardinality(Reporters) + 1 =>
          a * MaxWork \in Nat /\ a * MaxWork + MaxDelay + MaxDelay <= Margin
<1> DEFINE n == Cardinality(Reporters) + 1
<1>1. n \in Nat /\ 1 <= n
  BY FS_CardinalityType
<1>2. MaxDelay \in Nat /\ MaxWork \in Nat
  BY ConstantFacts
<1>3. Margin = MaxDelay + MaxDelay + n * MaxWork
  BY <1>2 DEF Margin
<1> HIDE DEF n
<1>4. \A a \in Nat : a <= n => a * MaxWork \in Nat /\ n * MaxWork \in Nat /\ a * MaxWork <= n * MaxWork
  BY <1>1, <1>2, TimesMonotone
<1>5. 1 * MaxWork = MaxWork
  BY <1>2
<1>6. n * MaxWork \in Nat /\ MaxWork <= n * MaxWork
  BY <1>1, <1>4, <1>5
<1>7. \A a \in Nat : a <= n => a * MaxWork \in Nat /\ a * MaxWork + MaxDelay + MaxDelay <= Margin
  BY <1>2, <1>3, <1>4, <1>6
<1> QED
  BY <1>2, <1>3, <1>6, <1>7 DEF n

\* The pause of the main line, as the station was told.
LEMMA PauseFacts ==
    ASSUME LoadInv, Told, Interval >= Second
    PROVE  Pause("main") \in Nat /\ Pause("main") <= Interval
<1>1. heartbeat \in Nat /\ left \in 0 .. Initial + 1 /\ Initial \in Nat /\ Interval \in Int
  BY WireFacts, ConstantFacts DEF LoadInv, TypeOK, WireTypeOK
<1> QED
  BY <1>1 DEF Pause, Told, Second

\* With everything read, the next CALL to come is the main line's at the latest.
LEMMA NextIsNear ==
    ASSUME LoadInv, LineInv, pc = "serving", phase["main"] # "ended", Ample, MainInv,
           read = Len(line)
    PROVE  deadline > MaxDelay
<1> USE ConstantFacts
<1>1. Told /\ IdleInTime /\ AnsweredInTime /\ WaitingInTime
  BY DEF MainInv
<1>2. /\ phase["main"] \in Phases /\ clock["main"] \in Nat
      /\ work \in Nat /\ work <= MaxWork /\ deadline \in Nat /\ InHandler \in Nat /\ InHandler <= MaxWork
  <2>1. phase["main"] \in Phases /\ clock["main"] \in Nat
    BY DEF LoadInv, TypeOK, WireTypeOK
  <2> QED
    BY <2>1, WireFacts DEF InHandler
<1>3. Interval \in Nat /\ Interval >= Second
  BY WireFacts DEF Ample, Second
<1>4. CASE phase["main"] = "idle"
  <2>1. Pause("main") \in Nat
    BY <1>1, <1>3, PauseFacts
  <2> QED
    BY <1>1, <1>2, <1>4, <2>1 DEF IdleInTime
<1>5. CASE phase["main"] = "answered"
  BY <1>1, <1>2, <1>3, <1>5 DEF AnsweredInTime
<1>6. CASE phase["main"] = "waiting"
  <2>1. PICK a \in 1 .. Len(line) : line[a] = "main"
    BY <1>6 DEF LineInv
  <2>2. a \in Nat /\ 1 <= a
    BY <2>1, WireFacts
  <2>3. a * MaxWork \in Nat /\ 1 * MaxWork <= a * MaxWork /\ 1 * MaxWork = MaxWork
    BY <2>2, TimesMonotone
  <2>4. deadline > a * MaxWork - InHandler + MaxDelay + Interval + MaxDelay
    BY <1>1, <1>6, <2>1 DEF WaitingInTime
  <2> QED
    BY <1>2, <1>3, <2>3, <2>4
<1> QED
  BY <1>2, <1>4, <1>5, <1>6 DEF Phases

LEMMA AmpleSame ==
    ASSUME cfg' = cfg
    PROVE  Interval' = Interval /\ Timeout' = Timeout /\ Ample' = Ample
BY DEF Interval, Timeout, Ample, Margin

\* A read puts the deadline further away than anything that can come before the
\* next read.
LEMMA ReadMain ==
    ASSUME LoadInv, LineInv, MainInv, ReadMessage
    PROVE  MainInv'
<1> USE ConstantFacts, WireFacts
<1>1. /\ pc = "serving" /\ ~Blocked /\ read < Len(line) /\ read' = read + 1 /\ deadline' = Timeout
      /\ UNCHANGED <<cfg, line, busy, work, phase, clock, waited, left, heartbeat>>
  BY DEF ReadMessage, refreshDeadline, loadVars, stationVars
<1>2. Interval' = Interval /\ Timeout' = Timeout /\ Ample' = Ample
  BY <1>1, AmpleSame
<1> SUFFICES ASSUME phase["main"] # "ended", Ample
             PROVE  /\ Told' /\ IdleInTime' /\ AnsweredInTime'
                    /\ WaitingInTime' /\ HeldInTime' /\ NextInTime'
  BY <1>1, <1>2 DEF MainInv
<1>3. Told /\ IdleInTime /\ AnsweredInTime
  BY <1>1 DEF MainInv
<1>4. /\ Interval \in Nat /\ Interval >= Second /\ Timeout \in Nat
      /\ Margin \in Nat /\ Timeout > Interval + Margin /\ Margin >= MaxDelay + MaxDelay + MaxWork
  BY MarginFacts DEF Ample, Second
<1>5. Pause("main") \in Nat /\ Pause("main") <= Interval /\ Pause("main")' = Pause("main")
  BY <1>1, <1>3, <1>4, PauseFacts DEF Pause
<1>6. clock["main"] \in Nat /\ \A c \in Callers : waited[c] \in Nat
  BY DEF LoadInv, TypeOK, WireTypeOK
<1>7. Told'
  BY <1>1, <1>2, <1>3 DEF Told
<1>8. IdleInTime'
  BY SMTT(30), <1>1, <1>3, <1>4, <1>5, <1>6 DEF IdleInTime
<1>9. AnsweredInTime'
  BY SMTT(30), <1>1, <1>2, <1>3, <1>4, <1>6 DEF AnsweredInTime
<1>10. WaitingInTime'
  <2>1. InHandler' \in Nat
    BY <1>1 DEF InHandler
  <2> SUFFICES ASSUME NEW a \in 1 .. read'
               PROVE  deadline' > a * MaxWork - InHandler' + MaxDelay + Interval' + MaxDelay
    BY DEF WaitingInTime
  <2>2. a \in Nat /\ a <= Cardinality(Reporters) + 1
    BY <1>1, LineLength
  <2>3. a * MaxWork \in Nat /\ a * MaxWork + MaxDelay + MaxDelay <= Margin
    BY <2>2, MarginFacts
  <2> DEFINE w == a * MaxWork
  <2>4. w \in Nat /\ w + MaxDelay + MaxDelay <= Margin
    BY <2>3
  <2> HIDE DEF w
  <2>5. \A h \in Nat : Timeout > w - h + MaxDelay + Interval + MaxDelay
    BY <1>4, <2>4
  <2> QED
    BY <1>1, <1>2, <2>1, <2>5 DEF w
<1>11. HeldInTime'
  BY <1>1, <1>4 DEF HeldInTime
<1>12. NextInTime'
  <2> SUFFICES ASSUME read' < Len(line') PROVE deadline' > 0 /\ deadline' > MaxDelay - waited'[line'[read' + 1]]
    BY DEF NextInTime
  <2>1. line[read' + 1] \in Callers
    BY <1>1
  <2> QED
    BY SMTT(30), <1>1, <1>4, <1>6, <2>1
<1> QED
  BY <1>7, <1>8, <1>9, <1>10, <1>11, <1>12

\* The handler is done with the first CALL in line.
LEMMA EnqueueMain ==
    ASSUME LoadInv, LineInv, MainInv, enqueue
    PROVE  MainInv'
<1> USE ConstantFacts, WireFacts
<1>1. /\ pc = "serving" /\ busy = TRUE /\ busy' = FALSE /\ line' = Tail(line) /\ read' = read - 1
      /\ UNCHANGED <<cfg, deadline, work, waited, left, heartbeat>>
  BY DEF enqueue, loadVars, watchVars, LoadInv, TypeOK, WireTypeOK
<1>2. Interval' = Interval /\ Timeout' = Timeout /\ Ample' = Ample
  BY <1>1, AmpleSame
<1>3. /\ line # <<>> /\ Head(line) = line[1] /\ line[1] \in Callers /\ 1 \in 1 .. read
      /\ Len(line') = Len(line) - 1
      /\ \A a \in 1 .. Len(line) - 1 : line'[a] = line[a + 1]
  <2>1. read > 0
    BY <1>1 DEF LoadInv, TypeOK, WireTypeOK
  <2>2. line # <<>>
    BY <2>1
  <2> QED
    BY <1>1, <2>1, <2>2, TailElements
<1>4. /\ phase[line[1]] = "waiting" => Enter(line[1], "answered")
      /\ phase[line[1]] # "waiting" => UNCHANGED <<phase, clock>>
  BY <1>3 DEF enqueue
<1>5. \/ UNCHANGED <<phase, clock>>
      \/ /\ phase["main"]' = phase["main"] /\ clock["main"]' = clock["main"]
      \/ /\ line[1] = "main" /\ phase["main"] = "waiting"
         /\ phase'["main"] = "answered" /\ clock'["main"] = 0
  BY <1>3, <1>4, EnterElse DEF LoadInv, TypeOK
<1>6. phase'["main"] # "ended" => phase["main"] # "ended"
  BY <1>5
<1> SUFFICES ASSUME phase'["main"] # "ended", Ample
             PROVE  /\ Told' /\ IdleInTime' /\ AnsweredInTime'
                    /\ WaitingInTime' /\ HeldInTime' /\ NextInTime'
  BY <1>1, <1>2 DEF MainInv
<1>7. Told /\ IdleInTime /\ AnsweredInTime /\ WaitingInTime /\ HeldInTime /\ NextInTime
  BY <1>1, <1>6 DEF MainInv
<1>8. Interval \in Nat /\ InHandler = work /\ InHandler' = 0
  BY <1>1 DEF Ample, Second, InHandler
<1>9. Blocked' <=> Blocked
  BY <1>1 DEF Blocked, Handling
<1>10. Told'
  BY <1>1, <1>2, <1>7 DEF Told
<1>11. IdleInTime'
  BY <1>1, <1>5, <1>7 DEF IdleInTime, Pause
<1>12. AnsweredInTime'
  <2>1. CASE line[1] = "main" /\ phase["main"] = "waiting"
    <3>1. deadline > 1 * MaxWork - work + MaxDelay + Interval + MaxDelay /\ 1 * MaxWork = MaxWork
      BY <1>3, <1>7, <1>8, <2>1 DEF WaitingInTime
    <3>2. phase'["main"] = "answered" => clock'["main"] = 0
      BY <1>4, <2>1, EnterElse DEF LoadInv, TypeOK
    <3> QED
      BY SMTT(30), <1>1, <1>2, <1>8, <3>1, <3>2 DEF AnsweredInTime
  <2>2. CASE ~(line[1] = "main" /\ phase["main"] = "waiting")
    BY <1>1, <1>2, <1>5, <1>7, <2>2 DEF AnsweredInTime
  <2> QED
    BY <2>1, <2>2
<1>13. WaitingInTime'
  <2> SUFFICES ASSUME phase'["main"] = "waiting", NEW a \in 1 .. read', line'[a] = "main"
               PROVE  deadline > a * MaxWork - 0 + MaxDelay + Interval + MaxDelay
    BY <1>1, <1>2, <1>8 DEF WaitingInTime
  <2>1. a \in Nat /\ a + 1 \in 1 .. read /\ line[a + 1] = "main"
    BY <1>1, <1>3
  <2>2. phase["main"] = "waiting"
    BY <1>5
  <2>3. deadline > (a + 1) * MaxWork - work + MaxDelay + Interval + MaxDelay
    BY <1>7, <1>8, <2>1, <2>2 DEF WaitingInTime
  <2>4. (a + 1) * MaxWork = a * MaxWork + MaxWork /\ a * MaxWork \in Nat
    BY <2>1, TimesNext
  <2> QED
    BY SMTT(30), <1>8, <2>3, <2>4
<1>14. HeldInTime'
  BY <1>1, <1>7, <1>9 DEF HeldInTime
<1>15. NextInTime'
  <2>1. read' < Len(line') => read < Len(line) /\ line'[read' + 1] = line[read + 1]
    BY <1>1, <1>3
  <2> QED
    BY <1>1, <1>7, <1>9, <2>1 DEF NextInTime
<1> QED
  BY <1>10, <1>11, <1>12, <1>13, <1>14, <1>15

\* Half a second brings the deadline, and everything it waits for, nearer.
LEMMA TickMain ==
    ASSUME LoadInv, LineInv, MainInv, Tick
    PROVE  MainInv'
<1> USE ConstantFacts, WireFacts
<1>1. /\ pc = "serving"
      /\ UNCHANGED <<cfg, line, read, busy, phase, left, heartbeat>>
      /\ deadline' = IF deadline > 0 THEN deadline - 1 ELSE 0
      /\ work' = IF busy THEN work + 1 ELSE 0
      /\ read > 0 => busy /\ work < MaxWork
      /\ read < Len(line) /\ ~Blocked => waited[line[read + 1]] < MaxDelay
      /\ phase["main"] = "answered" => clock["main"] < MaxDelay
      /\ phase["main"] = "idle" => clock["main"] < Pause("main")
  BY DEF Tick, loadVars, pongHandler
<1>2. /\ \A c \in Callers : clock'[c] =
            IF phase[c] = "answered" \/ (c = "main" /\ phase[c] = "idle")
              THEN clock[c] + 1 ELSE clock[c]
      /\ \A c \in Callers : waited'[c] =
            IF phase[c] \in {"waiting", "answered"} THEN waited[c] + 1 ELSE waited[c]
  BY DEF Tick
<1>3. Interval' = Interval /\ Timeout' = Timeout /\ Ample' = Ample
  BY <1>1, AmpleSame
<1> SUFFICES ASSUME phase["main"] # "ended", Ample
             PROVE  /\ Told' /\ IdleInTime' /\ AnsweredInTime'
                    /\ WaitingInTime' /\ HeldInTime' /\ NextInTime'
  BY <1>1, <1>3 DEF MainInv
<1>4. Told /\ IdleInTime /\ AnsweredInTime /\ WaitingInTime /\ HeldInTime /\ NextInTime
  BY <1>1 DEF MainInv
<1>5. /\ Interval \in Nat /\ Interval >= Second /\ clock["main"] \in Nat
      /\ \A c \in Callers : waited[c] \in Nat
  BY DEF Ample, Second, LoadInv, TypeOK, WireTypeOK
<1>6. Pause("main") \in Nat /\ Pause("main")' = Pause("main")
  BY <1>1, <1>4, <1>5, PauseFacts DEF Pause
<1>7. Told'
  BY <1>1, <1>3, <1>4 DEF Told
<1>7a. /\ deadline \in Nat /\ work \in Nat /\ Interval \in Nat
      /\ MaxDelay \in Nat /\ MaxWork \in Nat
  BY <1>5
<1>8. IdleInTime'
  <2> SUFFICES ASSUME phase["main"] = "idle"
               PROVE  /\ clock'["main"] <= Pause("main")
                      /\ deadline' > Pause("main") - clock'["main"] + MaxDelay
    BY <1>1, <1>6 DEF IdleInTime
  <2> DEFINE k == clock["main"]
             rest == Pause("main")
  <2>1. clock'["main"] = k + 1 /\ k < rest
    BY <1>1, <1>2
  <2>2. k \in Nat /\ rest \in Nat /\ deadline > rest - k + MaxDelay
    BY <1>4, <1>5, <1>6 DEF IdleInTime
  <2> HIDE DEF k, rest
  <2>3. k + 1 <= rest /\ deadline > 0 /\ deadline - 1 > rest - (k + 1) + MaxDelay
    BY <1>7a, <2>1, <2>2
  <2> QED
    BY <1>1, <2>1, <2>3 DEF rest
<1>9. AnsweredInTime'
  <2> SUFFICES ASSUME phase["main"] = "answered"
               PROVE  /\ clock'["main"] <= MaxDelay
                      /\ deadline' > MaxDelay - clock'["main"] + Interval + MaxDelay
    BY <1>1, <1>3 DEF AnsweredInTime
  <2> DEFINE k == clock["main"]
  <2>1. clock'["main"] = k + 1 /\ k < MaxDelay
    BY <1>1, <1>2
  <2>2. k \in Nat /\ deadline > MaxDelay - k + Interval + MaxDelay
    BY <1>4, <1>5 DEF AnsweredInTime
  <2> HIDE DEF k
  <2>3. k + 1 <= MaxDelay /\ deadline > 0
        /\ deadline - 1 > MaxDelay - (k + 1) + Interval + MaxDelay
    BY <1>7a, <2>1, <2>2
  <2> QED
    BY <1>1, <2>1, <2>3
<1>10. WaitingInTime'
  <2> SUFFICES ASSUME phase["main"] = "waiting", NEW a \in 1 .. read, line[a] = "main"
               PROVE  deadline' > a * MaxWork - InHandler' + MaxDelay + Interval + MaxDelay
    BY <1>1, <1>3 DEF WaitingInTime
  <2>1. busy /\ work < MaxWork
    BY <1>1
  <2>2. InHandler = work /\ InHandler' = work + 1
    BY <1>1, <2>1 DEF InHandler
  <2>3. deadline > a * MaxWork - work + MaxDelay + Interval + MaxDelay
    BY <1>4, <2>2 DEF WaitingInTime
  <2>4. a \in Nat /\ 1 <= a
    BY <1>1
  <2>5. a * MaxWork \in Nat /\ 1 * MaxWork <= a * MaxWork /\ 1 * MaxWork = MaxWork
    BY <2>4, TimesMonotone
  <2> DEFINE w == a * MaxWork
  <2>6. w \in Nat /\ MaxWork <= w /\ deadline > w - work + MaxDelay + Interval + MaxDelay
    BY <2>3, <2>5
  <2> HIDE DEF w
  <2>7. deadline > 0 /\ deadline - 1 > w - (work + 1) + MaxDelay + Interval + MaxDelay
    BY <1>7a, <2>1, <2>6
  <2> QED
    BY <1>1, <2>2, <2>7 DEF w
<1>11. HeldInTime'
  <2> SUFFICES ASSUME Blocked PROVE deadline' > (IF busy THEN MaxWork - work' ELSE 0) + MaxDelay
    BY <1>1 DEF HeldInTime, Blocked, Handling
  <2>1. busy /\ work < MaxWork
    BY <1>1 DEF Blocked
  <2> QED
    BY SMTT(30), <1>1, <1>4, <2>1 DEF HeldInTime
<1>12. NextInTime'
  <2> SUFFICES ASSUME ~Blocked, read < Len(line)
               PROVE  deadline' > 0 /\ deadline' > MaxDelay - waited'[line[read + 1]]
    BY <1>1 DEF NextInTime, Blocked, Handling
  <2> DEFINE c == line[read + 1]
  <2>1. c \in Callers /\ read + 1 \in 1 .. Len(line)
    OBVIOUS
  <2>2. waited[c] < MaxDelay
    BY <1>1
  <2>3. phase[c] = "waiting"
    <3>1. phase[c] = "waiting" \/ waited[c] >= CallTimeout
      BY <2>1 DEF LineInv
    <3> QED
      BY <1>5, <2>1, <2>2, <3>1
  <2> DEFINE k == waited[c]
  <2>4. waited'[c] = k + 1 /\ k \in Nat
    BY <1>2, <1>5, <2>1, <2>3
  <2>5. k < MaxDelay /\ deadline > MaxDelay - k
    BY <1>4, <2>2 DEF NextInTime
  <2> HIDE DEF k
  <2>6. deadline - 1 > 0 /\ deadline - 1 > MaxDelay - (k + 1)
    BY <1>7a, <2>4, <2>5
  <2> QED
    BY <1>1, <1>7a, <2>4, <2>6
<1> QED
  BY <1>7, <1>8, <1>9, <1>10, <1>11, <1>12

\* A caller's own steps: the main line pauses as it was told, and a CALL that
\* finds everything read is the next to be read.
LEMMA CallMain ==
    ASSUME LoadInv, LineInv, MainInv, NEW c \in Callers, Call(c)
    PROVE  MainInv'
<1> USE ConstantFacts, WireFacts
<1>1. /\ pc = "serving" /\ phase[c] = "idle" /\ Enter(c, "waiting") /\ line' = Append(line, c)
      /\ UNCHANGED <<cfg, read, busy, work, waited, left, heartbeat, deadline>>
  BY DEF Call, loadVars, watchVars
<1>2. Interval' = Interval /\ Timeout' = Timeout /\ Ample' = Ample
  BY <1>1, AmpleSame
<1>3. /\ phase'[c] = "waiting"
      /\ c # "main" => phase'["main"] = phase["main"] /\ clock'["main"] = clock["main"]
  BY <1>1, EnterElse DEF LoadInv, TypeOK
<1> SUFFICES ASSUME phase["main"] # "ended", Ample
             PROVE  /\ Told' /\ IdleInTime' /\ AnsweredInTime'
                    /\ WaitingInTime' /\ HeldInTime' /\ NextInTime'
  BY <1>1, <1>2, <1>3 DEF MainInv
<1>4. Told /\ IdleInTime /\ AnsweredInTime /\ WaitingInTime /\ HeldInTime /\ NextInTime
  BY <1>1 DEF MainInv
<1>5. /\ Len(line') = Len(line) + 1 /\ line'[Len(line) + 1] = c
      /\ \A a \in 1 .. Len(line) : line'[a] = line[a]
  BY <1>1, AppendElements
<1>6. Told'
  BY <1>1, <1>2, <1>4 DEF Told
<1>7. IdleInTime'
  BY <1>1, <1>3, <1>4 DEF IdleInTime, Pause
<1>8. AnsweredInTime'
  BY <1>1, <1>2, <1>3, <1>4 DEF AnsweredInTime
<1>9. WaitingInTime'
  <2>1. \A a \in 1 .. read : a \in 1 .. Len(line) /\ line'[a] = line[a] /\ line[a] # c
    BY <1>1, <1>5 DEF LineInv
  <2>2. InHandler' = InHandler
    BY <1>1 DEF InHandler
  <2>3. CASE c = "main"
    BY <1>1, <2>1, <2>3 DEF WaitingInTime
  <2>4. CASE c # "main"
    BY <1>1, <1>2, <1>3, <1>4, <2>1, <2>2, <2>4 DEF WaitingInTime
  <2> QED
    BY <2>3, <2>4
<1>10. HeldInTime'
  BY <1>1, <1>4 DEF HeldInTime, Blocked, Handling
<1>11. NextInTime'
  <2>1. CASE read < Len(line)
    <3>1. line'[read + 1] = line[read + 1] /\ read < Len(line')
      BY <1>5, <2>1
    <3> QED
      BY <1>1, <1>4, <2>1, <3>1 DEF NextInTime, Blocked, Handling
  <2>2. CASE read = Len(line)
    <3>1. deadline > MaxDelay
      BY <1>1, <2>2, NextIsNear
    <3>2. line'[read + 1] = c /\ waited[c] \in Nat
      BY <1>5, <2>2 DEF LoadInv, TypeOK, WireTypeOK
    <3> QED
      BY <1>1, <3>1, <3>2 DEF NextInTime
  <2> QED
    BY <2>1, <2>2
<1> QED
  BY <1>6, <1>7, <1>8, <1>9, <1>10, <1>11

LEMMA AnsweredMain ==
    ASSUME LoadInv, LineInv, MainInv, NEW c \in Callers, Answered(c)
    PROVE  MainInv'
<1> USE ConstantFacts, WireFacts
<1>1. /\ pc = "serving" /\ pc' = pc
      /\ phase[c] = "answered"
      /\ Enter(c, "idle") \/ Enter(c, "ended")
      /\ UNCHANGED <<cfg, line, read, busy, work, deadline>>
      /\ left' = IF c = "main" /\ left > 0 THEN left - 1 ELSE left
      /\ heartbeat' = IF c = "main" /\ left = Initial + 1 THEN boot ELSE heartbeat
      /\ waited' = [waited EXCEPT ![c] = 0]
  BY DEF Answered, loadVars, wireVars, watchVars
<1>2. Interval' = Interval /\ Timeout' = Timeout /\ Ample' = Ample
  BY <1>1, AmpleSame
<1>3. /\ phase'[c] \in {"idle", "ended"} /\ clock'[c] = 0
      /\ c # "main" => phase'["main"] = phase["main"] /\ clock'["main"] = clock["main"]
  BY <1>1, EnterElse DEF LoadInv, TypeOK
<1>4. phase'["main"] # "ended" => phase["main"] # "ended"
  BY <1>1, <1>3
<1> SUFFICES ASSUME phase'["main"] # "ended", Ample
             PROVE  /\ Told' /\ IdleInTime' /\ AnsweredInTime'
                    /\ WaitingInTime' /\ HeldInTime' /\ NextInTime'
  BY <1>1, <1>2 DEF MainInv
<1>5. Told /\ IdleInTime /\ AnsweredInTime /\ WaitingInTime /\ HeldInTime /\ NextInTime
  BY <1>1, <1>4 DEF MainInv
<1>6. Interval \in Nat /\ Interval >= Second
  BY DEF Ample, Second
<1>7. left \in 0 .. Initial + 1 /\ left' \in 0 .. Initial + 1 /\ heartbeat' \in Nat
      /\ clock["main"] \in Nat
  <2>1. boot \in Nat
    BY <1>1, BootFacts DEF LoadInv, TypeOK
  <2> QED
    BY <1>1, <2>1 DEF LoadInv, TypeOK, WireTypeOK
<1>8. Told'
  <2>1. CASE c = "main" /\ left = Initial + 1
    <3>1. boot <= Interval
      BY <1>1, <1>6, BootFacts DEF LoadInv, TypeOK
    <3> QED
      BY <1>1, <1>2, <2>1, <3>1 DEF Told
  <2>2. CASE ~(c = "main" /\ left = Initial + 1)
    <3>1. left' <= Initial => left <= Initial
      BY <1>1, <1>7, <2>2
    <3> QED
      BY <1>1, <1>2, <1>5, <2>2, <3>1 DEF Told
  <2> QED
    BY <2>1, <2>2
<1>9. Pause("main")' \in Nat /\ Pause("main")' <= Interval
  BY <1>2, <1>6, <1>7, <1>8 DEF Pause, Told, Second
<1>10. IdleInTime'
  <2>1. CASE c = "main"
    <3>1. clock["main"] <= MaxDelay /\ deadline > MaxDelay - clock["main"] + Interval + MaxDelay
      BY <1>1, <1>5, <2>1 DEF AnsweredInTime
    <3>2. deadline > Interval + MaxDelay
      BY SMTT(30), <1>6, <1>7, <3>1
    <3>3. clock'["main"] = 0 /\ deadline' = deadline
      BY <1>1, <1>3, <2>1
    <3> DEFINE rest == Pause("main")'
    <3>4. rest \in Nat /\ rest <= Interval
      BY <1>9
    <3> HIDE DEF rest
    <3>5. 0 <= rest /\ deadline > rest - 0 + MaxDelay
      BY <1>6, <3>2, <3>4
    <3> QED
      BY <3>3, <3>5 DEF rest, IdleInTime
  <2>2. CASE c # "main"
    BY <1>1, <1>3, <1>5, <2>2 DEF IdleInTime, Pause
  <2> QED
    BY <2>1, <2>2
<1>11. AnsweredInTime'
  BY <1>1, <1>2, <1>3, <1>5 DEF AnsweredInTime
<1>12. WaitingInTime'
  BY <1>1, <1>2, <1>3, <1>5 DEF WaitingInTime, InHandler
<1>13. HeldInTime'
  BY <1>1, <1>5 DEF HeldInTime, Blocked, Handling
<1>14. NextInTime'
  <2> SUFFICES ASSUME ~Blocked, read < Len(line)
               PROVE  deadline > 0 /\ deadline > MaxDelay - waited'[line[read + 1]]
    BY <1>1 DEF NextInTime, Blocked, Handling
  <2>1. read + 1 \in 1 .. Len(line) /\ line[read + 1] \in Callers
    OBVIOUS
  <2>2. line[read + 1] # c
    BY <1>1, <2>1 DEF LineInv
  <2>3. waited'[line[read + 1]] = waited[line[read + 1]]
    BY <1>1, <2>1, <2>2 DEF LoadInv, TypeOK, WireTypeOK
  <2> QED
    BY <1>5, <2>3 DEF NextInTime
<1> QED
  BY <1>8, <1>10, <1>11, <1>12, <1>13, <1>14

LEMMA TimedOutMain ==
    ASSUME LoadInv, MainInv, NEW c \in Callers, TimedOut(c)
    PROVE  MainInv'
<1>1. /\ pc = "serving" /\ Enter(c, "ended")
      /\ UNCHANGED <<cfg, line, read, busy, work, deadline, left, heartbeat, waited>>
  BY DEF TimedOut, wireVars, watchVars
<1>2. Interval' = Interval /\ Timeout' = Timeout /\ Ample' = Ample
  BY <1>1, AmpleSame
<1>3. /\ phase'[c] = "ended"
      /\ c # "main" => phase'["main"] = phase["main"] /\ clock'["main"] = clock["main"]
  BY <1>1, ConstantFacts, EnterElse DEF LoadInv, TypeOK
<1>4. CASE c = "main"
  BY <1>3, <1>4 DEF MainInv
<1>5. CASE c # "main"
  <2>1. Told /\ IdleInTime /\ AnsweredInTime /\ WaitingInTime /\ HeldInTime /\ NextInTime
          => Told' /\ IdleInTime' /\ AnsweredInTime' /\ WaitingInTime' /\ HeldInTime' /\ NextInTime'
    BY <1>1, <1>2, <1>3, <1>5 DEF Told, IdleInTime, AnsweredInTime, WaitingInTime, HeldInTime,
       NextInTime, Pause, InHandler, Blocked, Handling
  <2> QED
    BY <1>1, <1>2, <1>3, <1>5, <2>1 DEF MainInv
<1> QED
  BY <1>4, <1>5

\* The handler takes the next CALL, and the reader goes on if it was held up.
LEMMA DispatchMain ==
    ASSUME LoadInv, SilenceInv, MainInv, dispatch
    PROVE  MainInv'
<1> USE ConstantFacts, WireFacts
<1>1. /\ pc = "serving" /\ busy = FALSE /\ busy' = TRUE /\ work' = 0
      /\ UNCHANGED <<cfg, line, read, deadline, phase, clock, left, heartbeat, waited>>
  BY DEF dispatch, loadVars, stationVars, watchVars, LoadInv, TypeOK, WireTypeOK
<1>2. Interval' = Interval /\ Timeout' = Timeout /\ Ample' = Ample
  BY <1>1, AmpleSame
<1> SUFFICES ASSUME phase["main"] # "ended", Ample
             PROVE  /\ Told' /\ IdleInTime' /\ AnsweredInTime'
                    /\ WaitingInTime' /\ HeldInTime' /\ NextInTime'
  BY <1>1, <1>2 DEF MainInv
<1>3. Told /\ IdleInTime /\ AnsweredInTime /\ WaitingInTime /\ HeldInTime /\ NextInTime
  BY <1>1 DEF MainInv
<1>4. InHandler = 0 /\ InHandler' = 0 /\ Handling = 0 /\ Handling' = 1
  BY <1>1 DEF InHandler, Handling
<1>5. ~Blocked'
  BY <1>1, <1>4 DEF SilenceInv, Blocked
<1>6. Told' /\ IdleInTime' /\ AnsweredInTime' /\ WaitingInTime' /\ HeldInTime'
  BY <1>1, <1>2, <1>3, <1>4, <1>5
  DEF Told, IdleInTime, AnsweredInTime, WaitingInTime, HeldInTime, Pause
<1>7. NextInTime'
  <2>1. CASE Blocked
    <3>1. deadline > 0 + MaxDelay
      BY <1>1, <1>3, <2>1 DEF HeldInTime
    <3>2. read < Len(line) => waited[line[read + 1]] \in Nat
      BY SMTT(30) DEF LoadInv, TypeOK, WireTypeOK
    <3> QED
      BY <1>1, <3>1, <3>2 DEF NextInTime
  <2>2. CASE ~Blocked
    BY <1>1, <1>3, <2>2 DEF NextInTime
  <2> QED
    BY <2>1, <2>2
<1> QED
  BY <1>6, <1>7

\* The first deadline.
LEMMA ConnectMain ==
    ASSUME LoadInv, Connect
    PROVE  MainInv'
<1> USE ConstantFacts, WireFacts
<1>1. /\ pc = "loaded" /\ deadline' = Timeout
      /\ UNCHANGED <<cfg, line, read, busy, work, phase, clock, left, heartbeat, waited>>
  BY DEF Connect, Goto, wireVars, stationVars
<1>2. /\ line = <<>> /\ read = 0 /\ busy = FALSE /\ left = Initial + 1
      /\ phase["main"] = "idle" /\ clock["main"] = 0
  BY <1>1 DEF LoadInv, QuietInv
<1>3. Interval' = Interval /\ Timeout' = Timeout /\ Ample' = Ample
  BY <1>1, AmpleSame
<1> SUFFICES ASSUME Ample
             PROVE  /\ Told' /\ IdleInTime' /\ AnsweredInTime'
                    /\ WaitingInTime' /\ HeldInTime' /\ NextInTime'
  BY <1>3 DEF MainInv
<1>4. Interval \in Nat /\ Margin \in Nat /\ Margin >= MaxDelay + MaxDelay + MaxWork
      /\ Timeout > Interval + Margin
  BY <1>1, MarginFacts DEF Ample
<1>5. Handling' = 0 /\ ~Blocked' /\ Pause("main")' = 0
  BY <1>1, <1>2 DEF Handling, Blocked, Pause
<1>6. Told' /\ AnsweredInTime' /\ WaitingInTime' /\ HeldInTime' /\ NextInTime'
  BY <1>1, <1>2, <1>5 DEF Told, AnsweredInTime, WaitingInTime, HeldInTime, NextInTime
<1>7. IdleInTime'
  BY <1>1, <1>2, <1>4, <1>5 DEF IdleInTime
<1> QED
  BY <1>6, <1>7

LEMMA StepMain ==
    ASSUME LoadInv, LineInv, SilenceInv, MainInv, [Next]_vars
    PROVE  MainInv'
<1>1. CASE Loading
  <2>1. pc' # "serving"
    BY <1>1 DEF Loading, Load, decode, normalize, applyDefaults, validateCharger, validateServer,
       validateAuth, validateOCPI, validateLocation, validateEVSE, validateConnector, validated,
       Goto, Decided
  <2> QED
    BY <2>1 DEF MainInv
<1>2. CASE Connect \/ ReadMessage \/ dispatch \/ enqueue \/ Tick
  BY <1>2, ConnectMain, ReadMain, DispatchMain, EnqueueMain, TickMain
<1>3. ASSUME NEW c \in Callers, Call(c) \/ Answered(c) \/ TimedOut(c) PROVE MainInv'
  BY <1>3, CallMain, AnsweredMain, TimedOutMain
<1>4. CASE Expire
  BY <1>4 DEF Expire, Goto, MainInv
<1>5. CASE Stopped \/ UNCHANGED vars
  BY SMTT(30), <1>5 DEF Stopped, vars, loadVars, wireVars, stationVars, watchVars, MainInv, Ample, Told,
     IdleInTime, AnsweredInTime, WaitingInTime, HeldInTime, NextInTime, Interval, Timeout, Pause,
     InHandler, Blocked, Handling
<1> QED
  BY <1>1, <1>2, <1>3, <1>4, <1>5 DEF Next

\* The read does not fail while the station keeps its time.
LEMMA StepPunctual ==
    ASSUME LoadInv, LineInv, MainInv, PunctualIsKept, [Next]_vars
    PROVE  PunctualIsKept'
<1> USE ConstantFacts, WireFacts
<1>1. CASE Expire
  <2>1. /\ pc = "serving" /\ ~Blocked /\ deadline = 0
        /\ UNCHANGED <<cfg, phase>>
    BY <1>1 DEF Expire, Goto, stationVars
  <2>2. Interval' = Interval /\ Timeout' = Timeout /\ Margin' = Margin
    BY <2>1 DEF Interval, Timeout, Margin
  <2> SUFFICES ASSUME phase["main"] # "ended", ~(Interval < Second \/ Timeout <= Interval + Margin)
               PROVE  FALSE
    BY <2>1, <2>2 DEF PunctualIsKept
  <2>3. Ample
    BY <2>1, MarginFacts DEF Ample, Second
  <2>4. CASE read < Len(line)
    BY <2>1, <2>3, <2>4 DEF MainInv, NextInTime
  <2>5. CASE read = Len(line)
    BY <2>1, <2>3, <2>5, NextIsNear
  <2> QED
    BY <2>4, <2>5
<1>2. CASE ~Expire
  <2>1. pc' = "dropped" => pc = "dropped" /\ UNCHANGED vars
    BY <1>2
       DEF Next, vars, loadVars, Loading, Load, decode, normalize, applyDefaults, validateCharger,
       validateServer, validateAuth, validateOCPI, validateLocation, validateEVSE,
       validateConnector, validated, Goto, Decided, Connect, Call, Answered, TimedOut,
       ReadMessage, dispatch, enqueue, Tick, Stopped
  <2> QED
    BY <2>1 DEF PunctualIsKept, vars, loadVars, stationVars, Interval, Timeout, Margin
<1> QED
  BY <1>1, <1>2

\* A station that heartbeats as it was told is never dropped, whatever the
\* interval, the timeout, the number of reporters, the room in the channel and
\* the delays, as long as the timeout exceeds the interval by the margin.
THEOREM PunctualIsKeptHolds == Spec => []PunctualIsKept
<1>1. HeartbeatInit => MainInv /\ PunctualIsKept
  BY DEF HeartbeatInit, Init, MainInv, PunctualIsKept
<1>2. Spec => []SilenceInv
  BY InitSilence, StepSilence, LoadHolds, PTL DEF Spec
<1>3. Spec => []MainInv
  BY <1>1, <1>2, StepMain, LoadHolds, LineHolds, PTL DEF Spec
<1> QED
  BY <1>1, <1>3, StepPunctual, LoadHolds, LineHolds, PTL DEF Spec

=============================================================================
