---------------------------- MODULE MCHeartbeat ----------------------------
(***************************************************************************)
(* The files Load is given: a good one, and every way of spoiling one part *)
(* of it.                                                                  *)
(***************************************************************************)
EXTENDS Heartbeat, TLC

CONSTANTS Intervals, Timeouts, r1, r2

MCTexts ==
    {"ok", "empty", "unknown field", "two documents", "", "blank", "good", "bad", "short", "spaced",
     "long", "any", "h1", "h2", "A", "C", "1", "2", "u1", "u2", "u3", "e1", "e2", "e3"}

Unset == Duration("unset", 0)
NoBind == [text |-> "", host |-> "", port |-> 0]

GoodConnector ==
    [id |-> "1", standard |-> "good", format |-> "good", power_type |-> "good",
     max_voltage |-> 230, max_amperage |-> 32, max_electric_power |-> 0]

EVSE(uid, evse_id, n) ==
    [uid |-> uid, evse_id |-> evse_id, connector |-> n, connectors |-> <<GoodConnector>>]

Good ==
    [file |-> "ok",
     plain |-> [f \in PlainFields |-> IF f \in Optional THEN "" ELSE "good"],
     durations |-> [d \in DurationFields |-> Unset],
     binds |-> [b \in BindFields |-> NoBind],
     tokens |-> [token_a |-> "A", token_c |-> "C"],
     retries |-> 0,
     evses |-> <<EVSE("u1", "e1", 1)>>]

Files == {[Good EXCEPT !.file = f] : f \in {"empty", "unknown field", "two documents"}}

Plains == {[Good EXCEPT !.plain[f] = v] : f \in PlainFields, v \in {"", "blank", "bad"}}

\* Pairs of durations, and the ways of writing one wrongly.
Timings ==
    {[Good EXCEPT !.durations["interval"] = Duration("ok", a),
                  !.durations["timeout"] = Duration("ok", b)] :
        a \in Intervals, b \in Timeouts}
    \cup {[Good EXCEPT !.durations[d] = v] :
            d \in DurationFields,
            v \in {Duration("junk", 0), Duration("tree", 0), Duration("ok", 0), Duration("ok", -1)}}

Binds ==
    LET Some == {NoBind}
                \cup [text : {"good"}, host : {"any", "h1", "h2"}, port : {0, 8080, 9000}]
                \cup [text : {"blank", "bad"}, host : {"h1"}, port : {9000}]
                \cup [text : {"good"}, host : {"h1", "bad"}, port : {-1, 65536, 9000}]
    IN  {[Good EXCEPT !.binds = [ocpp |-> a, ocpi |-> b]] : a \in Some, b \in Some}

Pushes ==
    {[Good EXCEPT !.tokens = [token_a |-> a, token_c |-> c], !.retries = n] :
        a \in {"", "blank", "A", "C", "short", "spaced"},
        c \in {"", "A", "C", "short"}, n \in {-1, 0, 3}}

\* Lists of up to three EVSEs that share uids, EVSE ids and connectors.
Addresses ==
    LET Some == {EVSE(u, e, n) : u \in {"blank", "u1", "u2"}, e \in {"e1", "bad"}, n \in 0 .. 2}
    IN  {[Good EXCEPT !.evses = s] : s \in {<<>>} \cup (UNION {[1 .. n -> Some] : n \in 1 .. 2})}
        \cup {[Good EXCEPT !.evses = <<EVSE(u, "e1", 1), EVSE("u2", "e2", m), EVSE(v, w, n)>>] :
                u \in {"u1", "long"}, v \in {"u1", "u2", "u3", "long"}, w \in {"e1", "e3", ""},
                m \in 1 .. 2, n \in 1 .. 3}

Outlets ==
    LET Some == {[GoodConnector EXCEPT !.id = d, !.standard = s, !.max_voltage = v,
                                       !.max_electric_power = p] :
                    d \in {"blank", "1", "2"}, s \in {"", "bad", "good"}, v \in {0, 230}, p \in {-1, 0}}
    IN  {[Good EXCEPT !.evses = <<[EVSE("u1", "e1", 1) EXCEPT !.connectors = s], EVSE("u2", "e2", 2)>>] :
            s \in {<<>>} \cup [1 .. 2 -> Some]}

MCInputs == Files \cup Plains \cup Timings \cup Binds \cup Pushes \cup Addresses \cup Outlets

Symmetry == Permutations(Reporters)
=============================================================================
