----------------------------- MODULE MCServices -----------------------------
(* Small instances of the parts of Services.  The parts a behaviour is not  *)
(* about start in one initial state only.                                   *)
EXTENDS Services

CONSTANTS u1, u2, c1, c2, r1, r2, k1, k2, k3, m1, m2, a, b, short, long, pic

TwoUsers == {u1, u2}
TwoChannels == {c1, c2}
ThreeNames == {short, b, long}
OneLongName == {long}
TwoTexts == {a, b}
OneAvatar == {pic}
TwoChecks == {k1, k2}
ThreeCalls == {k1, k2, k3}
TwoMessages == {m1, m2}
TwoRooms == {r1, r2}

\* Two rooms that differ in their case only, a channel and an emoji that share a text,
\* and a value too long for MySQL.
StoredA == {"room", "Room", "chan"}
StoredB == {"chan", "other"}
StoredV == {"x", "y", "long"}
LongTexts == {"long"}
LowerCase == [t \in StoredA \cup StoredB \cup StoredV |-> IF t = "Room" THEN "room" ELSE t]

MCInit ==
    /\ part \in Parts
    /\ P!Init /\ R!Init /\ B!Init
    /\ Q!Init /\ (part # "queue" => channel = [t \in 1..NumTasks |-> c1])
    /\ E!Init /\ (part # "emoji" => backend = "sqlite")
    /\ U!Init /\ (part # "user" => uSlack = [name |-> a, avatar |-> pic])
    /\ (part # "room" => room.text = a /\ subject = "name" /\ namePrefix)
    /\ (subject = "topic" => namePrefix)
    /\ IF part = "messages" THEN M!Init
       ELSE M!Init /\ kind = [c \in Calls |-> "upsert"] /\ msg = [c \in Calls |-> m1]
    /\ S!Init /\ (part # "stores" => store = "rooms")
    \* The rooms are alike: one of the two bridged is the first.
    /\ G!Init /\ IF part = "members" THEN mapped # {r2} ELSE mapped = {}

MCSpec == MCInit /\ [][Next]_vars
=============================================================================
