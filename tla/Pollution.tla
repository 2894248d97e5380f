------------------------------- MODULE Pollution -------------------------------
(***************************************************************************)
(* Erlang/lab2/src/pollution.erl, and its copy in lab3: operations on a    *)
(* monitor, which maps the names of stations to their locations and        *)
(* measurements.  An operation gives a monitor, an error text or raises an *)
(* exception.  Values are left out: no operation looks at them to decide.  *)
(***************************************************************************)
EXTENDS Naturals, Sequences, FiniteSets, SequencesExt

CONSTANTS Names, Locations, Times, Types

Measurements == [time : Times, type : Types]
Stations == [loc : Locations, list : Seq(Measurements)]

\* A station is named, or given by its location {X, Y}.
Refs == [by : {"name"}, id : Names] \cup [by : {"loc"}, id : Locations]

Monitor(m) == [tag |-> "map", stations |-> m]
Text == [tag |-> "text", stations |-> <<>>]
Raised == [tag |-> "raised", stations |-> <<>>]

createMonitor == Monitor(<<>>)

\* Mutant: only a station with the same name and location is refused.
AddStationAnd(name, loc, m) ==
    IF \E n \in DOMAIN m : n = name /\ m[n].loc = loc
    THEN Text
    ELSE Monitor([n \in DOMAIN m \cup {name} |-> IF n = name THEN [loc |-> loc, list |-> <<>>] ELSE m[n]])

AddStation(name, loc, m) ==
    IF \E n \in DOMAIN m : n = name \/ m[n].loc = loc
    THEN Text
    ELSE Monitor([n \in DOMAIN m \cup {name} |-> IF n = name THEN [loc |-> loc, list |-> <<>>] ELSE m[n]])

\* The stations a reference means.  getName raises case_clause unless there is
\* exactly one at a location: no clause matches the empty list.
Meant(ref, m) == {n \in DOMAIN m : IF ref.by = "name" THEN n = ref.id ELSE m[n].loc = ref.id}
Missing(ref) == IF ref.by = "name" THEN Text ELSE Raised
Found(ref, m) == Cardinality(Meant(ref, m)) = 1

WithList(m, n, list) == Monitor([m EXCEPT ![n].list = list])

\* float(Val) raises badarg unless Val is a number.
AddValue(ref, meas, isNumber, m) ==
    IF ~isNumber THEN Raised
    ELSE IF ~Found(ref, m) THEN Missing(ref)
    ELSE LET n == CHOOSE n \in Meant(ref, m) : TRUE IN
         IF Contains(m[n].list, meas) THEN Text ELSE WithList(m, n, <<meas>> \o m[n].list)

\* The filter keeps what is not the measurement.
Without(list, meas) ==
    LET kept[i \in 0 .. Len(list)] ==
            IF i = 0 THEN <<>>
            ELSE IF list[i] = meas THEN kept[i - 1] ELSE Append(kept[i - 1], list[i])
    IN  kept[Len(list)]

RemoveValue(ref, meas, m) ==
    IF ~Found(ref, m) THEN Missing(ref)
    ELSE LET n == CHOOSE n \in Meant(ref, m) : TRUE IN WithList(m, n, Without(m[n].list, meas))

\* What the readers answer: Text stands for any answer.
\* getOneValue has no clause for two measurements of a time and type.
GetOneValue(ref, meas, m) ==
    IF ~Found(ref, m) THEN Missing(ref)
    ELSE LET n == CHOOSE n \in Meant(ref, m) : TRUE
             same(x) == x = meas
         IN  IF Len(SelectSeq(m[n].list, same)) <= 1 THEN Text ELSE Raised

\* Both clauses of getStationMean are for a location.
GetStationMean(ref, m) == IF ref.by = "loc" /\ Found(ref, m) THEN Text ELSE Raised
=================================================================================
