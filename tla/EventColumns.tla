----------------------------- MODULE EventColumns -----------------------------
(***************************************************************************)
(* The events and comms sections of a .brp: a count, string tables, then   *)
(* one column at a time, as the Go writer lays them out and the page reads *)
(* them back.  A section is a sequence of cells, one to a varint or to a   *)
(* string; of a position's two coordinates one is kept.                    *)
(***************************************************************************)
EXTENDS Integers, Sequences, SequencesExt

Column(s, field) == [i \in DOMAIN s |-> s[i][field]]

\* A column of differences, and the sums that undo it.
Differences(s) == [i \in DOMAIN s |-> s[i] - (IF i = 1 THEN 0 ELSE s[i - 1])]
Sums(s) == FoldLeft(LAMBDA acc, d : Append(acc, d + (IF acc = <<>> THEN 0 ELSE Last(acc))), <<>>, s)

\* intern: a table in the order of first appearance, and the indices into it.
intern(s) == FoldLeft(LAMBDA tab, v : IF v \in Range(tab) THEN tab ELSE Append(tab, v), <<>>, s)
Indices(s) == LET tab == intern(s) IN [i \in DOMAIN s |-> (CHOOSE k \in DOMAIN tab : tab[k] = s[i]) - 1]
writeStringTable(tab) == <<Len(tab)>> \o tab

CauseColumns == <<"id", "def", "team", "weapon">>
UnknownCause == [id |-> -1, def |-> -1, team |-> -1, weapon |-> -1]

\* Frame and unit id as differences; since version 6 four more columns, -1 where unknown.
encodeEvents(events, version) ==
    LET kinds == Column(events, "k")
        Cause(e) == IF e.cause = {} THEN UnknownCause ELSE CHOOSE c \in e.cause : TRUE
        causes == [i \in DOMAIN events |-> Cause(events[i])]
    IN <<Len(events)>> \o writeStringTable(intern(kinds))
       \o Differences(Column(events, "f")) \o Indices(kinds) \o Differences(Column(events, "id"))
       \o Column(events, "def") \o Column(events, "team")
       \o (IF version < 6 THEN <<>>
           ELSE FlattenSeq([c \in 1..4 |-> Column(causes, CauseColumns[c])]))

\* The page's reading: the cause columns are there when cells are left after the team's.
decodeEvents(b) ==
    LET n == b[1]
        first == 3 + b[2]
        Col(k) == SubSeq(b, first + k * n, first + (k + 1) * n - 1)
        frames == Sums(Col(0))
        ids == Sums(Col(2))
        Caused(i) == [id |-> Col(5)[i], def |-> Col(6)[i], team |-> Col(7)[i], weapon |-> Col(8)[i]]
        Known(c) == \E field \in DOMAIN c : c[field] >= 0
    IN [i \in 1..n |->
           [f |-> frames[i], k |-> b[3 + Col(1)[i]], id |-> ids[i], def |-> Col(3)[i], team |-> Col(4)[i],
            cause |-> IF first + 5 * n - 1 < Len(b) /\ Known(Caused(i)) THEN {Caused(i)} ELSE {}]]

\* Positions as differences from the comm before, a line's far end from its own near end.
encodeComms(comms) ==
    LET kinds == Column(comms, "k")
        dests == Column(comms, "d")
        near == Differences(Column(comms, "x"))
    IN <<Len(comms)>> \o writeStringTable(intern(kinds)) \o writeStringTable(intern(dests))
       \o Differences(Column(comms, "f")) \o Indices(kinds) \o Indices(dests) \o Column(comms, "p")
       \o FlattenSeq([i \in DOMAIN comms |-> <<near[i], comms[i].x2 - comms[i].x>>])
       \o Column(comms, "t") \o Column(comms, "n")

decodeComms(b) ==
    LET n == b[1]
        dests == 3 + b[2]                    \* the cell of the second table's length
        first == dests + 1 + b[dests]
        Col(k) == SubSeq(b, first + k * n, first + (k + 1) * n - 1)
        pairs == SubSeq(b, first + 4 * n, first + 6 * n - 1)
        frames == Sums(Col(0))
        near == Sums([i \in 1..n |-> pairs[2 * i - 1]])
    IN [i \in 1..n |->
           [f |-> frames[i], k |-> b[3 + Col(1)[i]], d |-> b[dests + 1 + Col(2)[i]], p |-> Col(3)[i],
            x |-> near[i], x2 |-> near[i] + pairs[2 * i], t |-> Col(6)[i], n |-> Col(7)[i]]]

\* A capture without comms has no section for them.
Written(s) ==
    [E |-> encodeEvents(s.events, s.version), C |-> IF s.comms = <<>> THEN <<>> ELSE encodeComms(s.comms)]
Opened(sections) ==
    [events |-> decodeEvents(sections.E),
     comms |-> IF sections.C = <<>> THEN <<>> ELSE decodeComms(sections.C)]
=============================================================================
