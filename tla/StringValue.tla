---------------------------- MODULE StringValue ----------------------------
(***************************************************************************)
(* The bytes Flink's StringValue writes for a string: its number of UTF-16 *)
(* units plus one, then the units, each of variable length (written by     *)
(* src/src/parser/key_group.rs, read by src/src/parser/java_deser.rs).     *)
(***************************************************************************)
EXTENDS Integers, Sequences, FiniteSets, SequencesExt, FiniteSetsExt

\* write_var: seven bits to a byte, the high bit when more follow.
WriteVar(v) ==
    LET from[n \in 0 .. v] ==
            IF n >= 128 THEN <<128 + (n % 128)>> \o from[n \div 128] ELSE <<n>>
    IN  from[v]

\* write_utf16_value: the number of units plus one, then the units.
WriteUnits(units) ==
    WriteVar(Len(units) + 1) \o FlattenSeq([i \in DOMAIN units |-> WriteVar(units[i])])

\* JavaReader::read_vint at position p, at most five bytes: the value and where it ends.
ReadVint(bytes, p) ==
    LET more(i) == i <= Len(bytes) /\ bytes[i] >= 128
        ends == {i \in p .. Min({p + 4, Len(bytes)}) :
                    bytes[i] < 128 /\ \A k \in p .. i - 1 : more(k)}
        e == CHOOSE i \in ends : TRUE
    IN  IF ends = {} THEN [ok |-> FALSE, v |-> 0, next |-> p]
        ELSE [ok |-> TRUE, next |-> e + 1,
              v |-> FoldFunctionOnSet(+, 0, [i \in p .. e |-> (bytes[i] % 128) * 128 ^ (i - p)],
                                      p .. e)]

\* read_nullable_string_units: the units at the start of bytes and where they end; a
\* count of 0 is a null string.
ReadUnits(bytes) ==
    LET count == ReadVint(bytes, 1)
        from[i \in 0 .. count.v] ==
            IF i = 0 THEN [ok |-> TRUE, null |-> FALSE, units |-> <<>>, next |-> count.next]
            ELSE LET before == from[i - 1]
                     unit == ReadVint(bytes, before.next)
                 IN  IF before.ok /\ unit.ok
                     THEN [before EXCEPT !.units = Append(@, unit.v % 65536), !.next = unit.next]
                     ELSE [before EXCEPT !.ok = FALSE]
    IN  IF ~count.ok THEN [ok |-> FALSE, null |-> FALSE, units |-> <<>>, next |-> 1]
        ELSE IF count.v = 0 THEN [ok |-> TRUE, null |-> TRUE, units |-> <<>>, next |-> count.next]
        ELSE from[count.v - 1]
=============================================================================
