--------------------------- MODULE MCStateExport ---------------------------
(* Two operators, the first with two subtasks, over all kinds of subtask.  *)
EXTENDS StateExport

CONSTANTS op1, op2

MCOps == {op1, op2}

Block(entries, defect, inflates) ==
    [entries |-> entries, defect |-> defect, inflates |-> inflates]
S(name, type) == [name |-> name, type |-> type]
E(id, v) == [id |-> id, v |-> v]
Empty == Block(<<>>, FALSE, TRUE)

\* Its stateIds swapped between two subtasks, another value type, a block that is
\* malformed or does not inflate, the state not registered, nothing at all.
MCSubtasks ==
    { [states |-> <<S("s", "Long"), S("other", "String")>>,
       blocks |-> <<Block(<<E(1, "long"), E(1, "null"), E(2, "text")>>, FALSE, TRUE), Empty,
                    Block(<<E(1, "marker")>>, FALSE, TRUE)>>],
      [states |-> <<S("other", "Pojo"), S("s", "String")>>,
       blocks |-> <<Block(<<E(1, "object"), E(2, "text")>>, FALSE, TRUE)>>],
      [states |-> <<S("s", "Double")>>,
       blocks |-> <<Block(<<E(1, "double")>>, TRUE, TRUE), Block(<<E(1, "nan")>>, FALSE, TRUE)>>],
      [states |-> <<S("s", "Pojo")>>,
       blocks |-> <<Block(<<E(1, "object")>>, FALSE, FALSE)>>],
      [states |-> <<S("other", "Long")>>,
       blocks |-> <<Block(<<E(1, "long")>>, FALSE, TRUE)>>],
      [states |-> <<>>, blocks |-> <<>>] }

OnFile(t, f) == [states |-> t.states, blocks |-> t.blocks, file |-> f]
\* What became of op1's files, and of op2's only one.
MCFiles == {<<"ok", "ok">>, <<"missing", "ok">>, <<"ok", "unreadable">>, <<"none", "ok">>}
MCSavepoints ==
    {[o \in MCOps |-> IF o = op1 THEN <<OnFile(a, f[1]), OnFile(b, f[2])>> ELSE <<OnFile(c, "ok")>>] :
        a \in {t \in MCSubtasks : Registers(t, "s") /\ \A i \in DOMAIN t.blocks : t.blocks[i].inflates},
        b \in MCSubtasks, f \in MCFiles,
        c \in {t \in MCSubtasks : t.states \in {<<S("s", "Long"), S("other", "String")>>, <<S("other", "Long")>>}}}
=============================================================================
