---------------------------- MODULE MCPagedReader ----------------------------
(***************************************************************************)
(* PagedReader on two subtasks of two key-groups each. The handles cover   *)
(* what OpContext::open tells apart; the blocks hold up to three keys, so  *)
(* that pages are cut inside a block, at its end and at the operator's end.*)
(***************************************************************************)
EXTENDS PagedReader

MCMaxParallelism == 4
MCParallelism == 2
MCLimits == {0, 2}
MCBudgets == {0, 4}
MCStartOrdinals == {0, 1}

Handle(kind, open, header, start0, offsets, len, names) ==
    [kind |-> kind, open |-> open, header |-> header, start |-> start0,
     offsets |-> offsets, len |-> len, names |-> names]

\* A readable stream of two blocks, of one (the other key-group empty), one
\* whose second key-group is recorded past the end of the file, one without a
\* readable header, one without a file, no state at all, an unsupported handle.
HandlesAt(k, names) == {
    Handle("key_groups", "ok", TRUE, k, <<2, 5>>, 9, names),
    Handle("key_groups", "ok", TRUE, k, <<0, 2>>, 5, names),
    Handle("key_groups", "ok", TRUE, k, <<2, 9>>, 9, names),
    Handle("key_groups", "ok", FALSE, k, <<2, 5>>, 9, names),
    Handle("key_groups", "error", TRUE, k, <<2, 5>>, 9, names),
    Handle("null", "no_stream", TRUE, k, <<>>, 0, names),
    Handle("unsupported", "no_stream", TRUE, k, <<0, 0>>, 0, names)}

Key(hit, ids) == [hit |-> hit, ids |-> ids]

\* Keys of the four key-groups; entries repeat a state and use an unknown id.
MCKeys == <<
    <<Key(TRUE, <<0, 0, 1>>), Key(FALSE, <<1>>), Key(TRUE, <<0>>)>>,
    <<Key(TRUE, <<1>>)>>,
    <<Key(FALSE, <<0>>), Key(TRUE, <<1, 0>>)>>,
    <<Key(TRUE, <<0>>), Key(TRUE, <<0, 1>>)>> >>

MCSavepoint(h0, h1, bad) ==
    LET bare == [sub |-> (0 :> h0 @@ 1 :> h1)]
        may == {k \in KeyGroups : MayHoldKeys(bare, k)}
    IN  [sub    |-> bare.sub,
         blocks |-> [k \in KeyGroups |-> IF k \in may THEN MCKeys[k + 1] ELSE <<>>] @@ <<>>,
         defect |-> [k \in KeyGroups |-> k \in may /\ k \in bad] @@ <<>>]

MCSavepoints ==
    {MCSavepoint(h0, h1, bad) : h0 \in HandlesAt(0, <<"a", "b">>),
                                h1 \in HandlesAt(2, <<"b">>),
                                bad \in {{}, {0, 3}}}
=============================================================================
