---------------------------- MODULE MCRunSession ----------------------------
(***************************************************************************)
(* TLC instances of RunSession.                                            *)
(***************************************************************************)
EXTENDS RunSession

\* Every kind of statement alone, pairs that follow each other in practice,
\* and an empty program.
MCPrograms ==
    {<<>>} \cup {<<k>> : k \in StatementKinds}
           \cup {<<"exec", "train">>, <<"train", "predict">>, <<"predict", "query">>,
                 <<"show", "run">>, <<"explain", "evaluateInto">>}

MCPair == {<<"exec", "query">>}
=============================================================================
