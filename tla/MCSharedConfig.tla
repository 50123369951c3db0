---------------------------- MODULE MCSharedConfig ----------------------------
(***************************************************************************)
(* Small instances of SharedConfig.                                        *)
(***************************************************************************)
EXTENDS SharedConfig, TLC

CONSTANTS l1, l2, l3, start, alice, bob, program, x  \* model values

MCLinks        == {l1, l2, l3}
MCIdentities   == {alice, bob}
MCListed       == {}
MCWords        == {program, x}
MCCommand      == <<program>>
MCCommandLines == {<<>>, <<x>>}

\* No constant of the specification tells one link or one identity from another.
MCSymmetry == Permutations(MCLinks) \cup Permutations(MCIdentities)
==============================================================================
