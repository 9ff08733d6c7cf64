----------------------------- MODULE MCCorpus -----------------------------
(***************************************************************************)
(* A corpus of two fixtures: a yEnc one with a withheld article, which can *)
(* only be seeded at the scattered size, and a uuencoded one, whose        *)
(* articles carry the same payload at either size.                         *)
(***************************************************************************)
EXTENDS Corpus

MCFixtures == <<"scattered", "uu">>
MCManifest ==
    [scattered |-> [encoding |-> "yenc", archive |-> <<[path |-> 1, size |-> 4]>>, withheld |-> <<>>,
                    order |-> <<1>>, faults |-> <<<<1, 2>>>>],
     uu |-> [encoding |-> "uuencode", archive |-> <<[path |-> 1, size |-> 2]>>, withheld |-> <<>>,
             order |-> <<1>>, faults |-> <<>>]]
MCLimit == [generate |-> 1, seed |-> 2, attest |-> 1, capture |-> 1, restore |-> 1, operator |-> 2, loss |-> 1]
=============================================================================
