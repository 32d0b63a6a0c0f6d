------------------------ MODULE MCLeanClientProvider ------------------------
(* Two folders p and q, and the settings they are looked at in.               *)
EXTENDS LeanClientProvider, TLC

CONSTANTS p, q, k1, k2

\* One folder inside the other, and a user who lets each command end.
NestedFolders ==
    [folders |-> {p, q}, untitled |-> {}, nested |-> {<<p, q>>, <<q, p>>}, calls |-> {k1, k2},
     mishaps |-> {"crash", "stop", "action", "refuse"}]

\* A project and the unsaved files; every server that is started comes up.
UnsavedFiles ==
    [folders |-> {p, q}, untitled |-> {q}, nested |-> {}, calls |-> {k1},
     mishaps |-> AllMishaps \ {"start", "impatient"}]

\* One project, and everything that may go wrong.
AllAtOnce ==
    [folders |-> {p}, untitled |-> {}, nested |-> {}, calls |-> {k1},
     mishaps |-> AllMishaps]

EverySetting == {NestedFolders, UnsavedFiles, AllAtOnce}

\* One project whose server may fail to start.
NoStart ==
    {[folders |-> {p}, untitled |-> {}, nested |-> {}, calls |-> {k1, k2},
      mishaps |-> {"start"}]}

Symmetry == Permutations(Client) \cup Permutations(Server) \cup Permutations(Call)
=============================================================================
