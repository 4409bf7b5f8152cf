------------------------------ MODULE MCFiles -------------------------------
EXTENDS Files

CONSTANTS od, ox, oy, na, nb   \* files of the host, names

\* Three devices, each of which has a file with the number 2.
MCDev == (Root :> 1) @@ (od :> 1) @@ (ox :> 2) @@ (oy :> 3)
MCIno == (Root :> 1) @@ (od :> 2) @@ (ox :> 2) @@ (oy :> 2)

\* od is na and ox is nb; oy is made by others or by a create.
MCHost == (od :> [up |-> Root, name |-> na]) @@ (ox :> [up |-> Root, name |-> nb])
          @@ (oy :> None)

MCWalks == {<<>>, <<na>>, <<nb>>, <<na, nb>>, <<DotDot, nb>>}

Symmetry == Permutations(Fids) \union Permutations(Slaves)
=============================================================================
