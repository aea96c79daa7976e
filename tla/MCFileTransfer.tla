--------------------------- MODULE MCFileTransfer ---------------------------
(* FileTransfer on small instances. *)
EXTENDS FileTransfer, TLC

CONSTANTS c1, c2, mine1, mine2, old

\* Each client has a name of its own; one of them may also try one that is taken.
WantedOwn == (c1 :> {mine1, old}) @@ (c2 :> {mine2})
\* Both clients want the same name.
WantedSame == (c1 :> {mine1}) @@ (c2 :> {mine1})
=============================================================================
