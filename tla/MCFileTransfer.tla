--------------------------- MODULE MCFileTransfer ---------------------------
(* Instances of FileTransfer for TLC. *)
EXTENDS FileTransfer
CONSTANT f

\* An empty file, one of MaxPieces pieces with or without a NUL byte in front, and
\* one that cannot be read.
MCRequests ==
    {r \in AllRequests : /\ r.pieces \in {Unreadable, 0, MaxPieces}
                         /\ r.nul => r.pieces = MaxPieces}
=============================================================================
