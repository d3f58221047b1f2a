---------------------------- MODULE MCFileStore ----------------------------
EXTENDS FileStore, TLC

CONSTANTS h1, h2, r1, r2, add

\* The file is added on h1; one reader runs there and one on h2.
MCSite == r1 :> h1 @@ r2 :> h2 @@ add :> h1

\* The new file is larger than the old one.
Larger == 1 :> 1 @@ 2 :> 2
=============================================================================
