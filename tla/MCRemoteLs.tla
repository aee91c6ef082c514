----------------------------- MODULE MCRemoteLs -----------------------------
(***************************************************************************)
(* RemoteLs for TLC: a destination folder with a file, a folder with a     *)
(* file, and a folder with a marker that holds a file and another folder.  *)
(* A failing answer may have a line that is no path, e1, and for the first *)
(* folder one that ends in a slash, e2, answered by a line e3.             *)
(***************************************************************************)
EXTENDS RemoteLs, TLC

CONSTANTS f1, f2, f3, f4, d1, d2, d3, e1, e2, e3

MCFile    == {f1, f2, f3, f4, e1, e3}
MCFolder  == {Root, d1, d2, d3, e2}
MCForeign == {e1, e2, e3}
MCMarker  == {d2}
MCParent  == (f1 :> Root) @@ (d1 :> Root) @@ (d2 :> Root)
             @@ (f2 :> d2) @@ (d3 :> d2) @@ (f3 :> d3) @@ (f4 :> d1)
             @@ (e1 :> d2) @@ (e2 :> d1) @@ (e3 :> e2)
=============================================================================
