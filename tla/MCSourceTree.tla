----------------------------- MODULE MCSourceTree -----------------------------
(***************************************************************************)
(* SourceTree for TLC: every pattern of up to PatternLength characters on  *)
(* a small folder with awkward names, and on one with a link to itself,    *)
(* with a longer one that hides the link after it was followed once.       *)
(***************************************************************************)
EXTENDS SourceTree

CONSTANT PatternLength

Alphabet == {"a", "b", ".", "*", "?", "/", "\\", " "}

MCLines ==
    {{}, {<<".", "*">>, <<" ", "*", "a", " ">>}, {<<"a", "/", "b", "/", "b">>}}
        \cup {{l} : l \in UNION {[1 .. n -> Alphabet] : n \in 1 .. PatternLength}}

a    == <<"a">>
b    == <<"b">>
aa   == <<".", "a">>
star == <<"*">>
bs   == <<"\\", "a">>

Plain ==
    (<<a>> :> "folder") @@ (<<a, aa>> :> "file") @@ (<<a, b>> :> "folder")
    @@ (<<a, b, bs>> :> "file") @@ (<<star>> :> "file") @@ (<<a, star>> :> "other")

Looping ==
    (<<a>> :> "folder") @@ (<<a, b>> :> "loop") @@ (<<a, aa>> :> "file")

MCSources == {Plain, Looping}

MCRemotePaths == {<<a, aa>>, <<a>>, <<b>>}
==============================================================================
