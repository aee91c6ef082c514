------------------------------- MODULE Wildcard -------------------------------
(***************************************************************************)
(* matchTextWithWildcards() of wildcard.cpp, character by character: the   *)
(* pattern becomes a regular expression by a chain of replacements, each   *)
(* over the result of the one before.  A string is a sequence of           *)
(* characters, a character a string of length one.                         *)
(***************************************************************************)
EXTENDS Integers, SequencesExt

\* EscapeRegex(): what is escaped, in this order.
Special == << "\\", "^", ".", "$", "|", "(", ")", "[", "]", "*", "+", "?", "/", "{", "}" >>

\* boost::replace_all() of one character by itself and a backslash before it.
Escape(s, c) ==
    FlattenSeq([i \in DOMAIN s |-> IF s[i] = c THEN << "\\", c >> ELSE << s[i] >>])

EscapeEach(s, order) ==
    LET after[k \in 0 .. Len(order)] == IF k = 0 THEN s ELSE Escape(after[k - 1], order[k])
    IN  after[Len(order)]

\* Mutant: the backslash comes last.
BackslashLast(s) == EscapeEach(s, Append(Tail(Special), "\\"))

EscapeRegex(s) == EscapeEach(s, Special)

\* boost::replace_all() of a backslash and c.
ReplaceEscaped(s, c, new) ==
    LET At(i) == i \in 1 .. Len(s) - 1 /\ s[i] = "\\" /\ s[i + 1] = c
    IN  FlattenSeq([i \in DOMAIN s |->
            IF At(i) THEN new ELSE IF At(i - 1) THEN << >> ELSE << s[i] >>])

Regex(pattern) ==
    ReplaceEscaped(ReplaceEscaped(EscapeRegex(pattern), "?", << "." >>),
                   "*", << ".", "*" >>)

\* boost::regex_match() on the expressions that occur: a character, an escaped
\* character or a full stop, perhaps followed by a star.  m[i]: the places of
\* the text from where the rest of it matches the expression from i on.
RegexMatch(text, r) ==
    LET m[i \in 1 .. Len(r) + 1] ==
            IF i > Len(r) THEN {Len(text) + 1}
            ELSE LET next    == i + (IF r[i] = "\\" /\ i < Len(r) THEN 2 ELSE 1)
                     starred == next <= Len(r) /\ r[next] = "*"
                     rest    == m[IF starred THEN next + 1 ELSE next]
                     fits    == {j \in DOMAIN text : r[i] = "." \/ r[next - 1] = text[j]}
                 IN  IF starred
                     THEN {j \in 1 .. Len(text) + 1 : \E k \in rest : j <= k /\ j .. k - 1 \subseteq fits}
                     ELSE {j \in fits : j + 1 \in rest}
    IN  1 \in m[1]

Match(text, pattern) == RegexMatch(text, Regex(pattern))

\* What a pattern means (README, "Exclude files using wildcards"): ? stands for
\* any character, * for any characters, every other character for itself.
Glob(text, pattern) ==
    LET g[i \in 1 .. Len(pattern) + 1] ==
            IF i > Len(pattern) THEN {Len(text) + 1}
            ELSE LET rest == g[i + 1]
                 IN  IF pattern[i] = "*"
                     THEN {j \in 1 .. Len(text) + 1 : \E k \in rest : j <= k}
                     ELSE {j \in DOMAIN text : /\ pattern[i] = "?" \/ pattern[i] = text[j]
                                               /\ j + 1 \in rest}
    IN  1 \in g[1]

-----------------------------------------------------------------------------
(* The exclude file and its use. *)

Blank == {" "}

\* loadExcludes(): every line that is not blank, trimmed.
Trimmed(line) ==
    LET ink == {i \in DOMAIN line : line[i] \notin Blank}
    IN  IF ink = {} THEN << >> ELSE SubSeq(line, Min(ink), Max(ink))

LoadExcludes(lines) == {Trimmed(l) : l \in lines} \ {<< >>}

\* A path as it is written.
Joined(path) ==
    FlattenSeq([i \in DOMAIN path |-> IF i = 1 THEN path[i] ELSE << "/" >> \o path[i]])

Exclude(path, patterns) ==
    \E w \in patterns :
        IF Contains(w, "/") THEN Match(Joined(path), w)
        ELSE \E i \in DOMAIN path : Match(path[i], w)
===============================================================================
