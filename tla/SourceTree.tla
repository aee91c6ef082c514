------------------------------ MODULE SourceTree ------------------------------
(***************************************************************************)
(* CSourceParser walking the source folder into a tree of CAssets, and the *)
(* lookups the deleter makes in that tree afterwards.                      *)
(*                                                                         *)
(* A path is a sequence of names, a name a sequence of characters; the     *)
(* folder's entries come in any order.  A link to the folder it is in is   *)
(* an entry of kind "loop": status() follows links, so the walk enters it  *)
(* again and again, until a path has more links than the system follows    *)
(* and status() throws.                                                    *)
(***************************************************************************)
EXTENDS FiniteSets, Wildcard

CONSTANTS
    Sources,        \* source folders: functions from paths to kinds
    Lines,          \* what an exclude file may contain
    RemotePaths,    \* CRemoteLs::paths()
    MaxLinks,       \* links the system follows in one path (40 on Linux)
    Depth           \* the depth to which WalkExact looks for paths

Kind == {"file", "folder", "loop", "other"}
Name == Seq(STRING)

\* Entries are in folders, and a link's name is no other entry's.
ASSUME SourceAssumption ==
    /\ \A s \in Sources :
           /\ DOMAIN s \subseteq Seq(Name) \ {<< >>}
           /\ \A p \in DOMAIN s :
                  /\ s[p] \in Kind
                  /\ Front(p) = << >> \/ (Front(p) \in DOMAIN s /\ s[Front(p)] = "folder")
                  /\ \A q \in DOMAIN s : s[p] = "loop" /\ Last(q) = Last(p) => s[q] = "loop"
    /\ \A l \in Lines : l \subseteq Name
    /\ RemotePaths \subseteq Seq(Name)
    /\ MaxLinks \in Nat /\ Depth \in Nat

VARIABLES
    source,     \* the source folder
    patterns,   \* COptions::_excludes
    aborted,    \* CContext::_aborted
    assets,     \* every CAsset, in the order of their creation; the root first
    stack,      \* the calls of parseRec() under way, the outermost first
    parser,     \* "walk", "done", "threw"
    toCheck, deleted,   \* the deleter's paths; what it has deleted
    \* history
    late        \* assets created since the abort

vars == <<source, patterns, aborted, assets, stack, parser, toCheck, deleted, late>>

Asset(name, parent, folder) ==
    [name |-> name, parent |-> parent, folder |-> folder, childs |-> << >>]

\* getRelativePath()
RelativePath(a) ==
    LET path[k \in DOMAIN assets] ==
            IF assets[k].parent = 0 THEN << >>
            ELSE Append(path[assets[k].parent], assets[k].name)
    IN  path[a]

\* The links in a path, and the place it leads to when they are followed.
Links(path) == {i \in DOMAIN path : \E p \in DOMAIN source :
                                        source[p] = "loop" /\ Last(p) = path[i]}
Target(path) ==
    FlattenSeq([i \in DOMAIN path |-> IF i \in Links(path) THEN << >> ELSE << path[i] >>])
KindOf(path) ==
    IF Len(path) \in Links(path) THEN "loop" ELSE source[Target(path)]

Entries(path) ==
    {Last(p) : p \in {q \in DOMAIN source : Front(q) = Target(path)}}

Init ==
    /\ source \in Sources
    /\ \E l \in Lines : patterns = LoadExcludes(l)
    /\ aborted = FALSE
    /\ assets = << Asset(<< >>, 0, TRUE) >>
    /\ stack = << [asset |-> 1, at |-> "call", entries |-> {},
                   entry |-> << >>, next |-> 1] >>
    /\ parser = "walk"
    /\ toCheck = RemotePaths /\ deleted = {}
    /\ late = 0

-----------------------------------------------------------------------------
(* parseRec(): the folder's entries first, then one call for each child.   *)

Top == stack[Len(stack)]

At(where) == parser = "walk" /\ stack # << >> /\ Top.at = where

Set(frame) == stack' = [stack EXCEPT ![Len(stack)] = frame]

walkRest == <<source, patterns, aborted, toCheck, deleted>>

Return ==
    /\ stack' = Front(stack)
    /\ UNCHANGED <<walkRest, assets, parser, late>>

\* A file has no entries, and an aborting program looks at none.
CallReturns ==
    /\ At("call")
    /\ ~ assets[Top.asset].folder \/ aborted
    /\ Return

Open ==
    /\ At("call")
    /\ assets[Top.asset].folder /\ ~ aborted
    /\ Set([Top EXCEPT !.at = "entries", !.entries = Entries(RelativePath(Top.asset))])
    /\ UNCHANGED <<walkRest, assets, parser, late>>

\* Mutant: the loop over the entries does not ask for the abort.
GoesOnAnyway == Top.entries # {}

GoesOn == ~ aborted /\ Top.entries # {}

\* Mutant: the iterator stays where it is.
TakeAgain ==
    /\ At("entries") /\ GoesOn
    /\ \E e \in Top.entries : Set([Top EXCEPT !.at = "entry", !.entry = e])
    /\ UNCHANGED <<walkRest, assets, parser, late>>

\* The next entry: the abort may come between the question and the answer.
Take ==
    /\ At("entries") /\ GoesOn
    /\ \E e \in Top.entries :
           Set([Top EXCEPT !.at = "entry", !.entry = e, !.entries = @ \ {e}])
    /\ UNCHANGED <<walkRest, assets, parser, late>>

Path == Append(RelativePath(Top.asset), Top.entry)

\* Excluded, or neither a file nor a folder.
Skip ==
    /\ At("entry")
    /\ Exclude(Path, patterns) \/ KindOf(Path) = "other"
    /\ Set([Top EXCEPT !.at = "entries"])
    /\ UNCHANGED <<walkRest, assets, parser, late>>

\* CAsset's constructor appends the new asset to its parent's children.
NewAsset ==
    /\ At("entry")
    /\ ~ Exclude(Path, patterns) /\ KindOf(Path) # "other"
    /\ Cardinality(Links(Path)) <= MaxLinks
    /\ assets' = Append([assets EXCEPT ![Top.asset].childs = Append(@, Len(assets) + 1)],
                        Asset(Top.entry, Top.asset, KindOf(Path) # "file"))
    /\ Set([Top EXCEPT !.at = "entries"])
    /\ late' = IF aborted THEN late + 1 ELSE late
    /\ UNCHANGED <<walkRest, parser>>

\* A folder that may not be read, an entry that has just gone, too many links:
\* parse() ends without onDone().
Throw ==
    /\ \/ At("call") /\ assets[Top.asset].folder /\ ~ aborted
       \/ At("entries")
       \/ At("entry")
    /\ parser' = "threw" /\ stack' = << >>
    /\ UNCHANGED <<walkRest, assets, late>>

EntriesEnd ==
    /\ At("entries") /\ ~ GoesOn
    /\ Set([Top EXCEPT !.at = "childs", !.entries = {}])
    /\ UNCHANGED <<walkRest, assets, parser, late>>

ChildCount == Len(assets[Top.asset].childs)

Descend ==
    /\ At("childs") /\ Top.next <= ChildCount
    /\ stack' = Append([stack EXCEPT ![Len(stack)].next = @ + 1],
                       [asset |-> assets[Top.asset].childs[Top.next], at |-> "call",
                        entries |-> {}, entry |-> << >>, next |-> 1])
    /\ UNCHANGED <<walkRest, assets, parser, late>>

ChildsEnd ==
    /\ At("childs") /\ Top.next > ChildCount
    /\ Return

Done ==
    /\ parser = "walk" /\ stack = << >>
    /\ parser' = "done"
    /\ UNCHANGED <<walkRest, assets, stack, late>>

Parser ==
    \/ CallReturns \/ Open \/ Take \/ Skip \/ NewAsset \/ EntriesEnd
    \/ Descend \/ ChildsEnd \/ Throw \/ Done

-----------------------------------------------------------------------------
(* CAsset::find() goes down the tree name by name. *)

ChildByName(a, name) == {c \in ToSet(assets[a].childs) : assets[c].name = name}

\* Mutant: the name is looked for anywhere in the tree.
FindByName(path) == \E a \in DOMAIN assets : assets[a].name = Last(path)

Find(path) ==
    LET down[i \in 0 .. Len(path)] ==
            IF i = 0 THEN {1} ELSE UNION {ChildByName(a, path[i]) : a \in down[i - 1]}
    IN  down[Len(path)] # {}

Check(p) ==
    /\ parser # "walk" /\ ~ aborted
    /\ p \in toCheck /\ toCheck' = toCheck \ {p}
    /\ deleted' = IF Find(p) THEN deleted ELSE deleted \cup {p}
    /\ UNCHANGED <<source, patterns, aborted, assets, stack, parser, late>>

AbortElsewhere ==
    /\ ~ aborted /\ aborted' = TRUE
    /\ UNCHANGED <<source, patterns, assets, stack, parser, toCheck, deleted, late>>

Next == Parser \/ (\E p \in RemotePaths : Check(p)) \/ AbortElsewhere

Spec == Init /\ [][Next]_vars
-----------------------------------------------------------------------------
(* Properties *)

\* What the exclude file means: README's wildcards, on a path or on its name.
Hidden(path) ==
    \E w \in patterns : Glob(IF Contains(w, "/") THEN Joined(path) ELSE Last(path), w)

\* A path that one can walk to, through no hidden folder.  A link may be part of
\* it, so there can be more of them than the source folder has entries.
Visible(path) ==
    \A n \in 1 .. Len(path) :
        LET part == SubSeq(path, 1, n)
        IN  Last(part) \in Entries(Front(part)) /\ KindOf(part) # "other" /\ ~ Hidden(part)

\* The paths that WalkExact looks at.
Places == UNION {[1 .. n -> {Last(p) : p \in DOMAIN source}] : n \in 1 .. Depth}

\* No folder has two children of one name (the assertion in CAsset's
\* constructor), and a child knows the parent that knows it.
TypeOK ==
    /\ aborted \in BOOLEAN /\ parser \in {"walk", "done", "threw"}
    /\ toCheck \subseteq RemotePaths /\ deleted \subseteq RemotePaths \ toCheck
    /\ \A a \in DOMAIN assets :
           /\ assets[a].parent \in 0 .. a - 1
           /\ \A c \in ToSet(assets[a].childs) : assets[c].parent = a
           /\ \A c, d \in ToSet(assets[a].childs) :
                  assets[c].name = assets[d].name => c = d
    /\ \A i \in DOMAIN stack :
           /\ stack[i].asset \in DOMAIN assets
           /\ stack[i].at \in {"call", "entries", "entry", "childs"}
           /\ i > 1 => assets[stack[i].asset].parent = stack[i - 1].asset

\* A walk that ended by itself found everything that the exclude file does not
\* hide, each path once, and nothing else: however the chain of replacements in
\* matchTextWithWildcards() reads a pattern, and whatever a link to the folder it
\* is in does to the walk (which throws unless a pattern hides the path somewhere).
WalkExact ==
    parser = "done" /\ ~ aborted =>
        /\ \A p \in Places : Visible(p) => \E a \in DOMAIN assets : RelativePath(a) = p
        /\ \A a \in DOMAIN assets : Visible(RelativePath(a))
        /\ \A a, b \in DOMAIN assets : RelativePath(a) = RelativePath(b) => a = b
        /\ \A a \in 2 .. Len(assets) :
               assets[a].folder <=> KindOf(RelativePath(a)) # "file"

\* After a complete walk the deleter (main.cpp:672-700) deletes exactly the listed
\* paths it has looked at that are not there or that are excluded: a name that
\* exists elsewhere in the tree does not save a file, nor does a folder's.
DeletesExactly ==
    parser = "done" /\ ~ aborted => deleted = {p \in RemotePaths \ toCheck : ~ Visible(p)}

\* An abort stops the walk at once, in every folder on the way up: the parser
\* adds at most the asset it was about to make.
AbortStops == late <= 1
=============================================================================
