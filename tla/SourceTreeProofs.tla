--------------------------- MODULE SourceTreeProofs ---------------------------
(***************************************************************************)
(* Proofs about SourceTree, for any source folder, exclude file and listed *)
(* paths: the tree of assets and the calls under way stay well formed, an  *)
(* abort stops the walk, and a walk that ends by itself has found exactly  *)
(* what can be walked to and is not hidden, so that the deleter deletes    *)
(* exactly what it should.  What a pattern means is PatternsMean's, of     *)
(* OptionsProofs, and so is the induction over sets of numbers (NatSet)    *)
(* and of sequences (SeqSet).                                              *)
(***************************************************************************)
EXTENDS SourceTree, OptionsProofs

EntryName  == {<< >>} \cup {Last(p) : p \in DOMAIN source}
Node  == [name : EntryName, parent : Nat, folder : BOOLEAN, childs : Seq(Nat)]
Frame == [asset : Nat, at : {"call", "entries", "entry", "childs"},
          entries : SUBSET EntryName, entry : EntryName, next : Nat \ {0}]

(* The tree: a child comes after its parent, and has a name of its own.    *)
NodesOK ==
    /\ assets \in Seq(Node) /\ assets # << >>
    /\ \A a \in DOMAIN assets : assets[a].parent < a
    /\ \A a \in DOMAIN assets : \A k \in DOMAIN assets[a].childs :
           LET c == assets[a].childs[k]
           IN  /\ c \in DOMAIN assets /\ assets[c].parent = a
               /\ \A j \in DOMAIN assets[a].childs :
                      assets[assets[a].childs[j]].name = assets[c].name => j = k

(* What call i of parseRec() has not reached yet is empty, and what it has *)
(* still to make, new: so no folder is entered twice.                      *)
FrameOK(i) ==
    LET f == stack[i]  cs == assets[f.asset].childs
    IN  /\ f.asset \in DOMAIN assets
        /\ f.next <= Len(cs) + 1
        /\ \A k \in DOMAIN cs : k >= f.next => assets[cs[k]].childs = << >>
        /\ f.at = "call" => cs = << >>
        /\ f.at # "childs" => f.next = 1
        /\ f.at \in {"entries", "entry"} =>
               \A k \in DOMAIN cs : assets[cs[k]].name \notin f.entries
        /\ f.at = "entry" =>
               /\ f.entry \notin f.entries
               /\ \A k \in DOMAIN cs : assets[cs[k]].name # f.entry

(* Each call but the innermost is in its loop over the children, and made  *)
(* the next one for the child before f.next.                               *)
ChainOK ==
    /\ \A i, j \in DOMAIN stack : i < j => stack[i].asset < stack[j].asset
    /\ \A i \in DOMAIN stack : i < Len(stack) =>
           /\ stack[i].at = "childs" /\ stack[i].next > 1
           /\ stack[i + 1].asset = assets[stack[i].asset].childs[stack[i].next - 1]

AbortOK ==
    /\ late \in {0, 1}
    /\ late = 1 => aborted /\ \A i \in DOMAIN stack : stack[i].at # "entry"

RestOK ==
    /\ aborted \in BOOLEAN /\ parser \in {"walk", "done", "threw"}
    /\ toCheck \subseteq RemotePaths /\ deleted \subseteq RemotePaths \ toCheck

StackOK == stack \in Seq(Frame) /\ (\A i \in DOMAIN stack : FrameOK(i)) /\ ChainOK

TreeInv == NodesOK /\ StackOK /\ AbortOK /\ RestOK

-----------------------------------------------------------------------------
(* The innermost call is the last of the stack.                             *)
LEMMA TopFacts ==
    ASSUME stack \in Seq(Frame), stack # << >>
    PROVE  /\ Len(stack) \in Nat \ {0} /\ DOMAIN stack = 1 .. Len(stack)
           /\ Len(stack) \in DOMAIN stack
           /\ Top \in Frame /\ Top = stack[Len(stack)]
BY EmptySeq, LenProperties, ElementOfSeq DEF Top

(* Set replaces the innermost call and leaves the outer ones alone.         *)
LEMMA SetFacts ==
    ASSUME stack \in Seq(Frame), stack # << >>, NEW f \in Frame, Set(f), source' = source
    PROVE  /\ stack' \in Seq(Frame') /\ Frame' = Frame
           /\ Len(stack') = Len(stack) /\ DOMAIN stack' = DOMAIN stack
           /\ stack'[Len(stack)] = f
           /\ \A i \in DOMAIN stack : i # Len(stack) => stack'[i] = stack[i]
<1>1. Len(stack) \in 1 .. Len(stack) /\ DOMAIN stack = 1 .. Len(stack)
  BY TopFacts
<1>2. /\ stack' \in Seq(Frame) /\ Len(stack') = Len(stack)
      /\ \A i \in 1 .. Len(stack) : stack'[i] = IF i = Len(stack) THEN f ELSE stack[i]
  BY <1>1, ExceptSeq DEF Set
<1>3. Frame' = Frame
  BY DEF Frame, EntryName
<1> QED
  BY <1>1, <1>2, <1>3, LenProperties

(* A step that changes the innermost call and no asset.                    *)
LEMMA TopStep ==
    ASSUME NodesOK, StackOK, stack # << >>, assets' = assets, source' = source,
           NEW f \in Frame, Set(f), f.asset = Top.asset, f.next = Top.next,
           f.at = "call" => Top.at = "call",
           f.at # "childs" => Top.at # "childs",
           f.at \in {"entries", "entry"} =>
               \A k \in DOMAIN assets[f.asset].childs :
                   assets[assets[f.asset].childs[k]].name \notin f.entries,
           f.at = "entry" =>
               /\ f.entry \notin f.entries
               /\ \A k \in DOMAIN assets[f.asset].childs :
                      assets[assets[f.asset].childs[k]].name # f.entry
    PROVE  NodesOK' /\ StackOK'
<1>0. /\ stack' \in Seq(Frame') /\ Frame' = Frame
      /\ Len(stack') = Len(stack) /\ DOMAIN stack' = DOMAIN stack
      /\ stack'[Len(stack)] = f /\ DOMAIN stack = 1 .. Len(stack)
      /\ Len(stack) \in DOMAIN stack /\ Top = stack[Len(stack)] /\ Len(stack) \in Nat
      /\ \A i \in DOMAIN stack : i # Len(stack) => stack'[i] = stack[i]
  BY SetFacts, TopFacts DEF StackOK
<1>1. NodesOK'
  <2>1. Node' = Node
    BY DEF Node, EntryName
  <2> QED
    BY <2>1 DEF NodesOK
<1>2. ASSUME NEW i \in DOMAIN stack'
      PROVE  FrameOK(i)'
  <2>1. CASE i = Len(stack)
    <3>1. FrameOK(Len(stack))
      BY <1>0 DEF StackOK
    <3> QED
      BY <1>0, <2>1, <3>1 DEF FrameOK
  <2>2. CASE i # Len(stack)
    <3>1. FrameOK(i)
      BY <1>0 DEF StackOK
    <3> QED
      BY <1>0, <2>2, <3>1 DEF FrameOK
  <2> QED
    BY <2>1, <2>2
<1>3. ChainOK'
  <2>1. \A i \in DOMAIN stack : stack'[i].asset = stack[i].asset
    BY <1>0
  <2> QED
    BY <1>0, <2>1 DEF StackOK, ChainOK
<1> QED
  BY <1>0, <1>1, <1>2, <1>3 DEF StackOK

(* A call returns, or the walk ends.                                       *)
LEMMA PopStep ==
    ASSUME NodesOK, StackOK, stack # << >>, assets' = assets, source' = source,
           stack' = Front(stack)
    PROVE  NodesOK' /\ StackOK'
<1>0. /\ Len(stack) \in Nat \ {0} /\ DOMAIN stack = 1 .. Len(stack)
      /\ \A i \in DOMAIN stack : stack[i] \in Frame
  BY TopFacts, ElementOfSeq DEF StackOK
<1>1. /\ stack' \in Seq(Frame) /\ Len(stack') = Len(stack) - 1
      /\ \A i \in 1 .. Len(stack) - 1 : stack'[i] = stack[i]
  BY <1>0, SubSeqProperties DEF Front
<1>2. /\ Frame' = Frame /\ Node' = Node
      /\ DOMAIN stack' = 1 .. Len(stack) - 1
  BY <1>1, LenProperties DEF Frame, Node, EntryName
<1>3. NodesOK'
  BY <1>2 DEF NodesOK
<1>4. ASSUME NEW i \in DOMAIN stack'
      PROVE  FrameOK(i)'
  <2>1. FrameOK(i) /\ stack'[i] = stack[i]
    BY <1>0, <1>1, <1>2 DEF StackOK
  <2> QED
    BY <2>1 DEF FrameOK
<1>5. ChainOK'
  BY <1>0, <1>1, <1>2, SMTT(30) DEF StackOK, ChainOK
<1> QED
  BY <1>1, <1>2, <1>3, <1>4, <1>5 DEF StackOK

(* parseRec() is called for the next child, which has none of its own yet. *)
LEMMA DescendStep ==
    ASSUME NodesOK, StackOK, Descend
    PROVE  NodesOK' /\ StackOK'
<1> DEFINE n == Len(stack)
           cs == assets[Top.asset].childs
           c == cs[Top.next]
           f == [Top EXCEPT !.next = @ + 1]
           g == [asset |-> c, at |-> "call", entries |-> {}, entry |-> << >>, next |-> 1]
           old == [stack EXCEPT ![n] = f]
<1>0. /\ stack # << >> /\ Top.at = "childs" /\ Top.next <= Len(cs)
      /\ assets' = assets /\ source' = source
      /\ n \in Nat \ {0} /\ DOMAIN stack = 1 .. n /\ Top \in Frame /\ Top = stack[n]
      /\ stack \in Seq(Frame) /\ FrameOK(n)
  BY TopFacts DEF Descend, At, ChildCount, walkRest, StackOK
<1>1. /\ Top.asset \in DOMAIN assets /\ Top.next \in Nat \ {0} /\ cs \in Seq(Nat)
      /\ DOMAIN cs = 1 .. Len(cs) /\ Len(cs) \in Nat /\ Top.next \in DOMAIN cs
  <2>1. Top.asset \in DOMAIN assets /\ Top.next \in Nat \ {0}
    BY <1>0 DEF FrameOK, Frame
  <2>2. assets[Top.asset] \in Node
    BY <2>1, ElementOfSeq, LenProperties DEF NodesOK
  <2>3. cs \in Seq(Nat)
    BY <2>2 DEF Node
  <2> QED
    BY <1>0, <2>1, <2>3, LenProperties
<1>2. /\ c \in DOMAIN assets /\ assets[c].parent = Top.asset /\ Top.asset < c
      /\ assets[c].childs = << >> /\ c \in Nat
  <2>1. c \in DOMAIN assets /\ assets[c].parent = Top.asset
    BY <1>1 DEF NodesOK
  <2>2. assets[c].childs = << >>
    BY <1>0, <1>1 DEF FrameOK
  <2>3. DOMAIN assets = 1 .. Len(assets) /\ Len(assets) \in Nat
    BY LenProperties DEF NodesOK
  <2> QED
    BY <2>1, <2>2, <2>3 DEF NodesOK
<1>3. f \in Frame /\ g \in Frame
  <2> HIDE DEF c, cs
  <2>1. Top.next + 1 \in Nat \ {0}
    BY <1>1
  <2>2. f \in Frame
    BY <1>0, <2>1 DEF Frame
  <2>3. << >> \in EntryName
    BY DEF EntryName
  <2>4. g \in Frame
    BY <1>2, <2>3 DEF Frame
  <2> QED
    BY <2>2, <2>4
<1>4. /\ f.asset = Top.asset /\ f.at = "childs" /\ f.next = Top.next + 1
      /\ g.asset = c /\ g.at = "call" /\ g.next = 1
  BY <1>0, <1>1 DEF Frame
<1>5. /\ old \in Seq(Frame) /\ Len(old) = n /\ old[n] = f
      /\ \A i \in 1 .. n : i # n => old[i] = stack[i]
  BY <1>0, <1>3, ExceptSeq
<1>6. stack' = Append(old, g)
  <2>1. old = [stack EXCEPT ![n].next = @ + 1]
    BY DEF Top
  <2> QED
    BY <2>1 DEF Descend
<1> HIDE DEF f, g, old, c, n
<1>7. /\ stack' \in Seq(Frame) /\ Len(stack') = n + 1 /\ stack'[n + 1] = g /\ stack'[n] = f
      /\ \A i \in 1 .. n : i # n => stack'[i] = stack[i]
  BY <1>0, <1>3, <1>5, <1>6, AppendProperties
<1>8. /\ DOMAIN stack' = 1 .. n + 1 /\ Frame' = Frame /\ Node' = Node
  BY <1>0, <1>7, LenProperties DEF Frame, Node, EntryName
<1>9. NodesOK'
  BY <1>0, <1>8 DEF NodesOK
<1>10. ASSUME NEW i \in DOMAIN stack'
       PROVE  FrameOK(i)'
  <2>1. CASE i = n + 1
    BY <1>0, <1>2, <1>4, <1>7, <2>1 DEF FrameOK
  <2>2. CASE i = n
    <3>1. /\ stack'[i].asset = Top.asset /\ stack'[i].at = "childs"
          /\ stack'[i].next = Top.next + 1
      BY <1>4, <1>7, <2>2
    <3>2. \A k \in DOMAIN cs : k >= Top.next => assets[cs[k]].childs = << >>
      BY <1>0 DEF FrameOK
    <3>3. \A k \in DOMAIN cs : k >= Top.next + 1 => assets[cs[k]].childs = << >>
      BY <1>1, <3>2
    <3>4. /\ assets'[stack'[i].asset].childs = cs /\ DOMAIN assets' = DOMAIN assets
          /\ \A k \in DOMAIN cs : assets'[cs[k]] = assets[cs[k]]
      BY <1>0, <3>1
    <3>5. Top.next + 1 <= Len(cs) + 1 /\ Top.next + 1 \in Nat
      BY <1>0, <1>1
    <3> HIDE DEF cs
    <3> QED
      BY <1>1, <3>1, <3>3, <3>4, <3>5 DEF FrameOK
  <2>3. CASE i # n /\ i # n + 1
    <3>1. i \in DOMAIN stack /\ stack'[i] = stack[i]
      BY <1>0, <1>7, <1>8, <2>3
    <3>2. FrameOK(i)
      BY <3>1 DEF StackOK
    <3> QED
      BY <1>0, <3>1, <3>2 DEF FrameOK
  <2> QED
    BY <2>1, <2>2, <2>3
<1>11. ChainOK'
  <2>1. \A i \in 1 .. n : stack'[i].asset = stack[i].asset
    BY <1>0, <1>4, <1>7
  <2>2. \A i, j \in DOMAIN stack' : i < j => stack'[i].asset < stack'[j].asset
    <3>1. \A i \in 1 .. n : stack[i].asset < c
      <4>0. \A i \in 1 .. n : stack[i].asset \in Nat
        <5>1. \A i \in 1 .. n : stack[i] \in Frame
          BY <1>0, ElementOfSeq DEF n
        <5> QED
          BY <5>1 DEF Frame
      <4>1. \A i \in 1 .. n : stack[i].asset \in Nat /\ stack[i].asset <= Top.asset
        <5>1. ASSUME NEW i \in 1 .. n, i < n
              PROVE  stack[i].asset < stack[n].asset
          BY <1>0, <5>1 DEF StackOK, ChainOK
        <5>2. Top.asset = stack[n].asset /\ Top.asset \in Nat /\ n \in Nat
          BY <1>0, <4>0
        <5> QED
          BY <4>0, <5>1, <5>2
      <4> QED
        BY <1>0, <1>1, <1>2, <4>1 DEF Frame
    <3> QED
      BY <1>0, <1>4, <1>7, <1>8, <2>1, <3>1 DEF StackOK, ChainOK
  <2>3. ASSUME NEW i \in DOMAIN stack', i < Len(stack')
        PROVE  /\ stack'[i].at = "childs" /\ stack'[i].next > 1
               /\ stack'[i + 1].asset = assets'[stack'[i].asset].childs[stack'[i].next - 1]
    <3>1. CASE i = n
      <4>1. stack'[i].at = "childs" /\ stack'[i].next = Top.next + 1 /\ stack'[i].asset = Top.asset
        BY <1>4, <1>7, <3>1
      <4>2. stack'[i].next - 1 = Top.next /\ stack'[i].next > 1
        BY <1>1, <4>1
      <4>3. stack'[i + 1].asset = c
        BY <1>4, <1>7, <3>1
      <4> QED
        BY <1>0, <4>1, <4>2, <4>3 DEF c
    <3>2. CASE i # n
      <4>1. i \in DOMAIN stack /\ i < n /\ stack'[i] = stack[i] /\ i + 1 \in 1 .. n
        BY <1>0, <1>7, <1>8, <2>3, <3>2
      <4> QED
        BY <1>0, <2>1, <4>1 DEF StackOK, ChainOK, n
    <3> QED
      BY <3>1, <3>2
  <2> QED
    BY <2>2, <2>3 DEF ChainOK
<1> QED
  BY <1>7, <1>8, <1>9, <1>10, <1>11 DEF StackOK

(* What NewAsset does to the tree: it has one asset more, which is the      *)
(* last child of the folder being read.                                    *)
Growth ==
    LET n == Len(assets)  t == Top.asset  cs == assets[t].childs
    IN  /\ n \in Nat /\ DOMAIN assets = 1 .. n /\ t \in 1 .. n
        /\ cs \in Seq(Nat) /\ DOMAIN cs = 1 .. Len(cs) /\ Len(cs) \in Nat
        /\ assets' \in Seq(Node') /\ DOMAIN assets' = 1 .. n + 1
        /\ \A a \in 1 .. n : /\ assets'[a].name = assets[a].name
                             /\ assets'[a].parent = assets[a].parent
                             /\ assets'[a].folder = assets[a].folder
        /\ \A a \in 1 .. n : a # t => assets'[a].childs = assets[a].childs
        /\ DOMAIN assets'[t].childs = 1 .. Len(cs) + 1 /\ Len(assets'[t].childs) = Len(cs) + 1
        /\ \A k \in 1 .. Len(cs) : assets'[t].childs[k] = cs[k]
        /\ assets'[t].childs[Len(cs) + 1] = n + 1
        /\ assets'[n + 1].name = Top.entry /\ assets'[n + 1].parent = t
        /\ assets'[n + 1].childs = << >>
        /\ assets'[n + 1].folder = (KindOf(Path) # "file")

LEMMA NewAssetGrows ==
    ASSUME NodesOK, StackOK, NewAsset
    PROVE  Growth
<1>n. PICK n : n = Len(assets)
  OBVIOUS
<1>L. PICK L : L = Len(stack)
  OBVIOUS
<1>t. PICK t : t = Top.asset
  OBVIOUS
<1>cs. PICK cs : cs = assets[t].childs
  OBVIOUS
<1>0. /\ L \in Nat \ {0} /\ Top \in Frame /\ Top = stack[L] /\ source' = source /\ FrameOK(L)
  BY <1>L, TopFacts DEF NewAsset, At, walkRest, StackOK
<1>3. /\ n \in Nat /\ DOMAIN assets = 1 .. n /\ t \in 1 .. n
      /\ cs \in Seq(Nat) /\ DOMAIN cs = 1 .. Len(cs) /\ Len(cs) \in Nat
      /\ assets' \in Seq(Node') /\ DOMAIN assets' = 1 .. n + 1
      /\ \A a \in 1 .. n : /\ assets'[a].name = assets[a].name
                           /\ assets'[a].parent = assets[a].parent
                           /\ assets'[a].folder = assets[a].folder
      /\ \A a \in 1 .. n : a # t => assets'[a].childs = assets[a].childs
      /\ DOMAIN assets'[t].childs = 1 .. Len(cs) + 1 /\ Len(assets'[t].childs) = Len(cs) + 1
      /\ \A k \in 1 .. Len(cs) : assets'[t].childs[k] = cs[k]
      /\ assets'[t].childs[Len(cs) + 1] = n + 1
      /\ assets'[n + 1].name = Top.entry /\ assets'[n + 1].parent = t
      /\ assets'[n + 1].childs = << >>
      /\ assets'[n + 1].folder = (KindOf(Path) # "file")
  <2> DEFINE e == [assets[t] EXCEPT !.childs = Append(cs, n + 1)]
             grown == [assets EXCEPT ![t] = e]
             folder == KindOf(Path) # "file"
             new == Asset(Top.entry, t, folder)
  <2>1. /\ n \in Nat /\ DOMAIN assets = 1 .. n /\ assets \in Seq(Node)
    BY <1>n, LenProperties DEF NodesOK
  <2>2. Top \in Frame /\ t \in 1 .. n
    BY <1>0, <1>L, <1>t, <2>1 DEF FrameOK
  <2>3. assets[t] \in Node
    BY <2>1, <2>2, ElementOfSeq
  <2>4. cs \in Seq(Nat) /\ DOMAIN cs = 1 .. Len(cs) /\ Len(cs) \in Nat
    <3>1. cs \in Seq(Nat)
      BY <1>cs, <2>3 DEF Node
    <3> QED
      BY <3>1, LenProperties
  <2>5. /\ Append(cs, n + 1) \in Seq(Nat) /\ Len(Append(cs, n + 1)) = Len(cs) + 1
        /\ DOMAIN Append(cs, n + 1) = 1 .. Len(cs) + 1
        /\ \A k \in 1 .. Len(cs) : Append(cs, n + 1)[k] = cs[k]
        /\ Append(cs, n + 1)[Len(cs) + 1] = n + 1
    <3>1. n + 1 \in Nat
      BY <2>1
    <3>2. Append(cs, n + 1) \in Seq(Nat) /\ Len(Append(cs, n + 1)) = Len(cs) + 1
      BY <2>4, <3>1, AppendProperties
    <3> QED
      BY <2>4, <3>1, <3>2, AppendProperties, LenProperties
  <2>6. e \in Node /\ e.childs = Append(cs, n + 1) /\ e.name = assets[t].name
        /\ e.parent = assets[t].parent /\ e.folder = assets[t].folder
    BY <2>3, <2>5 DEF Node
  <2>7. new \in Node /\ new.name = Top.entry /\ new.parent = t /\ new.childs = << >>
        /\ new.folder = folder
    <3>1. Top.entry \in EntryName /\ t \in Nat
      BY <2>1, <2>2 DEF Frame
    <3>2. folder \in BOOLEAN /\ << >> \in Seq(Nat)
      BY EmptySeq
    <3> HIDE DEF folder
    <3> QED
      BY <3>1, <3>2 DEF Asset, Node
  <2>8. assets' = Append(grown, new)
    <3>1. grown = [assets EXCEPT ![Top.asset].childs = Append(@, Len(assets) + 1)]
      BY <1>n, <1>t, <1>cs
    <3> QED
      BY <1>t, <3>1 DEF NewAsset
  <2> HIDE DEF e, new
  <2>9. /\ grown \in Seq(Node) /\ Len(grown) = n
        /\ \A a \in 1 .. n : grown[a] = IF a = t THEN e ELSE assets[a]
    BY <2>1, <2>2, <2>6, ExceptSeq
  <2> HIDE DEF grown
  <2>10. /\ assets' \in Seq(Node) /\ Len(assets') = n + 1
         /\ \A a \in 1 .. n : assets'[a] = IF a = t THEN e ELSE assets[a]
         /\ assets'[n + 1] = new
    BY <2>1, <2>7, <2>8, <2>9, AppendProperties
  <2>11. DOMAIN assets' = 1 .. n + 1 /\ Node' = Node
    <3>1. DOMAIN assets' = 1 .. n + 1
      BY <2>1, <2>10, LenProperties
    <3> QED
      BY <1>0, <3>1 DEF Node, EntryName
  <2>12. assets'[t].childs = Append(cs, n + 1)
    BY <2>2, <2>6, <2>10
  <2>13. \A a \in 1 .. n : /\ assets'[a].name = assets[a].name
                           /\ assets'[a].parent = assets[a].parent
                           /\ assets'[a].folder = assets[a].folder
                           /\ (a # t => assets'[a].childs = assets[a].childs)
    BY <2>6, <2>10
  <2> QED
    BY <2>1, <2>2, <2>4, <2>5, <2>7, <2>10, <2>11, <2>12, <2>13
<1> QED
  BY <1>3, <1>n, <1>t, <1>cs DEF Growth

(* The new asset is the last child of the folder being read, under a name  *)
(* of its own; no outer call has a child still to enter that has children. *)
LEMMA NewAssetStep ==
    ASSUME NodesOK, StackOK, NewAsset
    PROVE  NodesOK' /\ StackOK'
<1>n. PICK n : n = Len(assets)
  OBVIOUS
<1>L. PICK L : L = Len(stack)
  OBVIOUS
<1>t. PICK t : t = Top.asset
  OBVIOUS
<1>cs. PICK cs : cs = assets[t].childs
  OBVIOUS
<1> DEFINE f == [Top EXCEPT !.at = "entries"]
<1>0. /\ stack \in Seq(Frame) /\ stack # << >> /\ Top.at = "entry" /\ source' = source /\ Set(f)
      /\ L \in Nat \ {0} /\ DOMAIN stack = 1 .. L /\ Top \in Frame /\ Top = stack[L]
      /\ \A i \in 1 .. L : FrameOK(i)
  BY <1>L, TopFacts DEF NewAsset, At, walkRest, StackOK
<1>1. /\ f \in Frame /\ f.asset = t /\ f.at = "entries" /\ f.next = Top.next
      /\ f.entries = Top.entries
  BY <1>0, <1>t DEF Frame
<1> HIDE DEF f
<1>2. /\ stack' \in Seq(Frame') /\ Len(stack') = L /\ DOMAIN stack' = 1 .. L /\ stack'[L] = f
      /\ \A i \in 1 .. L : i # L => stack'[i] = stack[i]
  BY <1>0, <1>1, <1>L, SetFacts
<1>3. /\ n \in Nat /\ DOMAIN assets = 1 .. n /\ t \in 1 .. n
      /\ cs \in Seq(Nat) /\ DOMAIN cs = 1 .. Len(cs) /\ Len(cs) \in Nat
      /\ assets' \in Seq(Node') /\ DOMAIN assets' = 1 .. n + 1
      /\ \A a \in 1 .. n : /\ assets'[a].name = assets[a].name
                           /\ assets'[a].parent = assets[a].parent
      /\ \A a \in 1 .. n : a # t => assets'[a].childs = assets[a].childs
      /\ DOMAIN assets'[t].childs = 1 .. Len(cs) + 1 /\ Len(assets'[t].childs) = Len(cs) + 1
      /\ \A k \in 1 .. Len(cs) : assets'[t].childs[k] = cs[k]
      /\ assets'[t].childs[Len(cs) + 1] = n + 1
      /\ assets'[n + 1].name = Top.entry /\ assets'[n + 1].parent = t
      /\ assets'[n + 1].childs = << >>
  BY <1>n, <1>t, <1>cs, NewAssetGrows DEF Growth
<1>4. /\ \A a \in 1 .. n : assets[a].parent < a
      /\ \A a \in 1 .. n : \A k \in DOMAIN assets[a].childs :
             assets[a].childs[k] \in 1 .. n /\ assets[assets[a].childs[k]].parent = a
      /\ \A a \in 1 .. n : \A j, k \in DOMAIN assets[a].childs :
             assets[assets[a].childs[j]].name = assets[assets[a].childs[k]].name => j = k
  BY <1>3 DEF NodesOK
<1>s. assets[t].childs = cs /\ DOMAIN cs = 1 .. Len(cs) /\ t \in 1 .. n /\ n \in Nat
       /\ Len(cs) \in Nat
  BY <1>3, <1>cs
<1>5. /\ Top.next = 1 /\ \A k \in 1 .. Len(cs) : assets[cs[k]].childs = << >>
      /\ \A k \in 1 .. Len(cs) : /\ assets[cs[k]].name \notin Top.entries
                                 /\ assets[cs[k]].name # Top.entry
      /\ Top.entry \notin Top.entries
  <2>1. FrameOK(L) /\ stack[L].at = "entry" /\ stack[L].asset = t
    BY <1>0, <1>t
  <2>2. stack[L].next = 1 /\ Top.entry \notin Top.entries
    BY <1>0, <2>1 DEF FrameOK
  <2>3. \A k \in DOMAIN cs : /\ assets[cs[k]].name \notin Top.entries
                             /\ assets[cs[k]].name # Top.entry
    BY <1>0, <1>cs, <2>1 DEF FrameOK
  <2>4. \A k \in DOMAIN cs : k >= 1 => assets[cs[k]].childs = << >>
    BY <1>cs, <2>1, <2>2 DEF FrameOK
  <2> QED
    BY <1>0, <1>s, <2>2, <2>3, <2>4
<1>6. /\ \A k \in 1 .. Len(cs) : cs[k] \in 1 .. n /\ cs[k] # t /\ assets[cs[k]].parent = t
      /\ \A j, k \in 1 .. Len(cs) : assets[cs[j]].name = assets[cs[k]].name => j = k
  <2>1. ASSUME NEW k \in 1 .. Len(cs)
        PROVE  cs[k] \in 1 .. n /\ assets[cs[k]].parent = t
    BY <1>4, <1>s
  <2>2. assets[t].parent < t
    BY <1>4, <1>s
  <2>3. ASSUME NEW j \in 1 .. Len(cs), NEW k \in 1 .. Len(cs),
               assets[cs[j]].name = assets[cs[k]].name
        PROVE  j = k
    BY <1>4, <1>s, <2>3
  <2>4. ASSUME NEW k \in 1 .. Len(cs)
        PROVE  cs[k] # t
    <3>1. SUFFICES ASSUME cs[k] = t PROVE FALSE
      OBVIOUS
    <3>2. t < t
      BY <2>1, <2>2, <3>1
    <3> QED
      BY <1>s, <3>2
  <2> QED
    BY <2>1, <2>3, <2>4
<1>7. NodesOK'
  <2>1. ASSUME NEW a \in DOMAIN assets'
        PROVE  assets'[a].parent < a
    <3>1. CASE a \in 1 .. n
      BY <1>3, <1>4, <3>1
    <3>2. CASE a = n + 1
      <4>1. assets'[a].parent = t
        BY <1>3, <3>2
      <4> QED
        BY <1>s, <3>2, <4>1
    <3>3. a \in 1 .. n + 1
      BY <1>3
    <3> QED
      BY <1>s, <3>1, <3>2, <3>3
  <2>2. ASSUME NEW a \in DOMAIN assets', NEW k \in DOMAIN assets'[a].childs
        PROVE  /\ assets'[a].childs[k] \in DOMAIN assets'
               /\ assets'[assets'[a].childs[k]].parent = a
               /\ \A j \in DOMAIN assets'[a].childs :
                      assets'[assets'[a].childs[j]].name = assets'[assets'[a].childs[k]].name
                          => j = k
    <3>1. CASE a = n + 1
      <4>1. DOMAIN assets'[a].childs = {}
        BY <1>3, <3>1
      <4> QED
        BY <2>2, <4>1
    <3>2. CASE a \in 1 .. n /\ a # t
      <4>1. assets'[a].childs = assets[a].childs
        BY <1>3, <3>2
      <4>2. \A j \in DOMAIN assets[a].childs :
               /\ assets[a].childs[j] \in 1 .. n
               /\ assets'[assets[a].childs[j]].parent = a
               /\ assets'[assets[a].childs[j]].name = assets[assets[a].childs[j]].name
        BY <1>3, <1>4, <3>2
      <4>3. \A j \in DOMAIN assets[a].childs :
               assets[assets[a].childs[j]].name = assets[assets[a].childs[k]].name => j = k
        BY <1>4, <2>2, <3>2, <4>1
      <4> QED
        BY <1>3, <2>2, <4>1, <4>2, <4>3
    <3>3. CASE a = t
      <4>1. \A j \in 1 .. Len(cs) :
               /\ assets'[t].childs[j] = cs[j] /\ cs[j] \in 1 .. n
               /\ assets'[cs[j]].parent = t /\ assets'[cs[j]].name = assets[cs[j]].name
               /\ assets[cs[j]].name # Top.entry
        BY <1>3, <1>5, <1>6
      <4>2. \A j \in 1 .. Len(cs) + 1 : j \in 1 .. Len(cs) \/ j = Len(cs) + 1
        BY <1>s
      <4>3. /\ assets'[t].childs[Len(cs) + 1] = n + 1
            /\ assets'[n + 1].name = Top.entry /\ assets'[n + 1].parent = t
            /\ DOMAIN assets'[t].childs = 1 .. Len(cs) + 1 /\ DOMAIN assets' = 1 .. n + 1
        BY <1>3
      <4>4. k \in 1 .. Len(cs) \/ k = Len(cs) + 1
        BY <2>2, <3>3, <4>2, <4>3
      <4>5. assets'[a].childs[k] \in DOMAIN assets' /\ assets'[assets'[a].childs[k]].parent = a
        BY <1>s, <3>3, <4>1, <4>3, <4>4
      <4>6. ASSUME NEW j \in DOMAIN assets'[a].childs,
                   assets'[assets'[a].childs[j]].name = assets'[assets'[a].childs[k]].name
            PROVE  j = k
        <5>1. j \in 1 .. Len(cs) \/ j = Len(cs) + 1
          BY <3>3, <4>2, <4>3, <4>6
        <5> QED
          BY <1>6, <3>3, <4>1, <4>3, <4>4, <4>6, <5>1, SMTT(30)
      <4> QED
        BY <4>5, <4>6
    <3> QED
      BY <1>3, <3>1, <3>2, <3>3
  <2>3. assets' # << >>
    BY <1>3
  <2> QED
    BY <1>3, <2>1, <2>2, <2>3 DEF NodesOK
<1>8. \A i \in 1 .. L : i # L =>
         /\ stack[i].at = "childs" /\ stack[i].next > 1
         /\ stack[i].asset \in 1 .. n /\ stack[i].asset # t
         /\ assets'[stack[i].asset].childs = assets[stack[i].asset].childs
  <2> SUFFICES ASSUME NEW i \in 1 .. L, i # L
               PROVE  /\ stack[i].at = "childs" /\ stack[i].next > 1
                      /\ stack[i].asset \in 1 .. n /\ stack[i].asset # t
    BY <1>3
  <2>1. i < L /\ FrameOK(i)
    BY <1>0
  <2>2. stack[i].asset < stack[L].asset /\ stack[i].at = "childs" /\ stack[i].next > 1
    BY <1>0, <2>1 DEF StackOK, ChainOK
  <2>3. stack[i].asset \in 1 .. n
    BY <1>3, <2>1 DEF FrameOK
  <2> QED
    BY <1>0, <1>3, <1>t, <2>2, <2>3
<1>9. ASSUME NEW i \in 1 .. L, i # L, NEW k \in DOMAIN assets[stack[i].asset].childs,
             k >= stack[i].next
      PROVE  assets[stack[i].asset].childs[k] # t
  <2>a. PICK a : a = stack[i].asset
    OBVIOUS
  <2>b. PICK b : b = stack[L - 1].asset
    OBVIOUS
  <2>m. PICK m : m = stack[L - 1].next
    OBVIOUS
  <2>1. L - 1 \in 1 .. L /\ L - 1 # L /\ L - 1 < L /\ i <= L - 1 /\ (L - 1) + 1 = L
    BY <1>0, <1>9
  <2>2. /\ a \in 1 .. n /\ b \in 1 .. n /\ m > 1 /\ m \in Nat
        /\ m <= Len(assets[b].childs) + 1
    <3>1. stack[L - 1] \in Frame
      BY <1>0, <1>L, <2>1, ElementOfSeq
    <3>2. FrameOK(L - 1)
      BY <1>0, <2>1
    <3>3. m \in Nat
      BY <2>m, <3>1 DEF Frame
    <3> QED
      BY <1>8, <1>9, <2>1, <2>a, <2>b, <2>m, <3>2, <3>3 DEF FrameOK
  <2>3. t = assets[b].childs[m - 1] /\ m - 1 \in DOMAIN assets[b].childs
    <3>1. stack[(L - 1) + 1].asset = assets[b].childs[m - 1]
      BY <1>0, <1>L, <2>1, <2>b, <2>m DEF StackOK, ChainOK
    <3>2. assets[b] \in Node
      BY <1>n, <2>2, ElementOfSeq DEF NodesOK
    <3>3. /\ DOMAIN assets[b].childs = 1 .. Len(assets[b].childs)
          /\ Len(assets[b].childs) \in Nat
      BY <3>2, LenProperties DEF Node
    <3> QED
      BY <1>0, <1>t, <2>1, <2>2, <3>1, <3>3
  <2>4. assets[t].parent = b
    BY <1>4, <2>2, <2>3
  <2> SUFFICES ASSUME assets[a].childs[k] = t
               PROVE  FALSE
    BY <2>a
  <2>5. k \in DOMAIN assets[a].childs /\ k >= stack[i].next
    BY <1>9, <2>a
  <2>6. a = b
    BY <1>4, <2>2, <2>4, <2>5
  <2>7. i = L - 1
    <3>1. i < L - 1 => stack[i].asset < stack[L - 1].asset
      BY <1>0, <2>1 DEF StackOK, ChainOK
    <3>2. ~ a < b
      BY <1>s, <2>2, <2>6
    <3>3. ~ i < L - 1
      BY <2>a, <2>b, <3>1, <3>2
    <3> QED
      BY <1>0, <2>1, <3>3
  <2>8. k = m - 1
    BY <1>4, <2>2, <2>3, <2>5, <2>6
  <2> QED
    BY <2>2, <2>5, <2>7, <2>8, <2>m
<1>10. ASSUME NEW i \in DOMAIN stack'
       PROVE  FrameOK(i)'
  <2>1. CASE i = L
    <3>1. /\ stack'[i].asset = t /\ stack'[i].at = "entries" /\ stack'[i].next = 1
          /\ stack'[i].entries = Top.entries
      BY <1>1, <1>2, <1>5, <2>1
    <3>2. \A k \in 1 .. Len(cs) : /\ assets'[t].childs[k] = cs[k]
                                  /\ assets'[cs[k]].childs = << >>
                                  /\ assets'[cs[k]].name \notin Top.entries
      BY <1>3, <1>5, <1>6
    <3>3. \A k \in 1 .. Len(cs) + 1 : k \in 1 .. Len(cs) \/ k = Len(cs) + 1
      BY <1>s
    <3>4. assets'[n + 1].childs = << >> /\ assets'[n + 1].name \notin Top.entries
      BY <1>3, <1>5
    <3>5. \A k \in 1 .. Len(cs) + 1 : /\ assets'[assets'[t].childs[k]].childs = << >>
                                      /\ assets'[assets'[t].childs[k]].name \notin Top.entries
      BY <1>3, <3>2, <3>3, <3>4
    <3>6. /\ t \in DOMAIN assets' /\ DOMAIN assets'[t].childs = 1 .. Len(cs) + 1
          /\ 1 <= Len(assets'[t].childs) + 1
      BY <1>3
    <3> QED
      BY <3>1, <3>5, <3>6 DEF FrameOK
  <2>2. CASE i # L
    <3>1. i \in 1 .. L /\ stack'[i] = stack[i] /\ FrameOK(i)
      BY <1>0, <1>2, <2>2
    <3>2. /\ stack[i].at = "childs" /\ stack[i].asset \in 1 .. n
          /\ assets'[stack[i].asset].childs = assets[stack[i].asset].childs
      BY <1>8, <2>2, <3>1
    <3>3. \A k \in DOMAIN assets[stack[i].asset].childs : k >= stack[i].next =>
              assets'[assets[stack[i].asset].childs[k]].childs = << >>
      <4>1. \A k \in DOMAIN assets[stack[i].asset].childs :
               assets[stack[i].asset].childs[k] \in 1 .. n
        BY <1>4, <3>2
      <4>2. \A k \in DOMAIN assets[stack[i].asset].childs : k >= stack[i].next =>
               /\ assets[assets[stack[i].asset].childs[k]].childs = << >>
               /\ assets[stack[i].asset].childs[k] # t
        BY <1>9, <2>2, <3>1 DEF FrameOK
      <4> QED
        BY <1>3, <4>1, <4>2
    <3>4. stack[i].next <= Len(assets[stack[i].asset].childs) + 1
      BY <3>1 DEF FrameOK
    <3>5. /\ stack'[i].asset = stack[i].asset /\ stack'[i].next = stack[i].next
          /\ stack'[i].at = "childs" /\ stack'[i].asset \in DOMAIN assets'
      BY <1>3, <3>1, <3>2
    <3> QED
      BY <3>2, <3>3, <3>4, <3>5 DEF FrameOK
  <2> QED
    BY <2>1, <2>2
<1>11. ChainOK'
  <2>1. \A i \in 1 .. L : stack'[i].asset = stack[i].asset
    BY <1>0, <1>1, <1>2, <1>t
  <2>2. ASSUME NEW i \in 1 .. L, i < L
        PROVE  /\ stack'[i].at = "childs" /\ stack'[i].next > 1
               /\ stack'[i + 1].asset = assets'[stack'[i].asset].childs[stack'[i].next - 1]
    <3>1. i # L /\ stack'[i] = stack[i] /\ i + 1 \in 1 .. L
      BY <1>0, <1>2, <2>2
    <3>2. stack[i + 1].asset = assets[stack[i].asset].childs[stack[i].next - 1]
      BY <1>0, <2>2 DEF StackOK, ChainOK
    <3> QED
      BY <1>8, <2>1, <3>1, <3>2
  <2> QED
    BY <1>0, <1>2, <2>1, <2>2 DEF StackOK, ChainOK
<1> QED
  BY <1>2, <1>7, <1>10, <1>11 DEF StackOK

-----------------------------------------------------------------------------
(* What is said of tree and calls depends on assets, stack, source alone.   *)
LEMMA SameTree ==
    ASSUME NodesOK, StackOK, UNCHANGED <<assets, stack, source>>
    PROVE  NodesOK' /\ StackOK'
<1>1. Node' = Node /\ Frame' = Frame
  BY DEF Node, Frame, EntryName
<1>2. NodesOK'
  BY <1>1 DEF NodesOK
<1>3. \A i \in DOMAIN stack' : FrameOK(i)'
  BY DEF StackOK, FrameOK
<1> QED
  BY <1>1, <1>2, <1>3 DEF StackOK, ChainOK

(* Every step keeps tree and calls well formed, one case per action.        *)
LEMMA TreeStep ==
    ASSUME NodesOK, StackOK, [Next]_vars
    PROVE  NodesOK' /\ StackOK'
<1>0. ASSUME NEW where, At(where)
      PROVE  /\ stack # << >> /\ Top \in Frame /\ FrameOK(Len(stack)) /\ Top.at = where
             /\ Top = stack[Len(stack)] /\ Len(stack) \in DOMAIN stack
  BY <1>0, TopFacts DEF At, StackOK
<1>1. CASE CallReturns \/ ChildsEnd
  <2>1. stack # << >> /\ assets' = assets /\ source' = source /\ stack' = Front(stack)
    BY <1>1 DEF CallReturns, ChildsEnd, At, Return, walkRest
  <2> QED
    BY <2>1, PopStep
<1>2. CASE Open
  <2> DEFINE f == [Top EXCEPT !.at = "entries", !.entries = Entries(RelativePath(Top.asset))]
  <2>1. /\ stack # << >> /\ Top \in Frame /\ FrameOK(Len(stack)) /\ Top.at = "call"
        /\ Top = stack[Len(stack)] /\ assets' = assets /\ source' = source /\ Set(f)
    BY <1>0, <1>2 DEF Open, walkRest
  <2>2. Entries(RelativePath(Top.asset)) \in SUBSET EntryName
    BY DEF Entries, EntryName
  <2>3. /\ f \in Frame /\ f.asset = Top.asset /\ f.next = Top.next /\ f.at = "entries"
    BY <2>1, <2>2 DEF Frame
  <2>4. DOMAIN assets[f.asset].childs = {}
    BY <2>1, <2>3, EmptySeq DEF FrameOK
  <2> HIDE DEF f
  <2> QED
    BY <2>1, <2>3, <2>4, TopStep
<1>3. CASE Take
  <2> PICK e \in Top.entries :
          Set([Top EXCEPT !.at = "entry", !.entry = e, !.entries = @ \ {e}])
    BY <1>3 DEF Take
  <2> DEFINE f == [Top EXCEPT !.at = "entry", !.entry = e, !.entries = @ \ {e}]
  <2>1. /\ stack # << >> /\ Top \in Frame /\ FrameOK(Len(stack)) /\ Top.at = "entries"
        /\ Top = stack[Len(stack)] /\ assets' = assets /\ source' = source /\ Set(f)
    BY <1>0, <1>3 DEF Take, walkRest
  <2>2. e \in EntryName
    BY <2>1 DEF Frame
  <2>3. /\ f \in Frame /\ f.asset = Top.asset /\ f.next = Top.next /\ f.at = "entry"
        /\ f.entry = e /\ f.entries = Top.entries \ {e}
    BY <2>1, <2>2 DEF Frame
  <2>4. \A k \in DOMAIN assets[Top.asset].childs :
           assets[assets[Top.asset].childs[k]].name \notin Top.entries
    BY <2>1 DEF FrameOK
  <2>5. \A k \in DOMAIN assets[f.asset].childs :
           /\ assets[assets[f.asset].childs[k]].name \notin f.entries
           /\ assets[assets[f.asset].childs[k]].name # f.entry
    BY <2>3, <2>4
  <2>6. f.entry \notin f.entries
    BY <2>3
  <2> HIDE DEF f
  <2> QED
    BY <2>1, <2>3, <2>5, <2>6, TopStep
<1>4. CASE Skip
  <2> DEFINE f == [Top EXCEPT !.at = "entries"]
  <2>1. /\ stack # << >> /\ Top \in Frame /\ FrameOK(Len(stack)) /\ Top.at = "entry"
        /\ Top = stack[Len(stack)] /\ assets' = assets /\ source' = source /\ Set(f)
    BY <1>0, <1>4 DEF Skip, walkRest
  <2>2. /\ f \in Frame /\ f.asset = Top.asset /\ f.next = Top.next /\ f.at = "entries"
        /\ f.entries = Top.entries
    BY <2>1 DEF Frame
  <2>3. \A k \in DOMAIN assets[f.asset].childs :
           assets[assets[f.asset].childs[k]].name \notin f.entries
    BY <2>1, <2>2 DEF FrameOK
  <2> HIDE DEF f
  <2> QED
    BY <2>1, <2>2, <2>3, TopStep
<1>5. CASE EntriesEnd
  <2> DEFINE f == [Top EXCEPT !.at = "childs", !.entries = {}]
  <2>1. /\ stack # << >> /\ Top \in Frame /\ assets' = assets /\ source' = source /\ Set(f)
    BY <1>0, <1>5 DEF EntriesEnd, walkRest
  <2>2. f \in Frame /\ f.asset = Top.asset /\ f.next = Top.next /\ f.at = "childs"
    BY <2>1 DEF Frame
  <2> HIDE DEF f
  <2> QED
    BY <2>1, <2>2, TopStep
<1>6. CASE Throw
  <2>1. assets' = assets /\ source' = source /\ stack' = << >>
    BY <1>6 DEF Throw, walkRest
  <2>2. Node' = Node /\ DOMAIN stack' = {} /\ stack' \in Seq(Frame')
    BY <2>1, EmptySeq DEF Node, EntryName
  <2>3. NodesOK'
    BY <2>1, <2>2 DEF NodesOK
  <2> QED
    BY <2>2, <2>3 DEF StackOK, ChainOK
<1>7. CASE Done \/ (\E p \in RemotePaths : Check(p)) \/ AbortElsewhere \/ UNCHANGED vars
  BY <1>7, SameTree DEF Done, Check, AbortElsewhere, vars, walkRest
<1> QED
  BY <1>1, <1>2, <1>3, <1>4, <1>5, <1>6, <1>7, DescendStep, NewAssetStep DEF Next, Parser

(* Once aborted the walk takes no entry: the one it had may become an      *)
(* asset, and only the innermost call can have one.                        *)
LEMMA AbortStep ==
    ASSUME NodesOK, StackOK, AbortOK, [Next]_vars
    PROVE  AbortOK'
<1>0. ASSUME NEW where, At(where)
      PROVE  /\ stack # << >> /\ Top.at = where /\ Top \in Frame
             /\ Top = stack[Len(stack)] /\ Len(stack) \in DOMAIN stack
             /\ Len(stack) \in Nat \ {0} /\ DOMAIN stack = 1 .. Len(stack)
  BY <1>0, TopFacts DEF At, StackOK
<1>1. CASE CallReturns \/ ChildsEnd
  <2>1. stack # << >> /\ stack' = Front(stack) /\ late' = late /\ aborted' = aborted
    BY <1>1 DEF CallReturns, ChildsEnd, At, Return, walkRest
  <2>2. /\ Len(stack) \in Nat \ {0} /\ DOMAIN stack = 1 .. Len(stack)
        /\ \A i \in DOMAIN stack : stack[i] \in Frame
    BY <2>1, TopFacts, ElementOfSeq DEF StackOK
  <2>3. /\ stack' \in Seq(Frame) /\ Len(stack') = Len(stack) - 1
        /\ \A i \in 1 .. Len(stack) - 1 : stack'[i] = stack[i]
    BY <2>1, <2>2, SubSeqProperties DEF Front
  <2>4. DOMAIN stack' = 1 .. Len(stack) - 1
    BY <2>3, LenProperties
  <2> QED
    BY <2>1, <2>2, <2>3, <2>4 DEF AbortOK
<1>2. CASE Open \/ Take
  <2>1. ~ aborted /\ late' = late
    BY <1>2 DEF Open, Take, GoesOn
  <2> QED
    BY <2>1 DEF AbortOK
<1>3. CASE Skip \/ NewAsset
  <2>1. At("entry") /\ aborted' = aborted /\ Set([Top EXCEPT !.at = "entries"]) /\ source' = source
    BY <1>3 DEF Skip, NewAsset, walkRest
  <2>2. late = 0
    BY <1>0, <2>1 DEF AbortOK
  <2>3. late' \in {0, 1} /\ (late' = 1 => aborted)
    BY <1>3, <2>2 DEF Skip, NewAsset
  <2> DEFINE f == [Top EXCEPT !.at = "entries"]
  <2>4. f \in Frame /\ f.at = "entries"
    BY <1>0, <2>1 DEF Frame
  <2>5. /\ DOMAIN stack' = DOMAIN stack /\ stack'[Len(stack)] = f
        /\ \A i \in DOMAIN stack : i # Len(stack) => stack'[i] = stack[i]
    <3> HIDE DEF f
    <3>1. stack # << >> /\ stack \in Seq(Frame) /\ Set(f)
      BY <1>0, <2>1 DEF StackOK, f
    <3> QED
      BY <2>1, <2>4, <3>1, SetFacts
  <2>6. ASSUME NEW i \in DOMAIN stack, i # Len(stack)
        PROVE  stack[i].at = "childs"
    <3>1. i < Len(stack)
      BY <1>0, <2>1, <2>6
    <3> QED
      BY <3>1 DEF StackOK, ChainOK
  <2> HIDE DEF f
  <2>7. \A i \in DOMAIN stack' : stack'[i].at # "entry"
    BY <2>4, <2>5, <2>6
  <2> QED
    BY <2>1, <2>3, <2>7 DEF AbortOK
<1>4. CASE EntriesEnd
  <2> DEFINE f == [Top EXCEPT !.at = "childs", !.entries = {}]
  <2>1. At("entries") /\ aborted' = aborted /\ late' = late /\ Set(f) /\ source' = source
    BY <1>4 DEF EntriesEnd, walkRest
  <2>2. f \in Frame /\ f.at = "childs" /\ stack # << >> /\ stack \in Seq(Frame)
    BY <1>0, <2>1 DEF Frame, StackOK
  <2> HIDE DEF f
  <2>3. /\ DOMAIN stack' = DOMAIN stack /\ stack'[Len(stack)] = f
        /\ \A i \in DOMAIN stack : i # Len(stack) => stack'[i] = stack[i]
    BY <2>1, <2>2, SetFacts
  <2> QED
    BY <2>1, <2>2, <2>3 DEF AbortOK
<1>5. CASE Descend
  <2> DEFINE f == [Top EXCEPT !.next = @ + 1]
             g == [asset |-> assets[Top.asset].childs[Top.next], at |-> "call",
                   entries |-> {}, entry |-> << >>, next |-> 1]
             old == [stack EXCEPT ![Len(stack)] = f]
  <2>1. At("childs") /\ aborted' = aborted /\ late' = late
    BY <1>5 DEF Descend, walkRest
  <2>2. old = [stack EXCEPT ![Len(stack)].next = @ + 1]
    BY DEF Top
  <2>3. stack' = Append(old, g)
    BY <1>5, <2>2 DEF Descend
  <2>4. StackOK' /\ stack' \in Seq(Frame') /\ Len(stack') = Len(stack) + 1
    <3>1. StackOK'
      BY <1>5, DescendStep
    <3>2. Len(old) = Len(stack) /\ old \in Seq(Frame)
      <4>1. f \in Frame
        BY <1>0, <2>1 DEF Frame
      <4> HIDE DEF f
      <4> QED
        BY <1>0, <2>1, <4>1, ExceptSeq DEF StackOK
    <3>3. Len(stack') = Len(old) + 1
      <4> HIDE DEF old, g
      <4> QED
        BY <2>3, <3>2, LenProperties
    <3> QED
      BY <3>1, <3>2, <3>3 DEF StackOK
  <2>5. stack'[Len(stack')].at = "call"
    <3>1. g.at = "call"
      OBVIOUS
    <3>2. stack'[Len(old) + 1] = g /\ Len(old) = Len(stack)
      <4>1. f \in Frame
        BY <1>0, <2>1 DEF Frame
      <4>2. old \in Seq(Frame) /\ Len(old) = Len(stack)
        <5> HIDE DEF f
        <5> QED
          BY <1>0, <2>1, <4>1, ExceptSeq DEF StackOK
      <4> HIDE DEF old, g
      <4> QED
        BY <2>3, <4>2, LenProperties
    <3> HIDE DEF old, g
    <3> QED
      BY <2>4, <3>1, <3>2
  <2>6. ASSUME NEW i \in DOMAIN stack'
        PROVE  stack'[i].at # "entry"
    <3>1. i < Len(stack') => stack'[i].at = "childs"
      BY <2>4 DEF StackOK, ChainOK
    <3>2. i \in 1 .. Len(stack') /\ Len(stack') \in Nat
      BY <2>4, LenProperties
    <3> QED
      BY <2>5, <3>1, <3>2
  <2> QED
    BY <2>1, <2>6 DEF AbortOK
<1>6. CASE Throw
  <2>1. stack' = << >> /\ aborted' = aborted /\ late' = late
    BY <1>6 DEF Throw, walkRest
  <2>2. DOMAIN stack' = {}
    BY <2>1
  <2> QED
    BY <2>1, <2>2 DEF AbortOK
<1>7. CASE Done \/ (\E p \in RemotePaths : Check(p)) \/ AbortElsewhere \/ UNCHANGED vars
  BY <1>7 DEF Done, Check, AbortElsewhere, vars, walkRest, AbortOK
<1> QED
  BY <1>1, <1>2, <1>3, <1>4, <1>5, <1>6, <1>7 DEF Next, Parser

(* Any walk of any folder keeps them so.                                   *)
LEMMA TreeInvariant == Spec => []TreeInv
<1>1. Init => TreeInv
  <2> SUFFICES ASSUME Init PROVE TreeInv
    OBVIOUS
  <2> DEFINE root == Asset(<< >>, 0, TRUE)
             call == [asset |-> 1, at |-> "call", entries |-> {}, entry |-> << >>, next |-> 1]
  <2>1. assets = << root >> /\ stack = << call >>
    BY DEF Init
  <2>2. /\ root \in Node /\ root.childs = << >> /\ root.parent = 0
        /\ call \in Frame /\ call.asset = 1 /\ call.at = "call" /\ call.next = 1
    BY EmptySeq DEF Asset, Node, Frame, EntryName
  <2> HIDE DEF root, call
  <2>3. /\ assets \in Seq(Node) /\ Len(assets) = 1 /\ DOMAIN assets = {1} /\ assets[1] = root
        /\ stack \in Seq(Frame) /\ Len(stack) = 1 /\ DOMAIN stack = {1} /\ stack[1] = call
    BY <2>1, <2>2
  <2>4. NodesOK
    BY <2>1, <2>2, <2>3 DEF NodesOK
  <2>5. FrameOK(1)
    BY <2>2, <2>3 DEF FrameOK
  <2>6. ChainOK
    BY <2>3 DEF ChainOK
  <2>7. AbortOK /\ RestOK
    <3>1. /\ late = 0 /\ aborted = FALSE /\ parser = "walk"
          /\ toCheck = RemotePaths /\ deleted = {}
      BY DEF Init
    <3>2. RestOK
      BY <3>1 DEF RestOK
    <3> QED
      BY <3>1, <3>2 DEF AbortOK
  <2> QED
    BY <2>3, <2>4, <2>5, <2>6, <2>7 DEF TreeInv, StackOK
<1>2. TreeInv /\ [Next]_vars => TreeInv'
  <2> SUFFICES ASSUME TreeInv, [Next]_vars PROVE TreeInv'
    OBVIOUS
  <2> USE DEF TreeInv
  <2>1. NodesOK' /\ StackOK' /\ AbortOK'
    BY TreeStep, AbortStep
  <2>2. RestOK'
    BY DEF RestOK, Next, Parser, CallReturns, Open, Take, Skip, NewAsset, EntriesEnd, Descend,
       ChildsEnd, Throw, Done, Return, walkRest, Check, AbortElsewhere, vars
  <2> QED
    BY <2>1, <2>2
<1> QED
  BY <1>1, <1>2, PTL DEF Spec

(* The assertions in CAsset's constructor: whatever the folder holds, the  *)
(* assets are a tree with one child of a name in each folder, and the      *)
(* calls under way are a path in it (asset.cpp:53-67, srcFileList.cpp:69). *)
THEOREM TreeIsTyped == Spec => []TypeOK
<1>1. TreeInv => TypeOK
  <2> SUFFICES ASSUME TreeInv PROVE TypeOK
    OBVIOUS
  <2> USE DEF TreeInv
  <2>1. /\ DOMAIN assets = 1 .. Len(assets) /\ \A a \in DOMAIN assets : assets[a] \in Node
        /\ DOMAIN stack = 1 .. Len(stack) /\ \A i \in DOMAIN stack : stack[i] \in Frame
        /\ Len(stack) \in Nat /\ Len(assets) \in Nat
    BY LenProperties, ElementOfSeq DEF NodesOK, StackOK
  <2>2. ASSUME NEW a \in DOMAIN assets
        PROVE  /\ assets[a].parent \in 0 .. a - 1
               /\ \A c \in ToSet(assets[a].childs) : assets[c].parent = a
               /\ \A c, d \in ToSet(assets[a].childs) :
                      assets[c].name = assets[d].name => c = d
    <3>1. assets[a].parent \in Nat /\ assets[a].parent < a /\ a \in Nat
      BY <2>1 DEF Node, NodesOK
    <3>2. /\ \A k \in DOMAIN assets[a].childs : assets[assets[a].childs[k]].parent = a
          /\ \A j, k \in DOMAIN assets[a].childs :
                assets[assets[a].childs[j]].name = assets[assets[a].childs[k]].name => j = k
      BY DEF NodesOK
    <3> QED
      BY <3>1, <3>2 DEF ToSet
  <2>3. ASSUME NEW i \in DOMAIN stack
        PROVE  /\ stack[i].asset \in DOMAIN assets
               /\ stack[i].at \in {"call", "entries", "entry", "childs"}
               /\ i > 1 => assets[stack[i].asset].parent = stack[i - 1].asset
    <3>1. stack[i].asset \in DOMAIN assets /\ stack[i].at \in {"call", "entries", "entry", "childs"}
      BY <2>1 DEF StackOK, FrameOK, Frame
    <3>2. ASSUME i > 1
          PROVE  assets[stack[i].asset].parent = stack[i - 1].asset
      <4> PICK j : j = i - 1
        OBVIOUS
      <4> PICK b : b = stack[j].asset
        OBVIOUS
      <4> PICK m : m = stack[j].next
        OBVIOUS
      <4>1. j \in DOMAIN stack /\ j < Len(stack) /\ j + 1 = i
        BY <2>1, <3>2
      <4>2. stack[i].asset = assets[b].childs[m - 1] /\ m > 1
        BY <4>1 DEF StackOK, ChainOK
      <4>3. b \in DOMAIN assets /\ m <= Len(assets[b].childs) + 1 /\ m \in Nat
        BY <2>1, <4>1 DEF StackOK, FrameOK, Frame
      <4>4. /\ DOMAIN assets[b].childs = 1 .. Len(assets[b].childs)
            /\ Len(assets[b].childs) \in Nat
        BY <2>1, <4>3, LenProperties DEF Node
      <4>5. m - 1 \in DOMAIN assets[b].childs
        BY <4>2, <4>3, <4>4
      <4> QED
        BY <4>2, <4>3, <4>5 DEF NodesOK
    <3> QED
      BY <3>1, <3>2
  <2> QED
    BY <2>2, <2>3 DEF TypeOK, RestOK
<1> QED
  BY <1>1, TreeInvariant, PTL

(* After an abort the walk makes at most the asset it was about to make,   *)
(* in whatever folder of whatever depth it is (srcFileList.cpp:69-117).    *)
THEOREM WalkStops == Spec => []AbortStops
<1>1. TreeInv => AbortStops
  BY DEF TreeInv, AbortOK, AbortStops
<1> QED
  BY <1>1, TreeInvariant, PTL

-----------------------------------------------------------------------------
(* The paths of the assets of a tree t: RelativePath(a) is Paths(assets)[a]. *)

PathRule(t, path, k) ==
    IF t[k].parent = 0 THEN << >> ELSE Append(path[t[k].parent], t[k].name)

Paths(t) == CHOOSE path : path = [k \in DOMAIN t |-> PathRule(t, path, k)]

TreeOf(t, n, S) ==
    DOMAIN t = 1 .. n /\ \A k \in 1 .. n : t[k].parent \in 0 .. k - 1 /\ t[k].name \in S

PathsOf(f, t, n, S) ==
    f \in [1 .. n -> Seq(S)] /\ \A k \in 1 .. n : f[k] = PathRule(t, f, k)

LEMMA RelativePathIs == \A a : RelativePath(a) = Paths(assets)[a]
BY DEF RelativePath, Paths, PathRule

LEMMA PathsExist ==
    ASSUME NEW n \in Nat, NEW t, NEW S, TreeOf(t, n, S)
    PROVE  PathsOf(Paths(t), t, n, S)
<1> DEFINE D == 1 .. n
           V == Seq(S)
           rank == [k \in D |-> k]
           F == [k \in D |-> [f \in [D -> V] |-> PathRule(t, f, k)]]
           def(f) == [k \in DOMAIN t |-> PathRule(t, f, k)]
           paths == CHOOSE f : f = def(f)
<1>1. ASSUME NEW k \in D, NEW f \in [D -> V]
      PROVE  PathRule(t, f, k) \in V
  <2>1. t[k].parent \in 0 .. k - 1 /\ t[k].name \in S /\ k \in 1 .. n
    BY DEF TreeOf
  <2>2. t[k].parent # 0 => f[t[k].parent] \in V
    BY <2>1
  <2> QED
    BY <2>1, <2>2, AppendProperties, EmptySeq DEF PathRule
<1>2. F \in Rules(D, V)
  <2> HIDE DEF D, V
  <2> QED
    BY <1>1 DEF Rules
<1>3. ASSUME NEW k \in D, NEW f \in [D -> V], NEW g \in [D -> V],
             \A e \in D : rank[e] < rank[k] => f[e] = g[e]
      PROVE  F[k][f] = F[k][g]
  <2>1. t[k].parent \in 0 .. k - 1 /\ k \in 1 .. n
    BY DEF TreeOf
  <2>2. t[k].parent # 0 => f[t[k].parent] = g[t[k].parent]
    BY <1>3, <2>1
  <2>3. PathRule(t, f, k) = PathRule(t, g, k)
    BY <2>2 DEF PathRule
  <2> HIDE DEF D, V
  <2> QED
    BY <2>3
<1>4. Solvable(F, D, V)
  <2>1. V # {}
    BY EmptySeq
  <2>2. rank \in [D -> Nat] /\ n + 1 \in Nat /\ \A k \in D : rank[k] < n + 1
    OBVIOUS
  <2> HIDE DEF D, V, F, rank
  <2>3. Recursive(F, rank, D, V)
    BY <1>3 DEF Recursive, Agree
  <2> QED
    BY <1>2, <2>1, <2>2, <2>3, Recursion
<1>5. PICK f \in [D -> V] : \A k \in D : f[k] = F[k][f]
  BY <1>4 DEF Solvable
<1>6. f = def(f)
  <2>1. DOMAIN t = D
    BY DEF TreeOf
  <2> HIDE DEF D, V
  <2> QED
    BY <1>5, <2>1
<1>7. paths = def(paths)
  <2> HIDE DEF def
  <2> QED
    BY <1>6
<1>8. Paths(t) = paths
  BY DEF Paths
<1> HIDE DEF paths
<1>9. DOMAIN t = D
  BY DEF TreeOf
<1> DEFINE T == {j \in Nat : \A k \in D : k <= j => paths[k] \in V}
<1>10. 0 \in T
  OBVIOUS
<1>11. ASSUME NEW j \in T
       PROVE  j + 1 \in T
  <2>1. ASSUME NEW k \in D, k = j + 1
        PROVE  paths[k] \in V
    <3>1. t[k].parent \in 0 .. k - 1 /\ t[k].name \in S /\ k \in 1 .. n
      BY DEF TreeOf
    <3>2. t[k].parent # 0 => paths[t[k].parent] \in V
      <4> PICK p : p = t[k].parent
        OBVIOUS
      <4>1. p # 0 => p \in D /\ p <= j
        BY <2>1, <3>1
      <4> QED
        BY <4>1
    <3>3. PathRule(t, paths, k) \in V
      BY <3>1, <3>2, AppendProperties, EmptySeq DEF PathRule
    <3>4. paths[k] = PathRule(t, paths, k)
      <4> HIDE DEF D, V
      <4> QED
        BY <1>7, <1>9
    <3> QED
      BY <3>3, <3>4
  <2>2. \A k \in D : k <= j + 1 => k <= j \/ k = j + 1
    OBVIOUS
  <2>3. j \in Nat /\ \A k \in D : k <= j => paths[k] \in V
    OBVIOUS
  <2> HIDE DEF D, V
  <2> QED
    BY <2>1, <2>2, <2>3
<1>12. T = Nat
  <2>1. T \subseteq Nat
    OBVIOUS
  <2> HIDE DEF T
  <2> QED
    BY <1>10, <1>11, <2>1, NatSet
<1>13. \A k \in D : paths[k] \in V
  <2>1. n \in T
    <3> HIDE DEF T
    <3> QED
      BY <1>12
  <2>2. \A k \in D : k <= n
    OBVIOUS
  <2> HIDE DEF D, V
  <2> QED
    BY <2>1, <2>2
<1>14. paths \in [D -> V] /\ \A k \in D : paths[k] = PathRule(t, paths, k)
  <2> HIDE DEF D, V
  <2> QED
    BY <1>7, <1>9, <1>13
<1> QED
  BY <1>8, <1>14 DEF PathsOf

LEMMA PathsUnique ==
    ASSUME NEW n \in Nat, NEW t, NEW S, TreeOf(t, n, S),
           NEW f, PathsOf(f, t, n, S), NEW g, PathsOf(g, t, n, S)
    PROVE  f = g
<1> DEFINE T == {j \in Nat : \A k \in 1 .. n : k <= j => f[k] = g[k]}
<1>1. 0 \in T
  OBVIOUS
<1>2. ASSUME NEW j \in T
      PROVE  j + 1 \in T
  <2>1. ASSUME NEW k \in 1 .. n, k = j + 1
        PROVE  f[k] = g[k]
    <3> PICK p : p = t[k].parent
      OBVIOUS
    <3>1. p # 0 => p \in 1 .. n /\ p <= j
      BY <2>1 DEF TreeOf
    <3>2. p # 0 => f[p] = g[p]
      BY <3>1
    <3> QED
      BY <3>2 DEF PathsOf, PathRule
  <2>2. \A k \in 1 .. n : k <= j + 1 => k <= j \/ k = j + 1
    OBVIOUS
  <2> QED
    BY <2>1, <2>2
<1>3. T = Nat
  <2>1. T \subseteq Nat
    OBVIOUS
  <2> HIDE DEF T
  <2> QED
    BY <1>1, <1>2, <2>1, NatSet
<1>4. \A k \in 1 .. n : f[k] = g[k]
  <2>1. n \in T /\ \A k \in 1 .. n : k <= n
    BY <1>3
  <2> QED
    BY <2>1
<1> QED
  BY <1>4 DEF PathsOf

(* A new asset changes no path of another.                                 *)
\* The first n assets of t are where they are in u, and have their names.
Same(t, u, n) == \A k \in 1 .. n : u[k].parent = t[k].parent /\ u[k].name = t[k].name

LEMMA PathsGrow ==
    ASSUME NEW n \in Nat, NEW t, NEW u, NEW S, TreeOf(t, n, S), TreeOf(u, n + 1, S),
           Same(t, u, n)
    PROVE  \A k \in 1 .. n : Paths(u)[k] = Paths(t)[k]
<1> PICK v : v = Paths(u)
  OBVIOUS
<1>1. PathsOf(v, u, n + 1, S) /\ PathsOf(Paths(t), t, n, S)
  BY PathsExist
<1> DEFINE g == [k \in 1 .. n |-> v[k]]
<1>2. PathsOf(g, t, n, S)
  <2>1. ASSUME NEW k \in 1 .. n
        PROVE  g[k] \in Seq(S) /\ g[k] = PathRule(t, g, k)
    <3>1. v[k] \in Seq(S) /\ v[k] = PathRule(u, v, k) /\ g[k] = v[k]
      BY <1>1 DEF PathsOf
    <3>2. t[k].parent \in 0 .. k - 1 /\ u[k].parent = t[k].parent /\ u[k].name = t[k].name
      BY DEF TreeOf, Same
    <3>3. t[k].parent # 0 => g[t[k].parent] = v[t[k].parent]
      BY <3>2
    <3> HIDE DEF g
    <3> QED
      BY <3>1, <3>2, <3>3 DEF PathRule
  <2>2. g \in [1 .. n -> Seq(S)]
    BY <2>1
  <2> HIDE DEF g
  <2> QED
    BY <2>1, <2>2 DEF PathsOf
<1>3. g = Paths(t)
  <2> HIDE DEF g
  <2> QED
    BY <1>1, <1>2, PathsUnique
<1> QED
  BY <1>3

-----------------------------------------------------------------------------
(* What the exclude file hides, and what it leaves to be seen.             *)

LEMMA AppendFacts ==
    ASSUME NEW S, NEW q \in Seq(S), NEW e \in S
    PROVE  /\ Append(q, e) \in Seq(S) /\ Len(q) \in Nat /\ Len(Append(q, e)) = Len(q) + 1
           /\ Front(Append(q, e)) = q /\ Last(Append(q, e)) = e
           /\ SubSeq(Append(q, e), 1, Len(q) + 1) = Append(q, e)
           /\ \A n \in 1 .. Len(q) : SubSeq(Append(q, e), 1, n) = SubSeq(q, 1, n)
<1> PICK p : p = Append(q, e)
  OBVIOUS
<1> PICK N \in Nat : N = Len(q)
  BY LenProperties
<1>1. /\ p \in Seq(S) /\ Len(p) = N + 1 /\ p[N + 1] = e
      /\ \A i \in 1 .. N : p[i] = q[i]
  BY AppendProperties
<1>2. \A i \in 1 .. N : q[i] \in S /\ p[i] \in S
  BY <1>1, ElementOfSeq
<1>3. ASSUME NEW n \in 0 .. N
      PROVE  SubSeq(p, 1, n) = SubSeq(q, 1, n)
  <2>1. \A i \in 1 .. n : q[i] \in S /\ p[i] \in S /\ p[i] = q[i]
    BY <1>1, <1>2
  <2> PICK u : u = SubSeq(p, 1, n)
    OBVIOUS
  <2> PICK v : v = SubSeq(q, 1, n)
    OBVIOUS
  <2>2. u \in Seq(S) /\ Len(u) = n /\ \A i \in 1 .. n : u[i] = p[i]
    <3>1. /\ u \in Seq(S) /\ Len(u) = (IF 1 <= n THEN n - 1 + 1 ELSE 0)
          /\ \A i \in 1 .. n - 1 + 1 : u[i] = p[1 + i - 1]
      BY <2>1, SubSeqProperties
    <3> QED
      BY <3>1
  <2>3. v \in Seq(S) /\ Len(v) = n /\ \A i \in 1 .. n : v[i] = q[i]
    <3>1. /\ v \in Seq(S) /\ Len(v) = (IF 1 <= n THEN n - 1 + 1 ELSE 0)
          /\ \A i \in 1 .. n - 1 + 1 : v[i] = q[1 + i - 1]
      BY <2>1, SubSeqProperties
    <3> QED
      BY <3>1
  <2>4. \A i \in 1 .. n : u[i] = v[i]
    BY <2>1, <2>2, <2>3
  <2> QED
    BY <2>2, <2>3, <2>4, SeqEqual
<1>4. SubSeq(p, 1, N + 1) = p /\ SubSeq(q, 1, N) = q
  BY <1>1, SubSeqFull
<1>5. Front(p) = q /\ Last(p) = e
  <2>1. Len(p) - 1 = N
    BY <1>1
  <2> QED
    BY <1>1, <1>3, <1>4, <2>1 DEF Front, Last
<1> QED
  BY <1>1, <1>3, <1>4, <1>5

\* The folder of a path has it, and it is to be backed up as its folder is.
Shown(path) ==
    Last(path) \in Entries(Front(path)) /\ KindOf(path) # "other" /\ ~ Hidden(path)

LEMMA VisibleIs == \A path : Visible(path) <=> \A n \in 1 .. Len(path) : Shown(SubSeq(path, 1, n))
BY DEF Visible, Shown

LEMMA VisibleRoot == Visible(<< >>)
<1>1. \A n \in 1 .. Len(<< >>) : FALSE
  OBVIOUS
<1> QED
  BY <1>1, VisibleIs

LEMMA VisibleAppend ==
    ASSUME NEW q \in Seq(Name), NEW e \in Name
    PROVE  Visible(Append(q, e)) <=> Visible(q) /\ Shown(Append(q, e))
<1> PICK p : p = Append(q, e)
  OBVIOUS
<1> PICK N \in Nat : N = Len(q)
  BY LenProperties
<1>1. /\ Len(p) = N + 1 /\ SubSeq(p, 1, N + 1) = p
      /\ \A n \in 1 .. N : SubSeq(p, 1, n) = SubSeq(q, 1, n)
  BY AppendFacts
<1>2. /\ Visible(p) <=> \A n \in 1 .. N + 1 : Shown(SubSeq(p, 1, n))
      /\ Visible(q) <=> \A n \in 1 .. N : Shown(SubSeq(q, 1, n))
  BY <1>1, VisibleIs
<1>3. \A n : n \in 1 .. N + 1 <=> n \in 1 .. N \/ n = N + 1
  OBVIOUS
<1> QED
  BY <1>1, <1>2, <1>3

LEMMA NameIsText == \A s \in Name : s \in Text
<1>1. STRING \subseteq Char
  BY DEF Char
<1> QED
  BY <1>1, SeqMonotonic DEF Name, Text

LEMMA JoinedType ==
    ASSUME NEW path \in Seq(Name)
    PROVE  Joined(path) \in Text
<1> DEFINE parts == [i \in DOMAIN path |-> IF i = 1 THEN path[i] ELSE << "/" >> \o path[i]]
<1>1. DOMAIN path = 1 .. Len(path) /\ Len(path) \in Nat /\ \A i \in DOMAIN path : path[i] \in Text
  BY LenProperties, ElementOfSeq, NameIsText
<1>2. << "/" >> \in Text
  BY SpecialChars DEF Text
<1>3. \A i \in DOMAIN path : << "/" >> \o path[i] \in Text
  BY <1>1, <1>2, TextConcat
<1>4. parts \in Seq(Text)
  BY <1>1, <1>3, IsASeq
<1>5. FlattenSeq(parts) \in Text
  <2> HIDE DEF parts
  <2> QED
    BY <1>4, FlattenType DEF Text
<1> QED
  BY <1>5 DEF Joined

(* What matchTextWithWildcards() finds on a path is what the patterns mean *)
(* there, or on a folder above.                                            *)
LEMMA HiddenIsExcluded ==
    ASSUME patterns \subseteq Text, NEW path \in Seq(Name), path # << >>, Hidden(path)
    PROVE  Exclude(path, patterns)
<1>1. PICK w \in patterns : Glob(IF Contains(w, "/") THEN Joined(path) ELSE Last(path), w)
  BY DEF Hidden
<1>2. Joined(path) \in Text /\ Len(path) \in DOMAIN path /\ path[Len(path)] \in Text /\ w \in Text
  <2>1. Len(path) \in DOMAIN path
    BY LenProperties, EmptySeq
  <2> QED
    BY <2>1, JoinedType, LenProperties, ElementOfSeq, NameIsText
<1>3. CASE Contains(w, "/")
  <2>1. Match(Joined(path), w)
    BY <1>1, <1>2, <1>3, PatternsMean
  <2> QED
    BY <1>3, <2>1 DEF Exclude
<1>4. CASE ~ Contains(w, "/")
  <2>1. Match(path[Len(path)], w)
    BY <1>1, <1>2, <1>4, PatternsMean DEF Last
  <2> QED
    BY <1>2, <1>4, <2>1 DEF Exclude
<1> QED
  BY <1>3, <1>4

LEMMA ExcludedIsHidden ==
    ASSUME patterns \subseteq Text, NEW path \in Seq(Name), path # << >>,
           Exclude(path, patterns)
    PROVE  \E n \in 1 .. Len(path) : Hidden(SubSeq(path, 1, n))
<1>1. PICK w \in patterns : IF Contains(w, "/") THEN Match(Joined(path), w)
                            ELSE \E i \in DOMAIN path : Match(path[i], w)
  BY DEF Exclude
<1>2. /\ Joined(path) \in Text /\ w \in Text /\ Len(path) \in Nat \ {0}
      /\ DOMAIN path = 1 .. Len(path) /\ \A i \in DOMAIN path : path[i] \in Name /\ path[i] \in Text
  <2>1. Len(path) \in Nat \ {0}
    BY LenProperties, EmptySeq
  <2> QED
    BY <2>1, JoinedType, LenProperties, ElementOfSeq, NameIsText
<1>3. CASE Contains(w, "/")
  <2>1. Glob(Joined(path), w)
    BY <1>1, <1>2, <1>3, PatternsMean
  <2> PICK n : n = Len(path)
    OBVIOUS
  <2>2. SubSeq(path, 1, n) = path /\ n \in 1 .. Len(path)
    BY <1>2, SubSeqFull
  <2>3. Hidden(path)
    BY <1>3, <2>1 DEF Hidden
  <2>4. Hidden(SubSeq(path, 1, n))
    BY <2>2, <2>3
  <2> QED
    BY <2>2, <2>4
<1>4. CASE ~ Contains(w, "/")
  <2>1. PICK i \in DOMAIN path : Match(path[i], w)
    BY <1>1, <1>4
  <2>2. Glob(path[i], w)
    BY <1>2, <2>1, PatternsMean
  <2> PICK u : u = SubSeq(path, 1, i)
    OBVIOUS
  <2>3. i \in 1 .. Len(path) /\ \A k \in 1 .. i : path[k] \in Name
    BY <1>2
  <2>4. Len(u) = i /\ u[i] = path[i]
    <3>1. /\ Len(u) = (IF 1 <= i THEN i - 1 + 1 ELSE 0)
          /\ \A k \in 1 .. i - 1 + 1 : u[k] = path[1 + k - 1]
      BY <2>3, SubSeqProperties
    <3> QED
      BY <2>3, <3>1
  <2>5. Hidden(u)
    BY <1>4, <2>2, <2>4 DEF Hidden, Last
  <2> QED
    BY <2>3, <2>5
<1> QED
  BY <1>3, <1>4

(* Of what is in a visible folder, Exclude() drops what is hidden itself.  *)
LEMMA ExcludeExact ==
    ASSUME patterns \subseteq Text, NEW q \in Seq(Name), NEW e \in Name, Visible(q)
    PROVE  Exclude(Append(q, e), patterns) <=> Hidden(Append(q, e))
<1> PICK p : p = Append(q, e)
  OBVIOUS
<1> PICK N \in Nat : N = Len(q)
  BY LenProperties
<1>1. /\ p \in Seq(Name) /\ p # << >> /\ Len(p) = N + 1 /\ SubSeq(p, 1, N + 1) = p
      /\ \A n \in 1 .. N : SubSeq(p, 1, n) = SubSeq(q, 1, n)
  BY AppendFacts, AppendProperties
<1>2. \A n \in 1 .. N : ~ Hidden(SubSeq(q, 1, n))
  BY VisibleIs DEF Shown
<1>3. ASSUME Exclude(p, patterns)
      PROVE  Hidden(p)
  <2>1. PICK n \in 1 .. Len(p) : Hidden(SubSeq(p, 1, n))
    BY <1>1, <1>3, ExcludedIsHidden
  <2>2. n \in 1 .. N \/ n = N + 1
    BY <1>1
  <2> QED
    BY <1>1, <1>2, <2>1, <2>2
<1>4. Hidden(p) => Exclude(p, patterns)
  BY <1>1, HiddenIsExcluded
<1> QED
  BY <1>3, <1>4

(* What SourceAssumption says of the folder that is backed up.             *)
LEMMA SourceFacts ==
    ASSUME source \in Sources
    PROVE  /\ \A p \in DOMAIN source : p \in Seq(Name) /\ p # << >> /\ Last(p) \in Name
           /\ \A p \in DOMAIN source : Front(p) # << >> => source[Front(p)] = "folder"
           /\ EntryName \subseteq Name
           /\ \A q : Entries(q) \subseteq Name
<1>1. \A p \in DOMAIN source : p \in Seq(Name) /\ p # << >>
  BY SourceAssumption
<1>2. ASSUME NEW p \in DOMAIN source
      PROVE  Last(p) \in Name
  <2>1. Len(p) \in 1 .. Len(p) /\ p \in Seq(Name)
    BY <1>1, LenProperties, EmptySeq
  <2> QED
    BY <2>1, ElementOfSeq DEF Last
<1>3. \A p \in DOMAIN source : Front(p) # << >> => source[Front(p)] = "folder"
  BY SourceAssumption
<1>4. << >> \in Name
  BY EmptySeq DEF Name
<1> QED
  BY <1>1, <1>2, <1>3, <1>4 DEF EntryName, Entries

(* The walk has nothing to look for in a file.                             *)
LEMMA FilesAreLeaves ==
    ASSUME source \in Sources, NEW q \in Seq(Name), NEW e \in Name,
           KindOf(Append(q, e)) = "file"
    PROVE  Entries(Append(q, e)) = {}
<1> PICK p : p = Append(q, e)
  OBVIOUS
<1> PICK N \in Nat : N = Len(q)
  BY LenProperties
<1> DEFINE parts == [i \in DOMAIN p |-> IF i \in Links(p) THEN << >> ELSE << p[i] >>]
           before == [i \in 1 .. N |-> parts[i]]
<1>1. /\ p \in Seq(Name) /\ Len(p) = N + 1 /\ p[N + 1] = e /\ DOMAIN p = 1 .. N + 1
      /\ \A i \in DOMAIN p : p[i] \in Name
  <2>1. p \in Seq(Name) /\ Len(p) = N + 1 /\ p[N + 1] = e
    BY AppendProperties
  <2> QED
    BY <2>1, LenProperties, ElementOfSeq
<1>2. N + 1 \notin Links(p) /\ source[Target(p)] = "file"
  BY <1>1 DEF KindOf
<1>3. \A i \in DOMAIN p : parts[i] \in Seq(Name)
  BY <1>1, EmptySeq
<1>4. parts \in Seq(Seq(Name)) /\ Len(parts) = N + 1 /\ parts[N + 1] = << e >>
  <2>1. parts[N + 1] = << e >>
    BY <1>1, <1>2
  <2>2. parts \in [1 .. N + 1 -> Seq(Name)]
    BY <1>1, <1>3
  <2> HIDE DEF parts
  <2>3. parts \in Seq(Seq(Name))
    BY <2>2
  <2> QED
    BY <2>1, <2>2, <2>3, LenProperties
<1>5. before \in Seq(Seq(Name)) /\ Len(before) = N
  <2>1. before \in [1 .. N -> Seq(Name)]
    BY <1>1, <1>3
  <2> HIDE DEF before
  <2> QED
    BY <2>1
<1>6. parts = Append(before, << e >>)
  <2> PICK b : b = before
    OBVIOUS
  <2>1. b \in Seq(Seq(Name)) /\ Len(b) = N /\ \A i \in 1 .. N : b[i] = parts[i]
    BY <1>5
  <2> HIDE DEF before, parts
  <2>2. << e >> \in Seq(Name)
    OBVIOUS
  <2> PICK c : c = Append(b, << e >>)
    OBVIOUS
  <2>3. /\ c \in Seq(Seq(Name)) /\ Len(c) = N + 1 /\ c[N + 1] = << e >>
        /\ \A i \in 1 .. N : c[i] = b[i]
    BY <2>1, <2>2, AppendProperties
  <2>4. \A i \in 1 .. N + 1 : c[i] = parts[i]
    <3>1. \A i \in 1 .. N + 1 : i \in 1 .. N \/ i = N + 1
      OBVIOUS
    <3>2. parts[N + 1] = c[N + 1]
      BY <1>4, <2>3
    <3> QED
      BY <2>1, <2>3, <3>1, <3>2
  <2> QED
    BY <1>4, <2>3, <2>4, SeqEqual
<1>7. Target(p) # << >>
  <2> HIDE DEF before
  <2>1. Target(p) = FlattenSeq(parts)
    BY DEF Target
  <2> HIDE DEF parts
  <2>2. << e >> \in Seq(Name) /\ Len(<< e >>) = 1
    OBVIOUS
  <2> PICK one : one = << e >>
    OBVIOUS
  <2>3. Target(p) = FlattenSeq(before) \o one
    BY <1>5, <1>6, <2>1, <2>2, FlattenAppend
  <2> PICK f \in Seq(Name) : f = FlattenSeq(before)
    BY <1>5, FlattenType
  <2>4. Len(f \o one) = Len(f) + 1 /\ Len(f) \in Nat
    BY <2>2, ConcatProperties, LenProperties
  <2>5. Len(<< >>) = 0
    OBVIOUS
  <2> QED
    BY <2>3, <2>4, <2>5
<1> HIDE DEF parts, before
<1>8. \A r \in DOMAIN source : Front(r) # Target(p)
  <2>1. \A r \in DOMAIN source : Front(r) # << >> => source[Front(r)] = "folder"
    BY SourceFacts
  <2> QED
    BY <1>2, <1>7, <2>1
<1> QED
  BY <1>8 DEF Entries

LEMMA MinMax ==
    ASSUME NEW n \in Nat, NEW S, S \subseteq 1 .. n, S # {}
    PROVE  Min(S) \in S /\ Max(S) \in S
<1> DEFINE T == {k \in Nat : \A U \in SUBSET (1 .. k) : U # {} =>
                    (\E x \in U : \A y \in U : x <= y) /\ (\E x \in U : \A y \in U : x >= y)}
<1>1. 0 \in T
  <2>1. \A U \in SUBSET (1 .. 0) : U = {}
    OBVIOUS
  <2> QED
    BY <2>1
<1>2. ASSUME NEW k \in T
      PROVE  k + 1 \in T
  <2>1. ASSUME NEW U \in SUBSET (1 .. k + 1), U # {}
        PROVE  (\E x \in U : \A y \in U : x <= y) /\ (\E x \in U : \A y \in U : x >= y)
    <3>1. CASE U = {k + 1}
      BY <3>1
    <3>2. CASE U # {k + 1}
      <4> PICK V : V = U \ {k + 1}
        OBVIOUS
      <4>1. V \subseteq 1 .. k /\ V # {}
        BY <2>1, <3>2
      <4>2. (\E x \in V : \A y \in V : x <= y) /\ (\E x \in V : \A y \in V : x >= y)
        BY <4>1
      <4>3. \E x \in U : \A y \in U : x <= y
        <5>1. PICK x \in V : \A y \in V : x <= y
          BY <4>2
        <5>2. \A y \in U : x <= y
          BY <4>1, <5>1
        <5> QED
          BY <5>2
      <4>4. \E x \in U : \A y \in U : x >= y
        <5>1. CASE k + 1 \in U
          BY <5>1
        <5>2. CASE k + 1 \notin U
          BY <4>2, <5>2
        <5> QED
          BY <5>1, <5>2
      <4> QED
        BY <4>3, <4>4
    <3> QED
      BY <3>1, <3>2
  <2> QED
    BY <2>1
<1>3. T = Nat
  <2>1. T \subseteq Nat
    OBVIOUS
  <2> HIDE DEF T
  <2> QED
    BY <1>1, <1>2, <2>1, NatSet
<1>4. (\E x \in S : \A y \in S : x <= y) /\ (\E x \in S : \A y \in S : x >= y)
  <2>1. n \in T
    <3> HIDE DEF T
    <3> QED
      BY <1>3
  <2> QED
    BY <2>1
<1> QED
  BY <1>4 DEF Min, Max

LEMMA LoadExcludesType ==
    ASSUME NEW l, l \subseteq Name
    PROVE  LoadExcludes(l) \subseteq Text
<1>1. ASSUME NEW line \in Name
      PROVE  Trimmed(line) \in Text
  <2> DEFINE ink == {i \in DOMAIN line : line[i] \notin Blank}
  <2>1. line \in Text /\ Len(line) \in Nat /\ DOMAIN line = 1 .. Len(line)
    BY NameIsText, LenProperties DEF Text
  <2>2. CASE ink = {}
    BY <2>2, EmptySeq DEF Trimmed, Text
  <2>3. CASE ink # {}
    <3>1. ink \subseteq 1 .. Len(line)
      BY <2>1
    <3> HIDE DEF ink
    <3> PICK a \in 1 .. Len(line), b \in 1 .. Len(line) : a = Min(ink) /\ b = Max(ink)
      BY <2>1, <2>3, <3>1, MinMax
    <3>2. a \in Int /\ b \in Int /\ \A i \in a .. b : line[i] \in Char
      <4>1. \A i \in a .. b : i \in 1 .. Len(line)
        BY <2>1
      <4> QED
        BY <2>1, <4>1, ElementOfSeq DEF Text
    <3>3. SubSeq(line, a, b) \in Text
      BY <3>2, SubSeqProperties DEF Text
    <3>4. Trimmed(line) = SubSeq(line, a, b)
      BY <2>3 DEF Trimmed, ink
    <3> QED
      BY <3>3, <3>4
  <2> QED
    BY <2>2, <2>3
<1> QED
  BY <1>1 DEF LoadExcludes

-----------------------------------------------------------------------------
(* What has been found and what has still to be.                           *)

(* The root has no parent, any other asset is a child of its own.          *)
LinkedOK ==
    \A a \in DOMAIN assets :
        IF a = 1 THEN assets[a].parent = 0
        ELSE /\ assets[a].parent # 0
             /\ \E k \in DOMAIN assets[assets[a].parent].childs :
                    assets[assets[a].parent].childs[k] = a

(* Only what is to be backed up is in the tree, once.                      *)
FoundOK ==
    /\ \A a \in DOMAIN assets : \A p \in Seq(Name) : Paths(assets)[a] = p =>
           /\ Visible(p)
           /\ assets[a].folder <=> (a = 1 \/ KindOf(p) # "file")
    /\ \A a, b \in DOMAIN assets : Paths(assets)[a] = Paths(assets)[b] => a = b

(* A call reads the entries of its folder.                                 *)
ReadingOK ==
    \A i \in DOMAIN stack : \A p \in Seq(Name) : Paths(assets)[stack[i].asset] = p =>
        /\ stack[i].entries \subseteq Entries(p)
        /\ stack[i].at = "entry" => stack[i].entry \in Entries(p)

FilterOK == source \in Sources /\ patterns \subseteq Text

FoundInv == LinkedOK /\ FoundOK /\ ReadingOK /\ FilterOK

LEMMA SameFilter ==
    ASSUME UNCHANGED <<source, patterns>>
    PROVE  \A q : /\ Entries(q)' = Entries(q) /\ KindOf(q)' = KindOf(q)
                  /\ Visible(q)' <=> Visible(q)
<1>1. \A q : Entries(q)' = Entries(q)
  BY DEF Entries, Target, Links
<1>2. \A q : KindOf(q)' = KindOf(q)
  BY DEF KindOf, Target, Links
<1>3. \A q : Hidden(q)' <=> Hidden(q)
  BY DEF Hidden
<1>4. \A q : Visible(q)' <=> Visible(q)
  BY DEF Visible, Entries, KindOf, Target, Links, Hidden
<1> QED
  BY <1>1, <1>2, <1>4

LEMMA AssetsTree ==
    ASSUME NodesOK, source \in Sources
    PROVE  /\ Len(assets) \in Nat /\ DOMAIN assets = 1 .. Len(assets)
           /\ TreeOf(assets, Len(assets), Name)
<1>1. Len(assets) \in Nat /\ DOMAIN assets = 1 .. Len(assets)
  BY LenProperties DEF NodesOK
<1>2. ASSUME NEW a \in 1 .. Len(assets)
      PROVE  assets[a].parent \in 0 .. a - 1 /\ assets[a].name \in Name
  <2>1. assets[a] \in Node /\ assets[a].parent < a /\ a \in Nat
    BY <1>1, ElementOfSeq DEF NodesOK
  <2>2. assets[a].parent \in Nat /\ assets[a].name \in Name
    BY <2>1, SourceFacts DEF Node
  <2> QED
    BY <2>1, <2>2
<1> QED
  BY <1>1, <1>2 DEF TreeOf

(* Each asset has a path: its parent's, and its name.                      *)
LEMMA AssetPaths ==
    ASSUME NodesOK, source \in Sources, NEW a \in DOMAIN assets
    PROVE  /\ Paths(assets)[a] \in Seq(Name)
           /\ assets[a].parent = 0 => Paths(assets)[a] = << >>
           /\ assets[a].parent # 0 =>
                  /\ assets[a].parent \in DOMAIN assets /\ assets[a].name \in Name
                  /\ Paths(assets)[a] = Append(Paths(assets)[assets[a].parent], assets[a].name)
<1>1. /\ TreeOf(assets, Len(assets), Name) /\ Len(assets) \in Nat
      /\ DOMAIN assets = 1 .. Len(assets)
  BY AssetsTree
<1>2. PathsOf(Paths(assets), assets, Len(assets), Name)
  BY <1>1, PathsExist
<1>3. assets[a].parent # 0 => assets[a].parent \in DOMAIN assets /\ assets[a].name \in Name
  BY <1>1 DEF TreeOf
<1> QED
  BY <1>1, <1>2, <1>3 DEF PathsOf, PathRule

(* What NewAsset does to the paths.                                        *)
GrownPaths ==
    LET n == Len(assets)
    IN  /\ \A a \in 1 .. n : Paths(assets')[a] = Paths(assets)[a]
        /\ Paths(assets')[n + 1] = Append(Paths(assets)[Top.asset], Top.entry)
        /\ Path = Append(Paths(assets)[Top.asset], Top.entry)
        /\ Top.entry \in Name

LEMMA NewAssetPaths ==
    ASSUME NodesOK, StackOK, source \in Sources, NewAsset
    PROVE  GrownPaths
<1> PICK n : n = Len(assets)
  OBVIOUS
<1> PICK t : t = Top.asset
  OBVIOUS
<1> PICK u : u = assets'
  OBVIOUS
<1>1. /\ n \in Nat /\ DOMAIN assets = 1 .. n /\ TreeOf(assets, n, Name)
  BY AssetsTree
<1>2. /\ DOMAIN u = 1 .. n + 1 /\ t \in 1 .. n
      /\ \A a \in 1 .. n : u[a].parent = assets[a].parent /\ u[a].name = assets[a].name
      /\ u[n + 1].name = Top.entry /\ u[n + 1].parent = t
  BY NewAssetGrows DEF Growth
<1>3. Top.entry \in Name
  <2>1. Top \in Frame
    BY TopFacts DEF NewAsset, At, StackOK
  <2> QED
    BY <2>1, SourceFacts DEF Frame
<1>4. TreeOf(u, n + 1, Name)
  <2>1. ASSUME NEW a \in 1 .. n + 1
        PROVE  u[a].parent \in 0 .. a - 1 /\ u[a].name \in Name
    <3>1. CASE a \in 1 .. n
      BY <1>1, <1>2, <3>1 DEF TreeOf
    <3>2. CASE a = n + 1
      BY <1>1, <1>2, <1>3, <3>2
    <3> QED
      BY <1>1, <3>1, <3>2
  <2> QED
    BY <1>2, <2>1 DEF TreeOf
<1>5. \A a \in 1 .. n : Paths(u)[a] = Paths(assets)[a]
  <2>1. Same(assets, u, n)
    BY <1>2 DEF Same
  <2> QED
    BY <1>1, <1>4, <2>1, PathsGrow
<1>6. Paths(u)[n + 1] = Append(Paths(u)[t], Top.entry)
  <2>1. PathsOf(Paths(u), u, n + 1, Name) /\ n + 1 \in 1 .. n + 1
    BY <1>1, <1>4, PathsExist
  <2>2. Paths(u)[n + 1] = PathRule(u, Paths(u), n + 1)
    BY <2>1 DEF PathsOf
  <2> QED
    BY <1>1, <1>2, <2>2 DEF PathRule
<1>7. Path = Append(Paths(assets)[t], Top.entry)
  BY RelativePathIs DEF Path
<1> QED
  BY <1>2, <1>3, <1>5, <1>6, <1>7 DEF GrownPaths

(* A new asset is one that is to be backed up, and was not there before.   *)
LEMMA NewAssetFound ==
    ASSUME NodesOK, StackOK, FoundInv, NewAsset
    PROVE  LinkedOK' /\ FoundOK'
<1> PICK n : n = Len(assets)
  OBVIOUS
<1> PICK t : t = Top.asset
  OBVIOUS
<1> PICK e : e = Top.entry
  OBVIOUS
<1> PICK cs : cs = assets[t].childs
  OBVIOUS
<1> PICK q : q = Paths(assets)[t]
  OBVIOUS
<1> PICK p : p = Append(q, e)
  OBVIOUS
<1> PICK m : m = n + 1
  OBVIOUS
<1>0. LinkedOK /\ FoundOK /\ ReadingOK /\ source \in Sources /\ patterns \subseteq Text
  BY DEF FoundInv, FilterOK
<1>1. /\ n \in Nat /\ DOMAIN assets = 1 .. n /\ t \in 1 .. n /\ DOMAIN assets' = 1 .. m
      /\ DOMAIN cs = 1 .. Len(cs) /\ Len(cs) \in Nat
      /\ \A a \in 1 .. n : /\ assets'[a].name = assets[a].name
                           /\ assets'[a].parent = assets[a].parent
                           /\ assets'[a].folder = assets[a].folder
      /\ \A a \in 1 .. n : a # t => assets'[a].childs = assets[a].childs
      /\ DOMAIN assets'[t].childs = 1 .. Len(cs) + 1
      /\ \A k \in 1 .. Len(cs) : assets'[t].childs[k] = cs[k]
      /\ assets'[t].childs[Len(cs) + 1] = m
      /\ assets'[m].name = e /\ assets'[m].parent = t
      /\ assets'[m].folder = (KindOf(Path) # "file")
  BY NewAssetGrows DEF Growth
<1>2. /\ \A a \in 1 .. n : Paths(assets')[a] = Paths(assets)[a]
      /\ Paths(assets')[m] = p /\ Path = p /\ e \in Name
      /\ q \in Seq(Name) /\ p \in Seq(Name) /\ p # << >>
  <2>1. GrownPaths /\ q \in Seq(Name)
    BY <1>0, <1>1, NewAssetPaths, AssetPaths
  <2>2. e \in Name
    BY <2>1 DEF GrownPaths
  <2>3. p \in Seq(Name) /\ p # << >>
    BY <2>1, <2>2, AppendProperties
  <2> QED
    BY <2>1, <2>2, <2>3 DEF GrownPaths
<1>3. UNCHANGED <<source, patterns>>
  BY DEF NewAsset, walkRest
<1>4. /\ \A a : a \in 1 .. m <=> a \in 1 .. n \/ a = m
      /\ m \notin 1 .. n /\ m # 1 /\ t # 0 /\ Len(cs) + 1 \in 1 .. Len(cs) + 1
  BY <1>1
<1>5. /\ ~ Exclude(p, patterns) /\ KindOf(p) # "other" /\ e \in Entries(q)
      /\ \A k \in 1 .. Len(cs) : assets[cs[k]].name # e
  <2>1. ~ Exclude(p, patterns) /\ KindOf(p) # "other"
    BY <1>2 DEF NewAsset
  <2>2. /\ Len(stack) \in DOMAIN stack /\ Top = stack[Len(stack)] /\ Top.at = "entry"
        /\ FrameOK(Len(stack))
    BY TopFacts DEF NewAsset, At, StackOK
  <2>3. e \in Entries(q)
    BY <1>0, <1>2, <2>2 DEF ReadingOK
  <2>4. \A k \in DOMAIN cs : assets[cs[k]].name # e
    BY <2>2 DEF FrameOK
  <2> QED
    BY <1>1, <2>1, <2>3, <2>4
<1>6. Visible(p)
  <2>1. Visible(q)
    BY <1>0, <1>1, <1>2 DEF FoundOK
  <2>2. ~ Hidden(p)
    BY <1>0, <1>2, <1>5, <2>1, ExcludeExact
  <2>3. Front(p) = q /\ Last(p) = e
    BY <1>2, AppendFacts
  <2>4. Shown(p)
    BY <1>5, <2>2, <2>3 DEF Shown
  <2> QED
    BY <1>2, <2>1, <2>4, VisibleAppend
<1>7. ASSUME NEW b \in 1 .. n
      PROVE  Paths(assets)[b] # p
  <2> SUFFICES ASSUME Paths(assets)[b] = p
               PROVE  FALSE
    OBVIOUS
  <2> PICK a : a = assets[b].parent
    OBVIOUS
  <2>1. a # 0 /\ a \in 1 .. n /\ assets[b].name \in Name
        /\ p = Append(Paths(assets)[a], assets[b].name)
    BY <1>0, <1>1, <1>2, AssetPaths
  <2>2. Paths(assets)[a] \in Seq(Name)
    BY <1>0, <1>1, <2>1, AssetPaths
  <2>3. Paths(assets)[a] = q /\ assets[b].name = e
    <3> PICK v \in Seq(Name), nm \in Name : v = Paths(assets)[a] /\ nm = assets[b].name
      BY <2>1, <2>2
    <3>1. Append(v, nm) = Append(q, e)
      BY <2>1
    <3>2. /\ Front(Append(v, nm)) = v /\ Last(Append(v, nm)) = nm
          /\ Front(Append(q, e)) = q /\ Last(Append(q, e)) = e
      BY <1>2, AppendFacts
    <3> QED
      BY <3>1, <3>2
  <2>4. a = t
    BY <1>0, <1>1, <2>1, <2>3 DEF FoundOK
  <2>5. PICK k \in DOMAIN assets[a].childs : assets[a].childs[k] = b
    <3>1. b # 1
      BY <1>0, <1>1, <2>1 DEF LinkedOK
    <3> QED
      BY <1>0, <1>1, <3>1 DEF LinkedOK
  <2> QED
    BY <1>1, <1>5, <2>3, <2>4, <2>5
<1>8. LinkedOK'
  <2>1. ASSUME NEW a \in 1 .. m
        PROVE  IF a = 1 THEN assets'[a].parent = 0
               ELSE /\ assets'[a].parent # 0
                    /\ \E k \in DOMAIN assets'[assets'[a].parent].childs :
                           assets'[assets'[a].parent].childs[k] = a
    <3>1. CASE a = m
      BY <1>1, <1>4, <3>1
    <3>2. CASE a = 1
      <4>1. a \in 1 .. n
        BY <1>1, <3>2
      <4>2. assets[a].parent = 0
        BY <1>0, <1>1, <3>2, <4>1 DEF LinkedOK
      <4> QED
        BY <1>1, <3>2, <4>1, <4>2
    <3>3. CASE a \in 1 .. n /\ a # 1
      <4> PICK b : b = assets[a].parent
        OBVIOUS
      <4>1. b # 0 /\ \E k \in DOMAIN assets[b].childs : assets[b].childs[k] = a
        BY <1>0, <1>1, <3>3 DEF LinkedOK
      <4>2. b \in 1 .. n /\ assets'[a].parent = b
        BY <1>0, <1>1, <3>3, <4>1, AssetPaths
      <4> PICK k \in DOMAIN assets[b].childs : assets[b].childs[k] = a
        BY <4>1
      <4>3. CASE b = t
        <5>1. k \in 1 .. Len(cs) /\ k \in 1 .. Len(cs) + 1 /\ cs[k] = a
          BY <1>1, <4>3
        <5>2. k \in DOMAIN assets'[t].childs /\ assets'[t].childs[k] = a
          BY <1>1, <5>1
        <5> QED
          BY <3>3, <4>1, <4>2, <4>3, <5>2
      <4>4. CASE b # t
        <5>1. assets'[b].childs = assets[b].childs
          BY <1>1, <4>2, <4>4
        <5> QED
          BY <3>3, <4>1, <4>2, <5>1
      <4> QED
        BY <4>3, <4>4
    <3> QED
      BY <1>4, <3>1, <3>2, <3>3
  <2> QED
    BY <1>1, <2>1 DEF LinkedOK
<1>9. FoundOK'
  <2>1. ASSUME NEW a \in 1 .. m, NEW r \in Seq(Name), Paths(assets')[a] = r
        PROVE  Visible(r) /\ (assets'[a].folder <=> (a = 1 \/ KindOf(r) # "file"))
    <3>1. CASE a = m
      <4>1. r = p
        BY <1>2, <2>1, <3>1
      <4> QED
        BY <1>1, <1>2, <1>4, <1>6, <3>1, <4>1
    <3>2. CASE a \in 1 .. n
      <4>1. Paths(assets)[a] = r /\ assets'[a].folder = assets[a].folder /\ a \in DOMAIN assets
        BY <1>1, <1>2, <2>1, <3>2
      <4> QED
        BY <1>0, <4>1 DEF FoundOK
    <3> QED
      BY <1>4, <3>1, <3>2
  <2>2. ASSUME NEW a \in 1 .. m, NEW b \in 1 .. m, Paths(assets')[a] = Paths(assets')[b]
        PROVE  a = b
    <3>1. \A c, d \in 1 .. n : Paths(assets)[c] = Paths(assets)[d] => c = d
      BY <1>0, <1>1 DEF FoundOK
    <3> QED
      BY <1>2, <1>4, <1>7, <2>2, <3>1
  <2>3. \A r : (Visible(r)' <=> Visible(r)) /\ KindOf(r)' = KindOf(r)
    BY <1>3, SameFilter
  <2>4. Name' = Name
    BY DEF Name
  <2> QED
    BY <1>1, <2>1, <2>2, <2>3 DEF FoundOK, Name
<1> QED
  BY <1>8, <1>9

ReadsOwn(f) ==
    \A p \in Seq(Name) : Paths(assets)[f.asset] = p =>
        f.entries \subseteq Entries(p) /\ (f.at = "entry" => f.entry \in Entries(p))

LEMMA ReadingTop ==
    ASSUME StackOK, ReadingOK, stack # << >>, UNCHANGED <<source, patterns>>,
           NEW f \in Frame, Set(f), ReadsOwn(f),
           \A i \in DOMAIN stack : stack[i].asset \in DOMAIN assets,
           \A a \in DOMAIN assets : Paths(assets')[a] = Paths(assets)[a],
           f.asset \in DOMAIN assets
    PROVE  ReadingOK'
<1>1. /\ DOMAIN stack' = DOMAIN stack /\ stack'[Len(stack)] = f
      /\ \A i \in DOMAIN stack : i # Len(stack) => stack'[i] = stack[i]
  BY SetFacts DEF StackOK
<1>2. \A q : Entries(q)' = Entries(q)
  BY SameFilter
<1>3. ASSUME NEW i \in DOMAIN stack', NEW p \in Seq(Name), Paths(assets')[stack'[i].asset] = p
      PROVE  /\ stack'[i].entries \subseteq Entries(p)
             /\ stack'[i].at = "entry" => stack'[i].entry \in Entries(p)
  <2>1. CASE i = Len(stack)
    <3>1. stack'[i] = f /\ Paths(assets)[f.asset] = p
      BY <1>1, <1>3, <2>1
    <3> QED
      BY <3>1 DEF ReadsOwn
  <2>2. CASE i # Len(stack)
    <3>1. i \in DOMAIN stack /\ stack'[i] = stack[i] /\ Paths(assets)[stack[i].asset] = p
      BY <1>1, <1>3, <2>2
    <3> QED
      BY <3>1 DEF ReadingOK
  <2> QED
    BY <2>1, <2>2
<1> QED
  BY <1>2, <1>3 DEF ReadingOK, Name

(* A call never has entries in hand that are not its folder's.             *)
LEMMA ReadingStep ==
    ASSUME NodesOK, StackOK, FoundInv, [Next]_vars
    PROVE  ReadingOK'
<1>0. ASSUME NEW where, At(where)
      PROVE  /\ stack # << >> /\ Top \in Frame /\ Top.at = where
             /\ Top = stack[Len(stack)] /\ Len(stack) \in DOMAIN stack
             /\ Top.asset \in DOMAIN assets /\ ReadsOwn(Top)
  <2>1. /\ stack # << >> /\ Top \in Frame /\ Top.at = where
        /\ Top = stack[Len(stack)] /\ Len(stack) \in DOMAIN stack
    BY <1>0, TopFacts DEF At, StackOK
  <2>2. FrameOK(Len(stack))
    BY <2>1 DEF StackOK
  <2>3. Top.asset \in DOMAIN assets
    BY <2>1, <2>2 DEF FrameOK
  <2>4. ReadsOwn(Top)
    BY <2>1 DEF FoundInv, ReadingOK, ReadsOwn
  <2> QED
    BY <2>1, <2>3, <2>4
<1>a. /\ ReadingOK /\ source \in Sources
      /\ \A i \in DOMAIN stack : stack[i].asset \in DOMAIN assets
  BY DEF FoundInv, FilterOK, StackOK, FrameOK
<1>1. CASE CallReturns \/ ChildsEnd
  <2>1. /\ stack # << >> /\ assets' = assets /\ stack' = Front(stack)
        /\ UNCHANGED <<source, patterns>>
    BY <1>1 DEF CallReturns, ChildsEnd, At, Return, walkRest
  <2>2. /\ Len(stack) \in Nat \ {0} /\ DOMAIN stack = 1 .. Len(stack)
        /\ \A i \in DOMAIN stack : stack[i] \in Frame
    BY <2>1, TopFacts, ElementOfSeq DEF StackOK
  <2>3. /\ stack' \in Seq(Frame) /\ Len(stack') = Len(stack) - 1
        /\ \A i \in 1 .. Len(stack) - 1 : stack'[i] = stack[i]
    BY <2>1, <2>2, SubSeqProperties DEF Front
  <2>4. \A i \in DOMAIN stack' : i \in DOMAIN stack /\ stack'[i] = stack[i]
    BY <2>2, <2>3, LenProperties
  <2>5. \A q : Entries(q)' = Entries(q)
    BY <2>1, SameFilter
  <2> QED
    BY <1>a, <2>1, <2>4, <2>5 DEF ReadingOK, Name
<1>2. CASE Open
  <2> DEFINE f == [Top EXCEPT !.at = "entries", !.entries = Entries(RelativePath(Top.asset))]
  <2>1. /\ stack # << >> /\ Top \in Frame /\ Top.asset \in DOMAIN assets
        /\ assets' = assets /\ UNCHANGED <<source, patterns>> /\ Set(f)
    BY <1>0, <1>2 DEF Open, walkRest
  <2> PICK all : all = Entries(RelativePath(Top.asset))
    OBVIOUS
  <2>2. all \in SUBSET EntryName
    BY DEF Entries, EntryName
  <2>3. /\ f \in Frame /\ f.asset = Top.asset /\ f.at = "entries" /\ f.entries = all
    BY <2>1, <2>2 DEF Frame
  <2> HIDE DEF f
  <2>4. ReadsOwn(f)
    <3> SUFFICES ASSUME NEW p \in Seq(Name), Paths(assets)[f.asset] = p
                 PROVE  f.entries = Entries(p)
      BY <2>3 DEF ReadsOwn
    <3>1. RelativePath(Top.asset) = p
      BY <2>3, RelativePathIs
    <3> QED
      BY <2>3, <3>1
  <2> QED
    BY <1>a, <2>1, <2>3, <2>4, ReadingTop
<1>3. CASE Take
  <2> PICK e \in Top.entries :
          Set([Top EXCEPT !.at = "entry", !.entry = e, !.entries = @ \ {e}])
    BY <1>3 DEF Take
  <2> DEFINE f == [Top EXCEPT !.at = "entry", !.entry = e, !.entries = @ \ {e}]
  <2>1. /\ stack # << >> /\ Top \in Frame /\ Top.asset \in DOMAIN assets /\ ReadsOwn(Top)
        /\ assets' = assets /\ UNCHANGED <<source, patterns>> /\ Set(f)
    BY <1>0, <1>3 DEF Take, walkRest
  <2>2. e \in EntryName
    BY <2>1 DEF Frame
  <2>3. /\ f \in Frame /\ f.asset = Top.asset /\ f.entry = e /\ f.entries = Top.entries \ {e}
    BY <2>1, <2>2 DEF Frame
  <2> HIDE DEF f
  <2>4. ReadsOwn(f)
    BY <2>1, <2>3 DEF ReadsOwn
  <2> QED
    BY <1>a, <2>1, <2>3, <2>4, ReadingTop
<1>4. CASE Skip \/ NewAsset
  <2> DEFINE f == [Top EXCEPT !.at = "entries"]
  <2>1. /\ stack # << >> /\ Top \in Frame /\ Top.asset \in DOMAIN assets /\ ReadsOwn(Top)
        /\ UNCHANGED <<source, patterns>> /\ Set(f)
    BY <1>0, <1>4 DEF Skip, NewAsset, walkRest
  <2>2. f \in Frame /\ f.asset = Top.asset /\ f.at = "entries" /\ f.entries = Top.entries
    BY <2>1 DEF Frame
  <2> HIDE DEF f
  <2>3. ReadsOwn(f)
    BY <2>1, <2>2 DEF ReadsOwn
  <2>4. \A a \in DOMAIN assets : Paths(assets')[a] = Paths(assets)[a]
    <3>1. CASE Skip
      BY <3>1 DEF Skip
    <3>2. CASE NewAsset
      BY <1>a, <3>2, NewAssetPaths, AssetsTree DEF GrownPaths
    <3> QED
      BY <1>4, <3>1, <3>2
  <2> QED
    BY <1>a, <2>1, <2>2, <2>3, <2>4, ReadingTop
<1>5. CASE EntriesEnd
  <2> DEFINE f == [Top EXCEPT !.at = "childs", !.entries = {}]
  <2>1. /\ stack # << >> /\ Top \in Frame /\ Top.asset \in DOMAIN assets
        /\ assets' = assets /\ UNCHANGED <<source, patterns>> /\ Set(f)
    BY <1>0, <1>5 DEF EntriesEnd, walkRest
  <2>2. f \in Frame /\ f.asset = Top.asset /\ f.at = "childs" /\ f.entries = {}
    BY <2>1 DEF Frame
  <2> HIDE DEF f
  <2>3. ReadsOwn(f)
    BY <2>2 DEF ReadsOwn
  <2> QED
    BY <1>a, <2>1, <2>2, <2>3, ReadingTop
<1>6. CASE Descend
  <2> DEFINE n == Len(stack)
             f == [Top EXCEPT !.next = @ + 1]
             g == [asset |-> assets[Top.asset].childs[Top.next], at |-> "call",
                   entries |-> {}, entry |-> << >>, next |-> 1]
             old == [stack EXCEPT ![n] = f]
  <2>1. /\ stack # << >> /\ Top \in Frame /\ Top.at = "childs" /\ ReadsOwn(Top)
        /\ assets' = assets /\ UNCHANGED <<source, patterns>> /\ stack \in Seq(Frame)
        /\ n \in DOMAIN stack /\ n \in Nat /\ DOMAIN stack = 1 .. n
    BY <1>0, <1>6, LenProperties DEF Descend, walkRest, StackOK
  <2>2. old = [stack EXCEPT ![n].next = @ + 1]
    BY DEF Top
  <2>3. stack' = Append(old, g)
    BY <1>6, <2>2 DEF Descend
  <2>4. /\ f \in Frame /\ f.asset = Top.asset /\ f.at = "childs" /\ f.entries = Top.entries
    <3>1. Top.next + 1 \in Nat \ {0}
      <4>1. Top.next \in Nat \ {0}
        BY <2>1 DEF Frame
      <4> QED
        BY <4>1
    <3> QED
      BY <2>1, <3>1 DEF Frame
  <2>5. g.entries = {} /\ g.at = "call"
    OBVIOUS
  <2>6. /\ old \in Seq(Frame) /\ Len(old) = n /\ old[n] = f
        /\ \A i \in 1 .. n : i # n => old[i] = stack[i]
    <3> HIDE DEF f
    <3> QED
      BY <2>1, <2>4, ExceptSeq
  <2> HIDE DEF f, g, old, n
  <2>7. /\ DOMAIN stack' = 1 .. n + 1 /\ stack'[n + 1] = g /\ stack'[n] = f
        /\ \A i \in 1 .. n : i # n => stack'[i] = stack[i]
    BY <2>1, <2>3, <2>6, LenProperties
  <2>8. \A q : Entries(q)' = Entries(q)
    BY <2>1, SameFilter
  <2>9. ASSUME NEW i \in DOMAIN stack', NEW p \in Seq(Name), Paths(assets)[stack'[i].asset] = p
        PROVE  /\ stack'[i].entries \subseteq Entries(p)
               /\ stack'[i].at = "entry" => stack'[i].entry \in Entries(p)
    <3>1. CASE i = n + 1
      BY <2>5, <2>7, <3>1
    <3>2. CASE i = n
      <4>1. stack'[i] = f /\ Paths(assets)[Top.asset] = p
        BY <2>4, <2>7, <2>9, <3>2
      <4> QED
        BY <2>1, <2>4, <4>1 DEF ReadsOwn
    <3>3. CASE i # n /\ i # n + 1
      <4>1. i \in DOMAIN stack /\ stack'[i] = stack[i]
        BY <2>1, <2>7, <3>3
      <4> QED
        BY <1>a, <2>9, <4>1 DEF ReadingOK
    <3> QED
      BY <3>1, <3>2, <3>3
  <2> QED
    BY <2>1, <2>8, <2>9 DEF ReadingOK, Name
<1>7. CASE Throw
  <2>1. DOMAIN stack' = {}
    BY <1>7 DEF Throw
  <2> QED
    BY <2>1 DEF ReadingOK
<1>8. CASE Done \/ (\E p \in RemotePaths : Check(p)) \/ AbortElsewhere \/ UNCHANGED vars
  <2>1. UNCHANGED <<assets, stack, source, patterns>>
    BY <1>8 DEF Done, Check, AbortElsewhere, vars, walkRest
  <2>2. \A q : Entries(q)' = Entries(q)
    BY <2>1, SameFilter
  <2> QED
    BY <1>a, <2>1, <2>2 DEF ReadingOK, Name
<1> QED
  BY <1>1, <1>2, <1>3, <1>4, <1>5, <1>6, <1>7, <1>8 DEF Next, Parser

(* What is in the tree, and in hand, stays right with every step.          *)
LEMMA FoundStep ==
    ASSUME NodesOK, StackOK, FoundInv, [Next]_vars
    PROVE  FoundInv'
<1>1. UNCHANGED <<source, patterns>>
  BY DEF Next, Parser, CallReturns, Open, Take, Skip, NewAsset, EntriesEnd, Descend,
     ChildsEnd, Throw, Done, Return, walkRest, Check, AbortElsewhere, vars
<1>2. LinkedOK' /\ FoundOK'
  <2>1. CASE NewAsset
    BY <2>1, NewAssetFound
  <2>2. CASE ~ NewAsset
    <3>1. assets' = assets
      BY <2>2 DEF Next, Parser, CallReturns, Open, Take, Skip, EntriesEnd, Descend,
         ChildsEnd, Throw, Done, Return, walkRest, Check, AbortElsewhere, vars
    <3>2. \A r : (Visible(r)' <=> Visible(r)) /\ KindOf(r)' = KindOf(r)
      BY <1>1, SameFilter
    <3> QED
      BY <3>1, <3>2 DEF FoundInv, LinkedOK, FoundOK, Name
  <2> QED
    BY <2>1, <2>2
<1>3. FilterOK'
  BY <1>1 DEF FoundInv, FilterOK
<1> QED
  BY <1>2, <1>3, ReadingStep DEF FoundInv

-----------------------------------------------------------------------------
(* The walk forgets no folder and no entry.                                *)

\* The call f is to look into folder a, or is to make the call that will.
AwaitedBy(f, t, a) ==
    \/ f.asset = a /\ f.at = "call"
    \/ \E k \in DOMAIN t[f.asset].childs : k >= f.next /\ t[f.asset].childs[k] = a

\* The call f has still to come to the entry e of folder a.
UnreadBy(f, a, e) ==
    /\ f.asset = a
    /\ \/ f.at \in {"entries", "entry"} /\ e \in f.entries
       \/ f.at = "entry" /\ e = f.entry

Awaited(a) == \E i \in DOMAIN stack : AwaitedBy(stack[i], assets, a)
Unread(a, e) == \E i \in DOMAIN stack : UnreadBy(stack[i], a, e)

\* The entry e of the folder a of path p is in the tree, or is not to be.
Settled(a, e, p) ==
    \/ Exclude(Append(p, e), patterns) \/ KindOf(Append(p, e)) = "other"
    \/ \E k \in DOMAIN assets[a].childs : assets[assets[a].childs[k]].name = e

Remembered(a) ==
    \/ Awaited(a)
    \/ \A p \in Seq(Name) : Paths(assets)[a] = p =>
           \A e \in Entries(p) : Settled(a, e, p) \/ Unread(a, e)

NoneMissed ==
    ~ aborted /\ parser # "threw" => \A a \in DOMAIN assets : assets[a].folder => Remembered(a)

\* The innermost call, when it is f, is to do what it was to do.
KeepsAwaited(f) ==
    \A a \in DOMAIN assets : assets[a].folder /\ AwaitedBy(Top, assets, a) =>
        \/ AwaitedBy(f, assets, a)
        \/ \A p \in Seq(Name) : Paths(assets)[a] = p => \A e \in Entries(p) : UnreadBy(f, a, e)

KeepsUnread(f) ==
    \A a \in DOMAIN assets : \A p \in Seq(Name) : Paths(assets)[a] = p =>
        \A e : UnreadBy(Top, a, e) => UnreadBy(f, a, e) \/ Settled(a, e, p)

LEMMA SettledStays ==
    ASSUME UNCHANGED <<assets, source, patterns>>
    PROVE  \A a, e, p : Settled(a, e, p)' <=> Settled(a, e, p)
<1>1. \A q : KindOf(q)' = KindOf(q)
  BY SameFilter
<1> QED
  BY <1>1 DEF Settled

LEMMA RememberedTop ==
    ASSUME StackOK, stack # << >>, UNCHANGED <<assets, source, patterns>>,
           NEW f \in Frame, Set(f), KeepsAwaited(f), KeepsUnread(f),
           NEW a \in DOMAIN assets, assets[a].folder, Remembered(a)
    PROVE  Remembered(a)'
<1>1. /\ DOMAIN stack' = DOMAIN stack /\ stack'[Len(stack)] = f /\ Len(stack) \in DOMAIN stack
      /\ Top = stack[Len(stack)]
      /\ \A i \in DOMAIN stack : i # Len(stack) => stack'[i] = stack[i]
  BY SetFacts, TopFacts DEF StackOK
<1>2. /\ \A q : Entries(q)' = Entries(q)
      /\ \A e, p : Settled(a, e, p)' <=> Settled(a, e, p)
  BY SameFilter, SettledStays
<1>3. CASE Awaited(a)
  <2>1. PICK i \in DOMAIN stack : AwaitedBy(stack[i], assets, a)
    BY <1>3 DEF Awaited
  <2>2. CASE i # Len(stack) \/ AwaitedBy(f, assets, a)
    <3>1. \E j \in DOMAIN stack' : AwaitedBy(stack'[j], assets, a)
      BY <1>1, <2>1, <2>2
    <3>2. Awaited(a)'
      BY <3>1 DEF Awaited
    <3> QED
      BY <3>2 DEF Remembered
  <2>3. CASE i = Len(stack) /\ ~ AwaitedBy(f, assets, a)
    <3>1. \A p \in Seq(Name) : Paths(assets)[a] = p => \A e \in Entries(p) : UnreadBy(f, a, e)
      BY <1>1, <2>1, <2>3 DEF KeepsAwaited
    <3>2. \A e : UnreadBy(f, a, e) => Unread(a, e)'
      BY <1>1 DEF Unread
    <3> QED
      BY <1>2, <3>1, <3>2 DEF Remembered, Name
  <2> QED
    BY <2>2, <2>3
<1>4. CASE ~ Awaited(a)
  <2>1. ASSUME NEW p \in Seq(Name), Paths(assets)[a] = p, NEW e \in Entries(p), ~ Settled(a, e, p)
        PROVE  Unread(a, e)'
    <3>1. PICK i \in DOMAIN stack : UnreadBy(stack[i], a, e)
      BY <1>4, <2>1 DEF Remembered, Unread
    <3>2. i = Len(stack) => UnreadBy(f, a, e)
      BY <1>1, <2>1, <3>1 DEF KeepsUnread
    <3>3. UnreadBy(stack'[i], a, e)
      BY <1>1, <3>1, <3>2
    <3> QED
      BY <1>1, <3>3 DEF Unread
  <2> QED
    BY <1>2, <2>1 DEF Remembered, Name
<1> QED
  BY <1>3, <1>4

\* Nothing is left for the innermost call to do.
Spent ==
    \A a \in DOMAIN assets : /\ assets[a].folder => ~ AwaitedBy(Top, assets, a)
                             /\ \A e : ~ UnreadBy(Top, a, e)

LEMMA RememberedPop ==
    ASSUME StackOK, stack # << >>, UNCHANGED <<assets, source, patterns>>,
           stack' = Front(stack), Spent,
           NEW a \in DOMAIN assets, assets[a].folder, Remembered(a)
    PROVE  Remembered(a)'
<1>1. /\ Len(stack) \in Nat \ {0} /\ DOMAIN stack = 1 .. Len(stack) /\ Top = stack[Len(stack)]
      /\ \A i \in DOMAIN stack : stack[i] \in Frame
  BY TopFacts, ElementOfSeq DEF StackOK
<1>2. /\ stack' \in Seq(Frame) /\ Len(stack') = Len(stack) - 1
      /\ \A i \in 1 .. Len(stack) - 1 : stack'[i] = stack[i]
  BY <1>1, SubSeqProperties DEF Front
<1>3. \A i \in DOMAIN stack : i # Len(stack) => i \in DOMAIN stack' /\ stack'[i] = stack[i]
  BY <1>1, <1>2, LenProperties
<1>4. /\ \A q : Entries(q)' = Entries(q)
      /\ \A e, p : Settled(a, e, p)' <=> Settled(a, e, p)
  BY SameFilter, SettledStays
<1>5. Awaited(a) => Awaited(a)'
  <2>1. ASSUME NEW i \in DOMAIN stack, AwaitedBy(stack[i], assets, a)
        PROVE  \E j \in DOMAIN stack' : AwaitedBy(stack'[j], assets, a)
    BY <1>1, <1>3, <2>1 DEF Spent
  <2> QED
    BY <2>1 DEF Awaited
<1>6. \A e : Unread(a, e) => Unread(a, e)'
  <2>1. ASSUME NEW e, NEW i \in DOMAIN stack, UnreadBy(stack[i], a, e)
        PROVE  \E j \in DOMAIN stack' : UnreadBy(stack'[j], a, e)
    BY <1>1, <1>3, <2>1 DEF Spent
  <2> QED
    BY <2>1 DEF Unread
<1> QED
  BY <1>4, <1>5, <1>6 DEF Remembered, Name

(* The new asset is one to look into, and settles the entry it is for.     *)
LEMMA RememberedGrow ==
    ASSUME NodesOK, StackOK, FoundInv, NewAsset,
           \A a \in DOMAIN assets : assets[a].folder => Remembered(a)
    PROVE  \A a \in DOMAIN assets' : assets'[a].folder => Remembered(a)'
<1> PICK n : n = Len(assets)
  OBVIOUS
<1> PICK m : m = n + 1
  OBVIOUS
<1> PICK t : t = Top.asset
  OBVIOUS
<1> PICK cs : cs = assets[t].childs
  OBVIOUS
<1> PICK z : z = Len(cs) + 1
  OBVIOUS
<1> PICK x : x = Top.entry
  OBVIOUS
<1> PICK L : L = Len(stack)
  OBVIOUS
<1> DEFINE f == [Top EXCEPT !.at = "entries"]
<1>1. /\ n \in Nat /\ DOMAIN assets = 1 .. n /\ t \in 1 .. n /\ DOMAIN assets' = 1 .. m
      /\ DOMAIN cs = 1 .. Len(cs) /\ Len(cs) \in Nat
      /\ \A a \in 1 .. n : assets'[a].name = assets[a].name /\ assets'[a].folder = assets[a].folder
      /\ \A a \in 1 .. n : a # t => assets'[a].childs = assets[a].childs
      /\ DOMAIN assets'[t].childs = 1 .. z
      /\ \A k \in 1 .. Len(cs) : assets'[t].childs[k] = cs[k]
      /\ assets'[t].childs[z] = m /\ assets'[m].name = x
  BY NewAssetGrows DEF Growth
<1>2. /\ stack # << >> /\ stack \in Seq(Frame) /\ Top \in Frame /\ Top = stack[L] /\ FrameOK(L)
      /\ Set(f) /\ UNCHANGED <<source, patterns>> /\ Top.at = "entry" /\ L \in DOMAIN stack
  BY TopFacts DEF NewAsset, At, walkRest, StackOK
<1>3. /\ f \in Frame /\ f.asset = t /\ f.at = "entries" /\ f.next = Top.next
      /\ f.entries = Top.entries
  BY <1>2 DEF Frame
<1> HIDE DEF f
<1>4. /\ DOMAIN stack' = DOMAIN stack /\ stack'[L] = f
      /\ \A i \in DOMAIN stack : i # L => stack'[i] = stack[i]
  BY <1>2, <1>3, SetFacts
<1>5. Top.next = 1 /\ z \in 1 .. z /\ z >= 1
  <2>1. Top.next = 1
    BY <1>2 DEF FrameOK
  <2>2. z \in 1 .. z /\ z >= 1
    <3> PICK l \in Nat : l = Len(cs)
      BY <1>1
    <3>1. z = l + 1
      OBVIOUS
    <3> QED
      BY <3>1
  <2> QED
    BY <2>1, <2>2
<1>6. ASSUME NEW b \in 1 .. n, NEW k \in DOMAIN assets[b].childs
      PROVE  /\ k \in DOMAIN assets'[b].childs /\ assets'[b].childs[k] = assets[b].childs[k]
             /\ assets[b].childs[k] \in 1 .. n
  <2>1. assets[b].childs[k] \in 1 .. n
    BY <1>1 DEF NodesOK
  <2>2. CASE b = t
    <3>1. k \in 1 .. Len(cs) /\ k \in 1 .. z
      BY <1>1, <2>2
    <3> QED
      BY <1>1, <2>1, <2>2, <3>1
  <2>3. CASE b # t
    BY <1>1, <2>1, <2>3
  <2> QED
    BY <2>2, <2>3
<1>7. ASSUME NEW a \in 1 .. n, Awaited(a)
      PROVE  Awaited(a)'
  <2>1. PICK i \in DOMAIN stack : AwaitedBy(stack[i], assets, a)
    BY <1>7 DEF Awaited
  <2>2. stack[i].asset \in 1 .. n
    BY <1>1 DEF StackOK, FrameOK
  <2>3. AwaitedBy(stack[i], assets', a)
    BY <1>6, <2>1, <2>2 DEF AwaitedBy
  <2>4. AwaitedBy(stack'[i], assets', a)
    <3>1. CASE i = L
      BY <1>2, <1>3, <1>4, <2>3, <3>1 DEF AwaitedBy
    <3>2. CASE i # L
      BY <1>4, <2>3, <3>2
    <3> QED
      BY <3>1, <3>2
  <2> QED
    BY <1>4, <2>4 DEF Awaited
<1>8. Awaited(m)'
  <2>1. AwaitedBy(f, assets', m)
    BY <1>1, <1>3, <1>5 DEF AwaitedBy
  <2> QED
    BY <1>2, <1>4, <2>1 DEF Awaited
<1>9. /\ \A q : Entries(q)' = Entries(q) /\ KindOf(q)' = KindOf(q)
      /\ \A a \in 1 .. n : Paths(assets')[a] = Paths(assets)[a]
  <2>1. GrownPaths
    BY NewAssetPaths DEF FoundInv, FilterOK
  <2> QED
    BY <1>2, <2>1, SameFilter DEF GrownPaths
<1>10. ASSUME NEW a \in 1 .. n, NEW e, NEW p, Settled(a, e, p)
       PROVE  Settled(a, e, p)'
  <2>1. ASSUME NEW k \in DOMAIN assets[a].childs, assets[assets[a].childs[k]].name = e
        PROVE  \E j \in DOMAIN assets'[a].childs : assets'[assets'[a].childs[j]].name = e
    BY <1>1, <1>6, <2>1
  <2> QED
    BY <1>2, <1>9, <1>10, <2>1 DEF Settled
<1>11. ASSUME NEW a \in 1 .. n, NEW e, NEW p, Unread(a, e)
       PROVE  Unread(a, e)' \/ Settled(a, e, p)'
  <2>1. PICK i \in DOMAIN stack : UnreadBy(stack[i], a, e)
    BY <1>11 DEF Unread
  <2>2. CASE i # L
    BY <1>4, <2>1, <2>2 DEF Unread
  <2>3. CASE i = L /\ e \in Top.entries
    <3>1. UnreadBy(f, a, e)
      BY <1>2, <1>3, <2>1, <2>3 DEF UnreadBy
    <3> QED
      BY <1>2, <1>4, <3>1 DEF Unread
  <2>4. CASE i = L /\ e \notin Top.entries
    <3>1. a = t /\ e = x
      BY <1>2, <2>1, <2>4 DEF UnreadBy
    <3>2. z \in DOMAIN assets'[a].childs /\ assets'[assets'[a].childs[z]].name = e
      BY <1>1, <1>5, <3>1
    <3> QED
      BY <3>2 DEF Settled
  <2> QED
    BY <2>2, <2>3, <2>4
<1>12. ASSUME NEW a \in 1 .. n, assets[a].folder
       PROVE  Remembered(a)'
  <2>1. Remembered(a)
    BY <1>1, <1>12
  <2> QED
    BY <1>7, <1>9, <1>10, <1>11, <2>1 DEF Remembered, Name
<1>13. \A a \in 1 .. m : a \in 1 .. n \/ a = m
  BY <1>1
<1> QED
  BY <1>1, <1>8, <1>12, <1>13 DEF Remembered

LEMMA RememberedDescend ==
    ASSUME NodesOK, StackOK, Descend, NEW a \in DOMAIN assets, Remembered(a)
    PROVE  Remembered(a)'
<1> DEFINE n == Len(stack)
           c == assets[Top.asset].childs[Top.next]
           f == [Top EXCEPT !.next = @ + 1]
           g == [asset |-> c, at |-> "call", entries |-> {}, entry |-> << >>, next |-> 1]
           old == [stack EXCEPT ![n] = f]
<1>1. /\ stack # << >> /\ Top \in Frame /\ Top.at = "childs" /\ Top = stack[n]
      /\ UNCHANGED <<assets, source, patterns>> /\ stack \in Seq(Frame)
      /\ n \in DOMAIN stack /\ n \in Nat /\ DOMAIN stack = 1 .. n
      /\ Top.asset \in DOMAIN assets /\ Top.next \in Nat
  <2>1. /\ stack # << >> /\ Top \in Frame /\ Top.at = "childs" /\ Top = stack[n]
        /\ UNCHANGED <<assets, source, patterns>> /\ stack \in Seq(Frame)
        /\ n \in DOMAIN stack /\ n \in Nat /\ DOMAIN stack = 1 .. n
    BY TopFacts DEF Descend, At, walkRest, StackOK
  <2>2. Top.asset \in DOMAIN assets /\ Top.next \in Nat
    BY <2>1 DEF StackOK, FrameOK, Frame
  <2> QED
    BY <2>1, <2>2
<1>2. stack' = Append(old, g)
  <2>1. old = [stack EXCEPT ![n].next = @ + 1]
    BY DEF Top
  <2> QED
    BY <2>1 DEF Descend
<1>3. /\ f \in Frame /\ f.asset = Top.asset /\ f.at = "childs" /\ f.next = Top.next + 1
  <2>1. Top.next + 1 \in Nat \ {0}
    BY <1>1
  <2> QED
    BY <1>1, <2>1 DEF Frame
<1>4. g.asset = c /\ g.at = "call"
  OBVIOUS
<1>5. /\ old \in Seq(Frame) /\ Len(old) = n /\ old[n] = f
      /\ \A i \in 1 .. n : i # n => old[i] = stack[i]
  <2> HIDE DEF f
  <2> QED
    BY <1>1, <1>3, ExceptSeq
<1> HIDE DEF f, g, old, n, c
<1>6. /\ DOMAIN stack' = 1 .. n + 1 /\ stack'[n + 1] = g /\ stack'[n] = f
      /\ \A i \in 1 .. n : i # n => stack'[i] = stack[i]
  BY <1>1, <1>2, <1>5, LenProperties
<1>7. n + 1 \in DOMAIN stack' /\ \A i \in 1 .. n : i \in DOMAIN stack'
  BY <1>1, <1>6
<1>8. ASSUME Awaited(a)
      PROVE  Awaited(a)'
  <2>1. PICK i \in DOMAIN stack : AwaitedBy(stack[i], assets, a)
    BY <1>8 DEF Awaited
  <2>2. CASE i # n
    <3>1. i \in DOMAIN stack' /\ AwaitedBy(stack'[i], assets, a)
      BY <1>1, <1>6, <1>7, <2>1, <2>2
    <3> QED
      BY <1>1, <3>1 DEF Awaited
  <2>3. CASE i = n
    <3>1. PICK k \in DOMAIN assets[Top.asset].childs :
              k >= Top.next /\ assets[Top.asset].childs[k] = a
      BY <1>1, <2>1, <2>3 DEF AwaitedBy
    <3>2. CASE k = Top.next
      <4>1. AwaitedBy(g, assets, a)
        BY <1>4, <3>1, <3>2 DEF AwaitedBy, c
      <4> QED
        BY <1>1, <1>6, <1>7, <4>1 DEF Awaited
    <3>3. CASE k # Top.next
      <4>1. k >= Top.next + 1
        <5>1. assets[Top.asset].childs \in Seq(Nat)
          <6>1. assets[Top.asset] \in Node
            BY <1>1, ElementOfSeq, LenProperties DEF NodesOK
          <6> QED
            BY <6>1 DEF Node
        <5>2. k \in Nat
          BY <5>1, LenProperties
        <5> PICK y \in Nat : y = Top.next
          BY <1>1
        <5> QED
          BY <3>1, <3>3, <5>2
      <4>2. AwaitedBy(f, assets, a)
        BY <1>3, <3>1, <4>1 DEF AwaitedBy
      <4> QED
        BY <1>1, <1>6, <1>7, <4>2 DEF Awaited
    <3> QED
      BY <3>2, <3>3
  <2> QED
    BY <2>2, <2>3
<1>9. ASSUME NEW e, Unread(a, e)
      PROVE  Unread(a, e)'
  <2>1. PICK i \in DOMAIN stack : UnreadBy(stack[i], a, e)
    BY <1>9 DEF Unread
  <2>2. i # n
    BY <1>1, <2>1 DEF UnreadBy
  <2>3. i \in DOMAIN stack' /\ UnreadBy(stack'[i], a, e)
    BY <1>1, <1>6, <1>7, <2>1, <2>2
  <2> QED
    BY <2>3 DEF Unread
<1>10. /\ \A q : Entries(q)' = Entries(q)
       /\ \A e, p : Settled(a, e, p)' <=> Settled(a, e, p)
  BY <1>1, SameFilter, SettledStays
<1> QED
  BY <1>1, <1>8, <1>9, <1>10 DEF Remembered, Name

(* No step forgets a folder or an entry, one case per action.              *)
LEMMA NoneMissedStep ==
    ASSUME NodesOK, StackOK, FoundInv, NoneMissed, [Next]_vars
    PROVE  NoneMissed'
<1> SUFFICES ASSUME ~ aborted', parser' # "threw"
             PROVE  \A a \in DOMAIN assets' : assets'[a].folder => Remembered(a)'
  BY DEF NoneMissed
<1>0. ASSUME NEW where, At(where)
      PROVE  /\ stack # << >> /\ Top \in Frame /\ Top.at = where /\ FrameOK(Len(stack))
             /\ Top = stack[Len(stack)] /\ Top.asset \in DOMAIN assets
             /\ parser = "walk"
  <2>1. /\ stack # << >> /\ Top \in Frame /\ Top.at = where /\ parser = "walk"
        /\ Top = stack[Len(stack)] /\ Len(stack) \in DOMAIN stack
    BY <1>0, TopFacts DEF At, StackOK
  <2>2. FrameOK(Len(stack))
    BY <2>1 DEF StackOK
  <2> QED
    BY <2>1, <2>2 DEF FrameOK
<1>a. ~ aborted /\ parser # "threw"
  <2>1. CASE Parser
    <3>1. aborted' = aborted
      BY <2>1 DEF Parser, CallReturns, Open, Take, Skip, NewAsset, EntriesEnd, Descend,
         ChildsEnd, Throw, Done, Return, walkRest
    <3>2. parser = "walk"
      BY <2>1 DEF Parser, CallReturns, Open, Take, Skip, NewAsset, EntriesEnd, Descend,
         ChildsEnd, Throw, Done, At
    <3> QED
      BY <3>1, <3>2
  <2>2. CASE (\E p \in RemotePaths : Check(p)) \/ UNCHANGED vars
    <3>1. aborted' = aborted /\ parser' = parser
      BY <2>2 DEF Check, vars
    <3> QED
      BY <3>1
  <2>3. CASE AbortElsewhere
    BY <2>3 DEF AbortElsewhere
  <2> QED
    BY <2>1, <2>2, <2>3 DEF Next
<1>b. \A a \in DOMAIN assets : assets[a].folder => Remembered(a)
  BY <1>a DEF NoneMissed
<1>1. CASE CallReturns
  <2>1. /\ stack # << >> /\ assets' = assets /\ stack' = Front(stack)
        /\ UNCHANGED <<source, patterns>> /\ ~ assets[Top.asset].folder
        /\ Top.at = "call"
    BY <1>0, <1>1, <1>a DEF CallReturns, Return, walkRest
  <2>2. assets[Top.asset].childs = << >>
    BY <1>0, <1>1 DEF CallReturns, FrameOK
  <2>3. Spent
    BY <2>1, <2>2 DEF Spent, AwaitedBy, UnreadBy
  <2> QED
    BY <1>b, <2>1, <2>3, RememberedPop
<1>2. CASE ChildsEnd
  <2> PICK cs : cs = assets[Top.asset].childs
    OBVIOUS
  <2>1. /\ stack # << >> /\ assets' = assets /\ stack' = Front(stack)
        /\ UNCHANGED <<source, patterns>> /\ Top.at = "childs" /\ Top.next > Len(cs)
        /\ Top.asset \in DOMAIN assets /\ Top \in Frame
    BY <1>0, <1>2 DEF ChildsEnd, ChildCount, Return, walkRest
  <2>2. cs \in Seq(Nat)
    <3>1. assets[Top.asset] \in Node
      BY <2>1, ElementOfSeq, LenProperties DEF NodesOK
    <3> QED
      BY <3>1 DEF Node
  <2>3. \A k \in DOMAIN cs : ~ (k >= Top.next)
    <3> PICK y \in Nat : y = Top.next
      BY <2>1 DEF Frame
    <3> PICK l \in Nat : l = Len(cs)
      BY <2>2, LenProperties
    <3>1. DOMAIN cs = 1 .. l /\ y > l
      BY <2>1, <2>2, LenProperties
    <3> QED
      BY <3>1
  <2>4. Spent
    BY <2>1, <2>3 DEF Spent, AwaitedBy, UnreadBy
  <2> QED
    BY <1>b, <2>1, <2>4, RememberedPop
<1>3. CASE Open
  <2> DEFINE f == [Top EXCEPT !.at = "entries", !.entries = Entries(RelativePath(Top.asset))]
  <2>1. /\ stack # << >> /\ Top \in Frame /\ Top.asset \in DOMAIN assets /\ Top.at = "call"
        /\ assets' = assets /\ UNCHANGED <<source, patterns>> /\ Set(f)
    BY <1>0, <1>3 DEF Open, walkRest
  <2> PICK all : all = Entries(RelativePath(Top.asset))
    OBVIOUS
  <2>2. all \in SUBSET EntryName
    BY DEF Entries, EntryName
  <2>3. /\ f \in Frame /\ f.asset = Top.asset /\ f.at = "entries" /\ f.entries = all
        /\ f.next = Top.next
    BY <2>1, <2>2 DEF Frame
  <2> HIDE DEF f
  <2>4. KeepsAwaited(f)
    <3> SUFFICES ASSUME NEW a \in DOMAIN assets, AwaitedBy(Top, assets, a),
                        ~ AwaitedBy(f, assets, a), NEW p \in Seq(Name), Paths(assets)[a] = p
                 PROVE  \A e \in Entries(p) : UnreadBy(f, a, e)
      BY DEF KeepsAwaited
    <3>1. a = Top.asset
      BY <2>3 DEF AwaitedBy
    <3>2. all = Entries(p)
      BY <3>1, RelativePathIs
    <3> QED
      BY <2>3, <3>1, <3>2 DEF UnreadBy
  <2>5. KeepsUnread(f)
    BY <2>1 DEF KeepsUnread, UnreadBy
  <2> QED
    BY <1>b, <2>1, <2>3, <2>4, <2>5, RememberedTop
<1>4. CASE Take
  <2> PICK x \in Top.entries :
          Set([Top EXCEPT !.at = "entry", !.entry = x, !.entries = @ \ {x}])
    BY <1>4 DEF Take
  <2> DEFINE f == [Top EXCEPT !.at = "entry", !.entry = x, !.entries = @ \ {x}]
  <2>1. /\ stack # << >> /\ Top \in Frame /\ Top.asset \in DOMAIN assets /\ Top.at = "entries"
        /\ assets' = assets /\ UNCHANGED <<source, patterns>> /\ Set(f)
    BY <1>0, <1>4 DEF Take, walkRest
  <2>2. x \in EntryName
    BY <2>1 DEF Frame
  <2>3. /\ f \in Frame /\ f.asset = Top.asset /\ f.entry = x /\ f.entries = Top.entries \ {x}
        /\ f.next = Top.next /\ f.at = "entry"
    BY <2>1, <2>2 DEF Frame
  <2> HIDE DEF f
  <2>4. KeepsAwaited(f)
    BY <2>1, <2>3 DEF KeepsAwaited, AwaitedBy
  <2>5. KeepsUnread(f)
    BY <2>1, <2>3 DEF KeepsUnread, UnreadBy
  <2> QED
    BY <1>b, <2>1, <2>3, <2>4, <2>5, RememberedTop
<1>5. CASE Skip
  <2> DEFINE f == [Top EXCEPT !.at = "entries"]
  <2>1. /\ stack # << >> /\ Top \in Frame /\ Top.asset \in DOMAIN assets /\ Top.at = "entry"
        /\ assets' = assets /\ UNCHANGED <<source, patterns>> /\ Set(f)
    BY <1>0, <1>5 DEF Skip, walkRest
  <2>2. /\ f \in Frame /\ f.asset = Top.asset /\ f.at = "entries" /\ f.entries = Top.entries
        /\ f.next = Top.next
    BY <2>1 DEF Frame
  <2> HIDE DEF f
  <2>3. KeepsAwaited(f)
    BY <2>1, <2>2 DEF KeepsAwaited, AwaitedBy
  <2>4. KeepsUnread(f)
    <3> SUFFICES ASSUME NEW a \in DOMAIN assets, NEW p \in Seq(Name), Paths(assets)[a] = p,
                        NEW e, UnreadBy(Top, a, e), ~ UnreadBy(f, a, e)
                 PROVE  Settled(a, e, p)
      BY DEF KeepsUnread
    <3>1. a = Top.asset /\ e = Top.entry
      BY <2>2 DEF UnreadBy
    <3>2. Path = Append(p, e)
      BY <3>1, RelativePathIs DEF Path
    <3> QED
      BY <1>5, <3>2 DEF Skip, Settled
  <2> QED
    BY <1>b, <2>1, <2>2, <2>3, <2>4, RememberedTop
<1>6. CASE EntriesEnd
  <2> DEFINE f == [Top EXCEPT !.at = "childs", !.entries = {}]
  <2>1. /\ stack # << >> /\ Top \in Frame /\ Top.asset \in DOMAIN assets /\ Top.at = "entries"
        /\ assets' = assets /\ UNCHANGED <<source, patterns>> /\ Set(f) /\ Top.entries = {}
    BY <1>0, <1>6, <1>a DEF EntriesEnd, GoesOn, walkRest
  <2>2. f \in Frame /\ f.asset = Top.asset /\ f.at = "childs" /\ f.next = Top.next
    BY <2>1 DEF Frame
  <2> HIDE DEF f
  <2>3. KeepsAwaited(f)
    BY <2>1, <2>2 DEF KeepsAwaited, AwaitedBy
  <2>4. KeepsUnread(f)
    BY <2>1 DEF KeepsUnread, UnreadBy
  <2> QED
    BY <1>b, <2>1, <2>2, <2>3, <2>4, RememberedTop
<1>7. CASE NewAsset
  BY <1>7, <1>b, RememberedGrow
<1>8. CASE Descend
  <2>1. assets' = assets
    BY <1>8 DEF Descend
  <2> QED
    BY <1>8, <1>b, <2>1, RememberedDescend
<1>9. CASE Throw
  BY <1>9 DEF Throw
<1>10. CASE Done \/ (\E p \in RemotePaths : Check(p)) \/ AbortElsewhere \/ UNCHANGED vars
  <2>1. UNCHANGED <<assets, stack, source, patterns>>
    BY <1>10 DEF Done, Check, AbortElsewhere, vars, walkRest
  <2>2. /\ \A q : Entries(q)' = Entries(q)
        /\ \A a, e, p : Settled(a, e, p)' <=> Settled(a, e, p)
    BY <2>1, SameFilter, SettledStays
  <2>3. /\ \A a : Awaited(a)' <=> Awaited(a)
        /\ \A a, e : Unread(a, e)' <=> Unread(a, e)
    BY <2>1 DEF Awaited, Unread
  <2> QED
    BY <1>b, <2>1, <2>2, <2>3 DEF Remembered, Name
<1> QED
  BY <1>1, <1>2, <1>3, <1>4, <1>5, <1>6, <1>7, <1>8, <1>9, <1>10 DEF Next, Parser

-----------------------------------------------------------------------------
(* The end of the walk: everything has been found.                         *)

\* The calls have returned, and nothing is deleted before.
EndOK ==
    /\ parser = "done" => stack = << >>
    /\ parser = "walk" => deleted = {} /\ toCheck = RemotePaths

Found(q) == \E a \in DOMAIN assets : Paths(assets)[a] = q

LEMMA EndStep ==
    ASSUME EndOK, [Next]_vars
    PROVE  EndOK'
<1>1. CASE Parser
  <2>1. parser = "walk" /\ UNCHANGED <<toCheck, deleted>>
    BY <1>1 DEF Parser, CallReturns, Open, Take, Skip, NewAsset, EntriesEnd, Descend,
       ChildsEnd, Throw, Done, Return, walkRest, At
  <2>2. parser' = parser \/ parser' = "threw" \/ (parser' = "done" /\ stack' = << >>)
    BY <1>1 DEF Parser, CallReturns, Open, Take, Skip, NewAsset, EntriesEnd, Descend,
       ChildsEnd, Throw, Done, Return
  <2> QED
    BY <2>1, <2>2 DEF EndOK
<1>2. CASE \E p \in RemotePaths : Check(p)
  BY <1>2 DEF EndOK, Check
<1>3. CASE AbortElsewhere \/ UNCHANGED vars
  BY <1>3 DEF EndOK, AbortElsewhere, vars
<1> QED
  BY <1>1, <1>2, <1>3 DEF Next

(* A child's path is its folder's, and its name.                           *)
LEMMA ChildPath ==
    ASSUME NodesOK, source \in Sources, NEW a \in DOMAIN assets,
           NEW k \in DOMAIN assets[a].childs
    PROVE  LET c == assets[a].childs[k]
           IN  c \in DOMAIN assets /\ Paths(assets)[c] = Append(Paths(assets)[a], assets[c].name)
<1> PICK c : c = assets[a].childs[k]
  OBVIOUS
<1>1. c \in DOMAIN assets /\ assets[c].parent = a
  BY DEF NodesOK
<1>2. a # 0
  BY AssetsTree
<1> QED
  BY <1>1, <1>2, AssetPaths

LEMMA RootFound ==
    ASSUME NodesOK, source \in Sources, LinkedOK
    PROVE  1 \in DOMAIN assets /\ Paths(assets)[1] = << >>
<1>1. 1 \in DOMAIN assets
  BY EmptySeq, LenProperties DEF NodesOK
<1>2. assets[1].parent = 0
  BY <1>1 DEF LinkedOK
<1> QED
  BY <1>1, <1>2, AssetPaths

(* What one can walk to is in the tree when the walk has ended by itself:  *)
(* its folder is, and has been looked into, by induction on the path.      *)
LEMMA AllFound ==
    ASSUME NodesOK, FoundInv, NoneMissed, EndOK, parser = "done", ~ aborted
    PROVE  \A p \in Seq(Name) : Visible(p) => Found(p)
<1> DEFINE T == {p \in Seq(Name) : Visible(p) => Found(p)}
<1>0. source \in Sources /\ patterns \subseteq Text /\ LinkedOK /\ FoundOK
  BY DEF FoundInv, FilterOK
<1>1. << >> \in T
  <2>1. << >> \in Seq(Name)
    BY EmptySeq
  <2> QED
    BY <1>0, <2>1, RootFound DEF Found
<1>2. ASSUME NEW q \in T, NEW e \in Name
      PROVE  Append(q, e) \in T
  <2>0. q \in Seq(Name) /\ (Visible(q) => Found(q))
    OBVIOUS
  <2> HIDE DEF T
  <2> SUFFICES ASSUME Visible(Append(q, e))
               PROVE  Found(Append(q, e))
    BY <2>0, AppendFacts DEF T
  <2>1. Visible(q) /\ Shown(Append(q, e))
    BY <2>0, VisibleAppend
  <2>2. e \in Entries(q) /\ KindOf(Append(q, e)) # "other" /\ ~ Hidden(Append(q, e))
    BY <2>0, <2>1, AppendFacts DEF Shown
  <2>3. PICK a \in DOMAIN assets : Paths(assets)[a] = q
    BY <2>0, <2>1 DEF Found
  <2>4. assets[a].folder
    <3> SUFFICES ASSUME a # 1, KindOf(q) = "file" PROVE FALSE
      BY <1>0, <2>0, <2>3 DEF FoundOK
    <3>1. assets[a].parent # 0
      BY <1>0 DEF LinkedOK
    <3> PICK b \in DOMAIN assets : b = assets[a].parent
      BY <1>0, <3>1, AssetPaths
    <3>2. /\ q = Append(Paths(assets)[b], assets[a].name) /\ assets[a].name \in Name
          /\ Paths(assets)[b] \in Seq(Name)
      BY <1>0, <2>3, <3>1, AssetPaths
    <3>3. Entries(q) = {}
      BY <1>0, <3>2, FilesAreLeaves
    <3> QED
      BY <2>2, <3>3
  <2>5. Remembered(a)
    BY <2>4 DEF NoneMissed
  <2>6. Settled(a, e, q)
    <3>1. ~ Awaited(a) /\ ~ Unread(a, e)
      BY DEF EndOK, Awaited, Unread
    <3> QED
      BY <2>0, <2>2, <2>3, <2>5, <3>1 DEF Remembered
  <2>7. ~ Exclude(Append(q, e), patterns)
    BY <1>0, <2>0, <2>1, <2>2, ExcludeExact
  <2>8. PICK k \in DOMAIN assets[a].childs : assets[assets[a].childs[k]].name = e
    BY <2>2, <2>6, <2>7 DEF Settled
  <2>9. /\ assets[a].childs[k] \in DOMAIN assets
        /\ Paths(assets)[assets[a].childs[k]] = Append(q, e)
    BY <1>0, <2>3, <2>8, ChildPath
  <2> QED
    BY <2>9 DEF Found
<1>3. T = Seq(Name)
  <2>1. T \subseteq Seq(Name)
    OBVIOUS
  <2> HIDE DEF T
  <2> QED
    BY <1>1, <1>2, <2>1, SeqSet
<1> QED
  BY <1>3

LEMMA FoundExactly ==
    ASSUME NodesOK, FoundInv, NoneMissed, EndOK, parser = "done", ~ aborted,
           NEW p \in Seq(Name)
    PROVE  Visible(p) <=> Found(p)
<1>1. Found(p) => Visible(p)
  BY DEF Found, FoundInv, FoundOK
<1> QED
  BY <1>1, AllFound

LEMMA ExactAtEnd ==
    ASSUME NodesOK, FoundInv, NoneMissed, EndOK
    PROVE  WalkExact
<1> SUFFICES ASSUME parser = "done", ~ aborted PROVE WalkExact
  BY DEF WalkExact
<1>0. source \in Sources /\ FoundOK
  BY DEF FoundInv, FilterOK
<1>1. \A a \in DOMAIN assets : Paths(assets)[a] \in Seq(Name)
  BY <1>0, AssetPaths
<1>2. ASSUME NEW p \in Places, Visible(p)
      PROVE  \E a \in DOMAIN assets : Paths(assets)[a] = p
  <2> DEFINE S == {Last(q) : q \in DOMAIN source}
  <2>1. PICK n \in 1 .. Depth : p \in [1 .. n -> S]
    BY DEF Places
  <2>2. S \subseteq Name
    BY <1>0, SourceFacts
  <2>3. Depth \in Nat
    BY SourceAssumption
  <2> HIDE DEF S
  <2>4. p \in Seq(Name)
    <3>1. n \in Nat /\ p \in [1 .. n -> Name]
      BY <2>1, <2>2, <2>3
    <3> QED
      BY <3>1
  <2> QED
    BY <1>2, <2>4, FoundExactly DEF Found
<1>3. \A a \in DOMAIN assets : Visible(Paths(assets)[a])
  BY <1>0, <1>1 DEF FoundOK
<1>4. \A a, b \in DOMAIN assets : Paths(assets)[a] = Paths(assets)[b] => a = b
  BY <1>0 DEF FoundOK
<1>5. ASSUME NEW a \in 2 .. Len(assets)
      PROVE  assets[a].folder <=> KindOf(Paths(assets)[a]) # "file"
  <2>1. a \in DOMAIN assets /\ a # 1
    BY <1>0, AssetsTree
  <2> QED
    BY <1>0, <1>1, <2>1 DEF FoundOK
<1>6. \A a : RelativePath(a) = Paths(assets)[a]
  BY RelativePathIs
<1> HIDE DEF Places
<1> QED
  BY <1>2, <1>3, <1>4, <1>5, <1>6 DEF WalkExact

-----------------------------------------------------------------------------
(* The deleter: find() goes down the tree to the asset of a path, if any.  *)

LEMMA PartAppend ==
    ASSUME NEW S, NEW p \in Seq(S), NEW k \in Nat, k + 1 <= Len(p)
    PROVE  /\ SubSeq(p, 1, k) \in Seq(S) /\ p[k + 1] \in S
           /\ SubSeq(p, 1, k + 1) = Append(SubSeq(p, 1, k), p[k + 1])
<1> PICK n \in Nat : n = Len(p)
  BY LenProperties
<1> PICK m \in Nat : m = k + 1
  OBVIOUS
<1>1. 1 \in 1 .. n /\ m \in 1 .. n /\ m - 1 = k /\ k \in 0 .. n
  OBVIOUS
<1>2. \A i \in 1 .. n : p[i] \in S
  BY ElementOfSeq
<1>3. SubSeq(p, 1, k) \in Seq(S)
  <2>1. \A i \in 1 .. k : p[i] \in S
    BY <1>1, <1>2
  <2> QED
    BY <2>1, SubSeqProperties
<1>4. SubSeq(p, 1, m) = SubSeq(p, 1, k) \o << p[m] >>
  <2>1. SubSeq(p, 1, m) = SubSeq(p, 1, m - 1) \o << p[m] >>
    BY <1>1, SubSeqRecursiveSecond
  <2> QED
    BY <1>1, <2>1
<1>5. p[m] \in S
  BY <1>1, <1>2
<1>6. Append(SubSeq(p, 1, k), p[m]) = SubSeq(p, 1, k) \o << p[m] >>
  BY <1>3, <1>5, AppendIsConcat
<1> QED
  BY <1>3, <1>4, <1>5, <1>6

\* The assets one level below those of the set W that are called so.
Below(W, name) == UNION {ChildByName(a, name) : a \in W}

LEMMA FindTable ==
    ASSUME NodesOK, NEW p \in Seq(Name)
    PROVE  \E f \in [0 .. Len(p) -> SUBSET (DOMAIN assets)] :
               /\ Find(p) <=> f[Len(p)] # {}
               /\ f[0] = {1}
               /\ \A k \in 1 .. Len(p) : f[k] = Below(f[k - 1], p[k])
<1> PICK n \in Nat : n = Len(p)
  BY LenProperties
<1> PICK V : V = SUBSET (DOMAIN assets)
  OBVIOUS
<1> DEFINE D == 0 .. n
           rank == [d \in D |-> d]
           F == [d \in D |-> [g \in [D -> V] |->
                    IF d = 0 THEN {1} ELSE Below(g[d - 1], p[d])]]
           def(g) == [k \in 0 .. Len(p) |-> IF k = 0 THEN {1} ELSE Below(g[k - 1], p[k])]
           down == CHOOSE g : g = def(g)
<1>1. {1} \in V
  BY EmptySeq, LenProperties DEF NodesOK
<1>2. \A W \in V : \A x : Below(W, x) \in V
  <2> SUFFICES ASSUME NEW W \in V, NEW x, NEW a \in W, NEW c \in ChildByName(a, x)
               PROVE  c \in DOMAIN assets
    BY DEF Below
  <2>1. PICK k \in DOMAIN assets[a].childs : assets[a].childs[k] = c
    BY DEF ChildByName, ToSet
  <2> QED
    BY <2>1 DEF NodesOK
<1>3. F \in Rules(D, V)
  <2> SUFFICES ASSUME NEW d \in D, NEW g \in [D -> V]
               PROVE  (IF d = 0 THEN {1} ELSE Below(g[d - 1], p[d])) \in V
    <3> HIDE DEF D
    <3> QED
      BY DEF Rules
  <2>1. d # 0 => d - 1 \in D
    OBVIOUS
  <2> HIDE DEF D
  <2>2. d # 0 => g[d - 1] \in V
    BY <2>1
  <2> QED
    BY <1>1, <1>2, <2>2
<1>4. Recursive(F, rank, D, V)
  <2> SUFFICES ASSUME NEW d \in D, NEW g \in [D -> V], NEW h \in [D -> V],
                      \A e \in D : rank[e] < rank[d] => g[e] = h[e]
               PROVE  F[d][g] = F[d][h]
    BY DEF Recursive, Agree
  <2>1. d # 0 => d - 1 \in D /\ d - 1 < d
    OBVIOUS
  <2>2. d # 0 => g[d - 1] = h[d - 1]
    BY <2>1
  <2> HIDE DEF D
  <2> QED
    BY <2>2
<1>5. Solvable(F, D, V)
  <2> PICK N \in Nat : N = n + 1
    OBVIOUS
  <2>1. rank \in [D -> Nat] /\ \A d \in D : rank[d] < N
    OBVIOUS
  <2>2. V # {}
    BY <1>1
  <2> HIDE DEF D, rank, F
  <2> QED
    BY <1>3, <1>4, <2>1, <2>2, Recursion
<1>6. PICK g \in [D -> V] : \A d \in D : g[d] = F[d][g]
  BY <1>5 DEF Solvable
<1>7. g = def(g)
  <2>1. \A d \in D : g[d] = IF d = 0 THEN {1} ELSE Below(g[d - 1], p[d])
    <3> HIDE DEF D
    <3> QED
      BY <1>6
  <2> QED
    BY <2>1
<1>8. down = def(down)
  <2> HIDE DEF def
  <2> QED
    BY <1>7
<1>9. Find(p) <=> down[n] # {}
  BY DEF Find, Below
<1>10. /\ DOMAIN down = D
       /\ \A k \in D : down[k] = IF k = 0 THEN {1} ELSE Below(down[k - 1], p[k])
  <2> HIDE DEF down
  <2> QED
    BY <1>8
<1>11. down = [k \in D |-> down[k]]
  <2>1. down = [k \in D |-> IF k = 0 THEN {1} ELSE Below(down[k - 1], p[k])]
    BY <1>8
  <2> QED
    BY <2>1
<1> HIDE DEF down
<1>12. \A k \in D : down[k] \in V
  <2> DEFINE T == {k \in Nat : k \in D => down[k] \in V}
  <2>1. 0 \in T
    BY <1>1, <1>10
  <2>2. ASSUME NEW k \in T
        PROVE  k + 1 \in T
    <3> PICK m \in Nat : m = k + 1
      OBVIOUS
    <3>1. CASE m \in D
      <4>1. k \in D /\ m # 0 /\ m - 1 = k
        BY <3>1
      <4>2. down[k] \in V /\ down[m] = Below(down[k], p[m])
        BY <1>10, <3>1, <4>1
      <4>3. down[m] \in V
        BY <1>2, <4>2
      <4> QED
        BY <4>3
    <3> QED
      BY <3>1
  <2>3. T = Nat
    <3>1. T \subseteq Nat
      OBVIOUS
    <3> HIDE DEF T
    <3> QED
      BY <2>1, <2>2, <3>1, NatSet
  <2> QED
    BY <2>3
<1>13. down \in [D -> V]
  <2> HIDE DEF D
  <2> QED
    BY <1>11, <1>12
<1>14. down[0] = {1} /\ \A k \in 1 .. n : down[k] = Below(down[k - 1], p[k])
  BY <1>10
<1> QED
  BY <1>9, <1>13, <1>14

(* An asset is called e in a folder when its path is the folder's and e.   *)
LEMMA BelowPath ==
    ASSUME NodesOK, LinkedOK, source \in Sources,
           NEW q \in Seq(Name), NEW e \in Name, NEW W,
           \A a \in DOMAIN assets : a \in W <=> Paths(assets)[a] = q,
           W \subseteq DOMAIN assets
    PROVE  \A a \in DOMAIN assets : a \in Below(W, e) <=> Paths(assets)[a] = Append(q, e)
<1>1. ASSUME NEW a \in DOMAIN assets, a \in Below(W, e)
      PROVE  Paths(assets)[a] = Append(q, e)
  <2>1. PICK b \in W : a \in ChildByName(b, e)
    BY <1>1 DEF Below
  <2>2. PICK k \in DOMAIN assets[b].childs : assets[b].childs[k] = a
    BY <2>1 DEF ChildByName, ToSet
  <2>3. b \in DOMAIN assets /\ Paths(assets)[b] = q /\ assets[a].name = e
    BY <2>1 DEF ChildByName
  <2> QED
    BY <2>2, <2>3, ChildPath
<1>2. ASSUME NEW a \in DOMAIN assets, Paths(assets)[a] = Append(q, e)
      PROVE  a \in Below(W, e)
  <2>1. a # 1
    <3>1. Append(q, e) # << >>
      BY AppendProperties, EmptySeq
    <3> QED
      BY <1>2, <3>1, RootFound
  <2>2. /\ assets[a].parent # 0
        /\ \E k \in DOMAIN assets[assets[a].parent].childs :
               assets[assets[a].parent].childs[k] = a
    BY <2>1 DEF LinkedOK
  <2> PICK b : b = assets[a].parent
    OBVIOUS
  <2>3. /\ b \in DOMAIN assets /\ assets[a].name \in Name /\ Paths(assets)[b] \in Seq(Name)
        /\ Append(q, e) = Append(Paths(assets)[b], assets[a].name)
    BY <1>2, <2>2, AssetPaths
  <2>4. q = Paths(assets)[b] /\ e = assets[a].name
    <3>1. /\ Front(Append(q, e)) = q /\ Last(Append(q, e)) = e
      BY AppendFacts
    <3>2. /\ Front(Append(Paths(assets)[b], assets[a].name)) = Paths(assets)[b]
          /\ Last(Append(Paths(assets)[b], assets[a].name)) = assets[a].name
      BY <2>3, AppendFacts
    <3> QED
      BY <2>3, <3>1, <3>2
  <2>5. b \in W
    BY <2>3, <2>4
  <2>6. a \in ChildByName(b, e)
    BY <2>2, <2>4 DEF ChildByName, ToSet
  <2> QED
    BY <2>5, <2>6 DEF Below
<1> QED
  BY <1>1, <1>2

LEMMA FindExact ==
    ASSUME NodesOK, LinkedOK, FoundOK, source \in Sources, NEW p \in Seq(Name)
    PROVE  Find(p) <=> Found(p)
<1> PICK n \in Nat : n = Len(p)
  BY LenProperties
<1> PICK V : V = SUBSET (DOMAIN assets)
  OBVIOUS
<1>1. PICK f \in [0 .. n -> V] :
          /\ Find(p) <=> f[n] # {}
          /\ f[0] = {1}
          /\ \A k \in 1 .. n : f[k] = Below(f[k - 1], p[k])
  BY FindTable
<1> DEFINE Reached(W, q) == \A a \in DOMAIN assets : a \in W <=> Paths(assets)[a] = q
           T == {k \in Nat : k <= n => Reached(f[k], SubSeq(p, 1, k))}
<1>2. 0 \in T
  <2>1. SubSeq(p, 1, 0) = << >>
    BY SubSeqEmpty
  <2>2. Reached({1}, << >>)
    <3>1. 1 \in DOMAIN assets /\ Paths(assets)[1] = << >>
      BY RootFound
    <3> QED
      BY <3>1 DEF FoundOK
  <2> QED
    BY <1>1, <2>1, <2>2
<1>3. ASSUME NEW k \in T
      PROVE  k + 1 \in T
  <2> PICK m \in Nat : m = k + 1
    OBVIOUS
  <2> SUFFICES ASSUME m <= n PROVE Reached(f[m], SubSeq(p, 1, m))
    OBVIOUS
  <2>1. /\ k \in Nat /\ k <= n /\ k \in 0 .. n /\ m \in 1 .. n /\ m - 1 = k /\ k + 1 <= Len(p)
        /\ Reached(f[k], SubSeq(p, 1, k))
    OBVIOUS
  <2> HIDE DEF T
  <2>2. f[m] = Below(f[k], p[m]) /\ f[k] \subseteq DOMAIN assets
    BY <1>1, <2>1
  <2>3. /\ SubSeq(p, 1, k) \in Seq(Name) /\ p[m] \in Name
        /\ SubSeq(p, 1, m) = Append(SubSeq(p, 1, k), p[m])
    BY <2>1, PartAppend
  <2> QED
    BY <2>1, <2>2, <2>3, BelowPath, SMTT(30)
<1>4. T = Nat
  <2>1. T \subseteq Nat
    OBVIOUS
  <2> HIDE DEF T
  <2> QED
    BY <1>2, <1>3, <2>1, NatSet
<1>5. Reached(f[n], p)
  <2>1. SubSeq(p, 1, n) = p
    BY SubSeqFull
  <2>2. Reached(f[n], SubSeq(p, 1, n))
    BY <1>4
  <2> QED
    BY <2>1, <2>2
<1>6. f[n] \subseteq DOMAIN assets
  BY <1>1
<1> QED
  BY <1>1, <1>5, <1>6 DEF Found

(* Each path the deleter looks at is deleted if the tree has no such asset. *)
LEMMA DeletesStep ==
    ASSUME NodesOK, RestOK, FoundInv, NoneMissed, EndOK, DeletesExactly, [Next]_vars
    PROVE  DeletesExactly'
<1> SUFFICES ASSUME parser' = "done", ~ aborted' PROVE DeletesExactly'
  BY DEF DeletesExactly
<1>0. UNCHANGED <<source, patterns>>
  BY DEF Next, Parser, CallReturns, Open, Take, Skip, NewAsset, EntriesEnd, Descend,
     ChildsEnd, Throw, Done, Return, walkRest, Check, AbortElsewhere, vars
<1>1. \A p : Visible(p)' <=> Visible(p)
  BY <1>0, SameFilter
<1>2. CASE Parser
  <2>1. parser = "walk" /\ UNCHANGED <<toCheck, deleted>>
    BY <1>2 DEF Parser, CallReturns, Open, Take, Skip, NewAsset, EntriesEnd, Descend,
       ChildsEnd, Throw, Done, Return, walkRest, At
  <2>2. deleted' = {} /\ RemotePaths \ toCheck' = {}
    BY <2>1 DEF EndOK
  <2> QED
    BY <2>2 DEF DeletesExactly
<1>3. CASE \E p \in RemotePaths : Check(p)
  <2> PICK p \in RemotePaths : Check(p)
    BY <1>3
  <2>1. /\ parser = "done" /\ ~ aborted
        /\ p \in toCheck /\ toCheck' = toCheck \ {p}
        /\ deleted' = IF Find(p) THEN deleted ELSE deleted \cup {p}
    BY DEF Check
  <2>2. p \in Seq(Name)
    BY SourceAssumption
  <2>3. Find(p) <=> Visible(p)
    BY <2>1, <2>2, FindExact, FoundExactly DEF FoundInv, FilterOK
  <2>4. RemotePaths \ toCheck' = (RemotePaths \ toCheck) \cup {p}
    BY <2>1
  <2>5. deleted = {q \in RemotePaths \ toCheck : ~ Visible(q)}
    BY <2>1 DEF DeletesExactly
  <2>6. deleted' = {q \in RemotePaths \ toCheck' : ~ Visible(q)}
    BY <2>1, <2>3, <2>4, <2>5
  <2> QED
    BY <1>1, <2>6 DEF DeletesExactly
<1>4. CASE AbortElsewhere
  BY <1>4 DEF AbortElsewhere
<1>5. CASE UNCHANGED vars
  <2>1. UNCHANGED <<parser, toCheck, deleted>> /\ aborted' = aborted
    BY <1>5 DEF vars
  <2>2. ~ aborted
    BY <2>1
  <2>3. deleted' = {q \in RemotePaths \ toCheck' : ~ Visible(q)}
    BY <2>1, <2>2 DEF DeletesExactly
  <2> QED
    BY <1>1, <2>3 DEF DeletesExactly
<1> QED
  BY <1>2, <1>3, <1>4, <1>5 DEF Next

\* With TreeInv, the invariant behind what is found and what is deleted.
WalkInv == FoundInv /\ NoneMissed /\ EndOK /\ DeletesExactly

LEMMA WalkInit ==
    ASSUME Init, NodesOK
    PROVE  WalkInv
<1> DEFINE root == Asset(<< >>, 0, TRUE)
           call == [asset |-> 1, at |-> "call", entries |-> {}, entry |-> << >>, next |-> 1]
<1>1. /\ assets = << root >> /\ stack = << call >> /\ root.parent = 0 /\ root.folder = TRUE
      /\ call.asset = 1 /\ call.at = "call" /\ call.entries = {}
      /\ parser = "walk" /\ source \in Sources
  BY DEF Init, Asset
<1> HIDE DEF root, call
<1>2. /\ DOMAIN assets = {1} /\ DOMAIN stack = {1} /\ assets[1] = root /\ stack[1] = call
  BY <1>1
<1>3. FilterOK
  <2>1. PICK l \in Lines : patterns = LoadExcludes(l)
    BY DEF Init
  <2>2. l \subseteq Name
    BY SourceAssumption
  <2> QED
    BY <1>1, <2>1, <2>2, LoadExcludesType DEF FilterOK
<1>4. LinkedOK
  BY <1>1, <1>2 DEF LinkedOK
<1>5. Paths(assets)[1] = << >>
  BY <1>1, <1>4, RootFound
<1>6. FoundOK
  BY <1>1, <1>2, <1>5, VisibleRoot DEF FoundOK
<1>7. ReadingOK
  BY <1>1, <1>2 DEF ReadingOK
<1>8. NoneMissed
  <2>1. Awaited(1)
    BY <1>1, <1>2 DEF Awaited, AwaitedBy
  <2> QED
    BY <1>2, <2>1 DEF NoneMissed, Remembered
<1>9. EndOK /\ DeletesExactly
  BY <1>1 DEF Init, EndOK, DeletesExactly
<1> QED
  BY <1>3, <1>4, <1>6, <1>7, <1>8, <1>9 DEF WalkInv, FoundInv

LEMMA WalkInvariant == Spec => [](TreeInv /\ WalkInv)
<1>1. Init /\ TreeInv => WalkInv
  BY WalkInit DEF TreeInv
<1>2. TreeInv /\ WalkInv /\ [Next]_vars => WalkInv'
  <2> SUFFICES ASSUME TreeInv, WalkInv, [Next]_vars PROVE WalkInv'
    OBVIOUS
  <2>1. FoundInv'
    BY FoundStep DEF TreeInv, WalkInv
  <2>2. NoneMissed'
    BY NoneMissedStep DEF TreeInv, WalkInv
  <2>3. EndOK'
    BY EndStep DEF WalkInv
  <2>4. DeletesExactly'
    BY DeletesStep DEF TreeInv, WalkInv
  <2> QED
    BY <2>1, <2>2, <2>3, <2>4 DEF WalkInv
<1> QED
  BY <1>1, <1>2, TreeInvariant, PTL DEF Spec

(* A walk that ends by itself has found everything that can be walked to   *)
(* and is not hidden, each path once, and nothing else: for every folder,  *)
(* exclude file and order of the entries.                                  *)
THEOREM WalkIsExact == Spec => []WalkExact
<1>1. TreeInv /\ WalkInv => WalkExact
  BY ExactAtEnd DEF TreeInv, WalkInv
<1> QED
  BY <1>1, WalkInvariant, PTL

(* After such a walk the deleter deletes exactly the listed paths that the *)
(* walk did not find.                                                      *)
THEOREM DeletionsAreExact == Spec => []DeletesExactly
<1>1. WalkInv => DeletesExactly
  BY DEF WalkInv
<1> QED
  BY <1>1, WalkInvariant, PTL
===============================================================================
