----------------------------- MODULE TextProofs -----------------------------
(***************************************************************************)
(* A template survives its way from a file into a document and back, and    *)
(* what is exported reads back as it was: for every file, every document,   *)
(* every number of blocks and changes (TemplateText).                       *)
(*                                                                          *)
(* The conversions are folds.  FoldProofs says of any fold what it gives    *)
(* for one element more, and is instantiated once for each of them; what a  *)
(* conversion keeps is then shown for the empty sequence and for one        *)
(* element more.                                                            *)
(***************************************************************************)
EXTENDS TemplateText, FiniteSetTheorems, SequenceTheorems, TLAPS

-----------------------------------------------------------------------------
(* The conversions are folds; FoldProofs says what folds compute.           *)
Joining    == INSTANCE FoldProofs WITH Op <- JoinLists, Base <- << >>
Bodies     == INSTANCE FoldProofs WITH Op <- ReadBody, Base <- << >>
Normalizing == INSTANCE FoldProofs WITH Op <- NormalizedItem, Base <- << >>
Writing    == INSTANCE FoldProofs WITH Op <- WriteItem, Base <- NothingWritten
Children   == INSTANCE FoldProofs WITH Op <- ReadChild, Base <- << >>
Documents  == INSTANCE FoldProofs WITH Op <- ReadDocumentBlock, Base <- << >>

(* What each conversion gives for nothing, and for one element more.        *)
LEMMA JoinSteps ==
  /\ MarkdownBlocks(<< >>) = << >>
  /\ \A E : \A s \in Seq(E), x \in E :
       MarkdownBlocks(Append(s, x)) = JoinLists(MarkdownBlocks(s), x)
<1>1. \A s : MarkdownBlocks(s) = Joining!Folded(s)
  BY DEF MarkdownBlocks, Joining!Folded, FoldLeft, Joining!FoldLeft, MapThenFoldSet,
         Joining!MapThenFoldSet, Max, Joining!Max
<1> QED
  BY <1>1, Joining!FoldOfNone, Joining!FoldOfAppend

(* The steps of a body.                                                    *)
LEMMA BodySteps ==
  /\ StepsOf(<< >>) = << >>
  /\ \A E : \A s \in Seq(E), x \in E :
       StepsOf(Append(s, x)) = ReadBody(StepsOf(s), x)
<1>1. \A s : StepsOf(s) = Bodies!Folded(s)
  BY DEF StepsOf, Bodies!Folded, FoldLeft, Bodies!FoldLeft, MapThenFoldSet,
         Bodies!MapThenFoldSet, Max, Bodies!Max
<1> QED
  BY <1>1, Bodies!FoldOfNone, Bodies!FoldOfAppend

(* Normalised content.                                                     *)
LEMMA NormalSteps ==
  /\ NormalizedContent(<< >>) = << >>
  /\ \A E : \A s \in Seq(E), x \in E :
       NormalizedContent(Append(s, x)) = NormalizedItem(NormalizedContent(s), x)
<1>1. \A s : NormalizedContent(s) = Normalizing!Folded(s)
  BY DEF NormalizedContent, Normalizing!Folded, FoldLeft, Normalizing!FoldLeft,
         MapThenFoldSet, Normalizing!MapThenFoldSet, Max, Normalizing!Max
<1> QED
  BY <1>1, Normalizing!FoldOfNone, Normalizing!FoldOfAppend

(* The blocks of written content.                                          *)
LEMMA ContentSteps ==
  /\ WriteContent(<< >>) = NothingWritten
  /\ \A E : \A s \in Seq(E), x \in E :
       WriteContent(Append(s, x)) = WriteItem(WriteContent(s), x)
<1>1. \A s : WriteContent(s) = Writing!Folded(s)
  BY DEF WriteContent, Writing!Folded, FoldLeft, Writing!FoldLeft,
         MapThenFoldSet, Writing!MapThenFoldSet, Max, Writing!Max
<1> QED
  BY <1>1, Writing!FoldOfNone, Writing!FoldOfAppend

(* The content read of a document's step.                                  *)
LEMMA ChildSteps ==
  /\ ReadChildren(<< >>) = << >>
  /\ \A E : \A s \in Seq(E), x \in E :
       ReadChildren(Append(s, x)) = ReadChild(ReadChildren(s), x)
<1>1. \A s : ReadChildren(s) = Children!Folded(s)
  BY DEF ReadChildren, Children!Folded, FoldLeft, Children!FoldLeft,
         MapThenFoldSet, Children!MapThenFoldSet, Max, Children!Max
<1> QED
  BY <1>1, Children!FoldOfNone, Children!FoldOfAppend

(* The steps read of a document.                                           *)
LEMMA DocumentSteps ==
  /\ BlocksToTemplate(<< >>) = << >>
  /\ \A E : \A s \in Seq(E), x \in E :
       BlocksToTemplate(Append(s, x)) = ReadDocumentBlock(BlocksToTemplate(s), x)
<1>1. \A s : BlocksToTemplate(s) = Documents!Folded(s)
  BY DEF BlocksToTemplate, Documents!Folded, FoldLeft, Documents!FoldLeft,
         MapThenFoldSet, Documents!MapThenFoldSet, Max, Documents!Max
<1> QED
  BY <1>1, Documents!FoldOfNone, Documents!FoldOfAppend

-----------------------------------------------------------------------------
(* What the parts of a template are made of.                                *)
Item ==
  [k : {"checkbox"}, level : Nat] \cup [k : {"prose"}, text : Seq(MarkdownBlock)]
    \cup [k : {"inputs"}, defs : Seq(InputDefinition)]
    \cup [k : {"table"}, cells : Seq(TableCell)]
Step == [named : BOOLEAN, content : Seq(Item)]

(* What an item is, and what its kind says of it.                          *)
LEMMA ItemShape ==
  ASSUME NEW x \in Item
  PROVE  /\ x.k \in {"checkbox", "prose", "inputs", "table"}
         /\ x.k = "checkbox" => x.level \in Nat /\ x = Checkbox(x.level)
         /\ x.k = "prose" => x.text \in Seq(MarkdownBlock) /\ x = Prose(x.text)
         /\ x.k = "inputs" => x.defs \in Seq(InputDefinition) /\ x = InputBlock(x.defs)
         /\ x.k = "table" => x.cells \in Seq(TableCell) /\ x = Table(x.cells)
BY DEF Item, Checkbox, Prose, InputBlock, Table

(* The items that are made.                                                *)
LEMMA ItemMade ==
  /\ \A n \in Nat : Checkbox(n) \in Item
  /\ \A t \in Seq(MarkdownBlock) : Prose(t) \in Item
  /\ \A d \in Seq(InputDefinition) : InputBlock(d) \in Item
  /\ \A c \in Seq(TableCell) : Table(c) \in Item
BY DEF Item, Checkbox, Prose, InputBlock, Table

(* What a Markdown block is.                                               *)
LEMMA BlockShape ==
  ASSUME NEW b \in MarkdownBlock
  PROVE  /\ b.k \in {"para", "head", "list", "inputs", "table", "quote"}
         /\ b.k = "head" => b.named \in BOOLEAN /\ b = [k |-> "head", named |-> b.named]
         /\ b.k = "list" =>
              /\ b.marker \in Markers /\ b.items \in Seq([task : BOOLEAN, level : Nat])
              /\ b = [k |-> "list", marker |-> b.marker, items |-> b.items]
         /\ b.k = "inputs" => b.defs \in Seq(InputDefinition) /\ b = InputBlock(b.defs)
         /\ b.k \in {"table", "quote"} => b.cells \in Seq(TableCell)
         /\ b.k = "table" => b = Table(b.cells)
BY DEF MarkdownBlock, InputBlock, Table

(* What a child of a step is.                                              *)
LEMMA ChildShape ==
  ASSUME NEW b \in StepChild
  PROVE  /\ b.k \in {"checkListItem", "procnoteInput", "table", "stray", "text"}
         /\ b.k = "checkListItem" => b.depth \in Nat
         /\ b.k = "procnoteInput" => b.def \in InputDefinition
         /\ b.k = "table" => b.cells \in Seq(TableCell) /\ b = Table(b.cells)
         /\ b.k = "text" => b.text \in Seq(MarkdownBlock)
BY DEF StepChild, Table

-----------------------------------------------------------------------------
(* Reading Markdown.                                                        *)

SourceBlock == {b \in MarkdownBlock : b.k = "list" => NestedItems(b.items)}

(* Neighbouring lists have different markers.                               *)
Joined(blocks) ==
  \A i \in 1..(Len(blocks) - 1) :
    blocks[i].k = "list" /\ blocks[i + 1].k = "list" => blocks[i].marker # blocks[i + 1].marker

(* Two nested lists, one after the other, are a nested list.                *)
LEMMA NestedItemsJoin ==
  ASSUME NEW s \in Seq([task : BOOLEAN, level : Nat]),
         NEW t \in Seq([task : BOOLEAN, level : Nat]), NestedItems(s), NestedItems(t)
  PROVE  s \o t \in Seq([task : BOOLEAN, level : Nat]) /\ NestedItems(s \o t)
<1> DEFINE u == s \o t
<1>1. u \in Seq([task : BOOLEAN, level : Nat]) /\ Len(u) = Len(s) + Len(t)
      /\ \A i \in 1..(Len(s) + Len(t)) : u[i] = IF i <= Len(s) THEN s[i] ELSE t[i - Len(s)]
  BY ConcatProperties
<1>2. /\ Len(s) \in Nat \ {0} /\ Len(t) \in Nat \ {0}
      /\ \A i \in 1..Len(s) : s[i].level \in Nat
      /\ \A i \in 1..Len(t) : t[i].level \in Nat
  <2>1. \A i \in 1..Len(s) : s[i] \in [task : BOOLEAN, level : Nat]
    BY ElementOfSeq
  <2>2. \A i \in 1..Len(t) : t[i] \in [task : BOOLEAN, level : Nat]
    BY ElementOfSeq
  <2> QED
    BY <2>1, <2>2, EmptySeq DEF NestedItems
<1>3. u # << >> /\ u[1].level = 0
  BY <1>1, <1>2 DEF NestedItems
<1> HIDE DEF u
<1>4. ASSUME NEW i \in 2..Len(u)
      PROVE  u[i].level <= u[i - 1].level + 1
  <2>0. /\ i \in Nat /\ i >= 2 /\ i <= Len(s) + Len(t)
        /\ i \in 1..(Len(s) + Len(t)) /\ i - 1 \in 1..(Len(s) + Len(t))
    BY <1>1, <1>2
  <2>4. /\ u[i] = IF i <= Len(s) THEN s[i] ELSE t[i - Len(s)]
        /\ u[i - 1] = IF i - 1 <= Len(s) THEN s[i - 1] ELSE t[(i - 1) - Len(s)]
    BY <1>1, <2>0
  <2>1. CASE i <= Len(s)
    <3>1. i \in 2..Len(s) /\ u[i] = s[i] /\ u[i - 1] = s[i - 1]
      BY <1>2, <2>0, <2>1, <2>4
    <3> QED
      BY <3>1 DEF NestedItems
  <2>2. CASE i = Len(s) + 1
    <3>1. u[i] = t[1] /\ u[i - 1] = s[Len(s)]
      <4>1. i - Len(s) = 1 /\ i - 1 = Len(s)
        BY <1>2, <2>2
      <4> QED
        BY <1>2, <2>2, <2>4, <4>1
    <3>2. s[Len(s)].level \in Nat
      BY <1>2
    <3>3. t[1].level = 0
      BY DEF NestedItems
    <3> QED
      BY <3>1, <3>2, <3>3
  <2>3. CASE i > Len(s) + 1
    <3>1. i - Len(s) \in 2..Len(t)
      BY <1>2, <2>0, <2>3
    <3>2. u[i] = t[i - Len(s)] /\ u[i - 1] = t[(i - Len(s)) - 1]
      <4>1. (i - Len(s)) - 1 = (i - 1) - Len(s)
        BY <1>2, <2>0
      <4> QED
        BY <1>2, <2>0, <2>3, <2>4, <4>1
    <3> QED
      BY <3>1, <3>2 DEF NestedItems
  <2> QED
    BY <1>2, <2>0, <2>1, <2>2, <2>3
<1> QED
  BY <1>1, <1>3, <1>4 DEF NestedItems, u

(* Two lists that are one are a block of the kind the author may write.     *)
LEMMA JoinedList ==
  ASSUME NEW a \in SourceBlock, NEW b \in SourceBlock, a.k = "list", b.k = "list"
  PROVE  [a EXCEPT !.items = @ \o b.items] \in SourceBlock
<1>1. /\ a.marker \in Markers /\ a.items \in Seq([task : BOOLEAN, level : Nat])
      /\ a = [k |-> "list", marker |-> a.marker, items |-> a.items]
      /\ b.items \in Seq([task : BOOLEAN, level : Nat])
      /\ NestedItems(a.items) /\ NestedItems(b.items)
  BY BlockShape DEF SourceBlock
<1>2. a.items \o b.items \in Seq([task : BOOLEAN, level : Nat])
      /\ NestedItems(a.items \o b.items)
  BY <1>1, NestedItemsJoin
<1>3. [a EXCEPT !.items = @ \o b.items]
        = [k |-> "list", marker |-> a.marker, items |-> a.items \o b.items]
  <2>1. PICK m, x : a = [k |-> "list", marker |-> m, items |-> x]
    BY <1>1
  <2>2. a.marker = m /\ a.items = x /\ a.k = "list"
    BY <2>1
  <2>3. \A y : [a EXCEPT !.items = y] = [k |-> "list", marker |-> m, items |-> y]
    BY <2>1
  <2> QED
    BY <2>2, <2>3
<1> QED
  BY <1>1, <1>2, <1>3 DEF SourceBlock, MarkdownBlock

(* A step of joining keeps the kinds of blocks and that lists are apart.    *)
LEMMA JoinKeeps ==
  ASSUME NEW blocks \in Seq(SourceBlock), Joined(blocks), NEW b \in SourceBlock
  PROVE  JoinLists(blocks, b) \in Seq(SourceBlock) /\ Joined(JoinLists(blocks, b))
<1> DEFINE n == Len(blocks)
           joins == blocks # << >> /\ b.k = "list" /\ blocks[n].k = "list"
                      /\ blocks[n].marker = b.marker
<1>1. JoinLists(blocks, b) = IF joins THEN [blocks EXCEPT ![n].items = @ \o b.items]
                                      ELSE Append(blocks, b)
  BY DEF JoinLists, Last
<1>2. n \in Nat /\ (blocks # << >> => n \in 1..n)
  BY EmptySeq
<1>3. CASE joins
  <2> DEFINE l == [blocks[n] EXCEPT !.items = @ \o b.items]
  <2>1. blocks[n] \in SourceBlock /\ blocks[n].marker = blocks[n].marker
    BY <1>2, <1>3, ElementOfSeq
  <2>2. l \in SourceBlock
    BY <1>3, <2>1, JoinedList
  <2>3. l.k = "list" /\ l.marker = blocks[n].marker
    <3>1. blocks[n] = [k |-> "list", marker |-> blocks[n].marker, items |-> blocks[n].items]
      BY <1>3, <2>1, BlockShape DEF SourceBlock
    <3> QED
      BY <3>1
  <2>4. JoinLists(blocks, b) = [blocks EXCEPT ![n] = l]
    BY <1>1, <1>3
  <2> HIDE DEF l
  <2>5. /\ JoinLists(blocks, b) \in Seq(SourceBlock) /\ Len(JoinLists(blocks, b)) = n
        /\ \A i \in 1..n : JoinLists(blocks, b)[i] = IF i = n THEN l ELSE blocks[i]
    BY <1>2, <1>3, <2>2, <2>4, ExceptSeq
  <2>6. Joined(JoinLists(blocks, b))
    BY <1>2, <1>3, <2>3, <2>5 DEF Joined
  <2> QED
    BY <2>5, <2>6
<1>4. CASE ~ joins
  <2>0. JoinLists(blocks, b) = Append(blocks, b)
    BY <1>1, <1>4
  <2>1. /\ JoinLists(blocks, b) \in Seq(SourceBlock) /\ Len(JoinLists(blocks, b)) = n + 1
        /\ \A i \in 1..n : JoinLists(blocks, b)[i] = blocks[i]
        /\ JoinLists(blocks, b)[n + 1] = b
    BY <2>0, AppendProperties
  <2>2. n # 0 => blocks # << >>
    OBVIOUS
  <2> QED
    BY <1>2, <1>4, <2>1, <2>2 DEF Joined
<1> QED
  BY <1>3, <1>4

(* The blocks of a text: of the author's kinds, lists apart.                *)
LEMMA BlocksOfText ==
  ASSUME NEW text \in Seq(SourceBlock)
  PROVE  MarkdownBlocks(text) \in Seq(SourceBlock) /\ Joined(MarkdownBlocks(text))
<1> DEFINE Good == {t \in Seq(SourceBlock) : /\ MarkdownBlocks(t) \in Seq(SourceBlock)
                                             /\ Joined(MarkdownBlocks(t))}
<1>1. << >> \in Good
  <2>1. << >> \in Seq(SourceBlock) /\ Joined(<< >>)
    BY DEF Joined
  <2> QED
    BY <2>1, JoinSteps
<1>2. ASSUME NEW t \in Seq(SourceBlock), NEW b \in SourceBlock, t \in Good
      PROVE  Append(t, b) \in Good
  <2>1. MarkdownBlocks(Append(t, b)) = JoinLists(MarkdownBlocks(t), b)
    BY JoinSteps
  <2>2. Append(t, b) \in Seq(SourceBlock)
    OBVIOUS
  <2> QED
    BY <1>2, <2>1, <2>2, JoinKeeps
<1>3. \A t \in Seq(SourceBlock) : t \in Good
  <2> HIDE DEF Good
  <2> QED
    BY <1>1, <1>2, Joining!SequenceInduction
<1> QED
  BY <1>3

(* Blocks whose lists are apart are the blocks of their own text.           *)
LEMMA JoiningJoined ==
  ASSUME NEW text \in Seq(SourceBlock), Joined(text)
  PROVE  MarkdownBlocks(text) = text
<1> DEFINE Good == {t \in Seq(SourceBlock) : Joined(t) => MarkdownBlocks(t) = t}
<1>1. << >> \in Good
  BY JoinSteps
<1>2. ASSUME NEW t \in Seq(SourceBlock), NEW b \in SourceBlock, t \in Good
      PROVE  Append(t, b) \in Good
  <2> DEFINE n == Len(t)
  <2>1. /\ Append(t, b) \in Seq(SourceBlock) /\ Len(Append(t, b)) = n + 1 /\ n \in Nat
        /\ Append(t, b)[n + 1] = b /\ \A i \in 1..n : Append(t, b)[i] = t[i]
    BY AppendProperties, LenProperties
  <2> SUFFICES ASSUME Joined(Append(t, b))
               PROVE  MarkdownBlocks(Append(t, b)) = Append(t, b)
    BY <2>1
  <2>2. Joined(t)
    BY <2>1 DEF Joined
  <2>3. MarkdownBlocks(Append(t, b)) = JoinLists(t, b)
    BY <1>2, <2>2, JoinSteps
  <2>4. t # << >> /\ b.k = "list" /\ t[n].k = "list" => t[n].marker # b.marker
    <3>1. t # << >> => n \in 1..((n + 1) - 1)
      BY <2>1, EmptySeq
    <3> QED
      BY <2>1, <3>1 DEF Joined
  <2> QED
    BY <2>3, <2>4 DEF JoinLists, Last
<1>3. \A t \in Seq(SourceBlock) : t \in Good
  <2> HIDE DEF Good
  <2> QED
    BY <1>1, <1>2, Joining!SequenceInduction
<1> QED
  BY <1>3

-----------------------------------------------------------------------------
(* The content of a step.  No prose is empty or follows other prose.        *)
NormalContent(content) ==
  \A i \in 1..Len(content) : content[i].k = "prose" =>
    content[i].text # << >> /\ (i > 1 => content[i - 1].k # "prose")

(* A table is an item of its own exactly when it has something to fill in.  *)
TextApart(text) ==
  \A j \in 1..Len(text) : text[j].k = "table" => ~ Fillable(text[j].cells)

ItemApart(item) ==
  /\ item.k = "table" => Fillable(item.cells)
  /\ item.k = "prose" => TextApart(item.text)

TablesApart(content) == \A i \in 1..Len(content) : ItemApart(content[i])

(* Checkboxes nest one level at a time.                                     *)
NestedBoxes(content) ==
  \A i \in 1..Len(content) : content[i].k = "checkbox" =>
    \/ content[i].level = 0
    \/ /\ i > 1 /\ content[i - 1].k = "checkbox"
       /\ content[i].level <= content[i - 1].level + 1

(* An item more that is no prose after prose.                               *)
LEMMA NormalAppend ==
  ASSUME NEW c \in Seq(Item), NEW x \in Item, NormalContent(c),
         x.k = "prose" => x.text # << >> /\ (c # << >> => c[Len(c)].k # "prose")
  PROVE  Append(c, x) \in Seq(Item) /\ NormalContent(Append(c, x))
<1> DEFINE n == Len(c)
           d == Append(c, x)
<1>1. /\ n \in Nat /\ d \in Seq(Item) /\ Len(d) = n + 1 /\ d[n + 1] = x
      /\ \A i \in 1..n : d[i] = c[i]
  BY AppendProperties, LenProperties
<1>2. n > 0 => c # << >>
  OBVIOUS
<1> HIDE DEF d
<1>3. ASSUME NEW i \in 1..Len(d), d[i].k = "prose"
      PROVE  d[i].text # << >> /\ (i > 1 => d[i - 1].k # "prose")
  <2>1. CASE i <= n
    <3>1. i \in 1..n /\ (i > 1 => i - 1 \in 1..n)
      BY <1>1, <2>1
    <3>2. d[i] = c[i] /\ (i > 1 => d[i - 1] = c[i - 1])
      BY <1>1, <3>1
    <3> QED
      BY <1>3, <3>1, <3>2 DEF NormalContent
  <2>2. CASE i = n + 1
    <3>1. d[i] = x /\ (i > 1 => d[i - 1] = c[n] /\ c # << >>)
      BY <1>1, <1>2, <2>2
    <3> QED
      BY <1>3, <3>1
  <2> QED
    BY <1>1, <2>1, <2>2
<1> QED
  BY <1>1, <1>3 DEF NormalContent, d

(* What push_prose does.                                                    *)
LEMMA WithProseDoes ==
  ASSUME NEW c \in Seq(Item), NEW t \in Seq(MarkdownBlock)
  PROVE  /\ t = << >> => WithProse(c, t) = c
         /\ t # << >> /\ (c = << >> \/ c[Len(c)].k # "prose") =>
              WithProse(c, t) = Append(c, Prose(t))
         /\ t # << >> /\ c # << >> /\ c[Len(c)].k = "prose" =>
              WithProse(c, t) = [c EXCEPT ![Len(c)] = Prose(c[Len(c)].text \o t)]
<1> DEFINE n == Len(c)
<1>1. WithProse(c, t) = IF t = << >> THEN c
                        ELSE IF c # << >> /\ c[n].k = "prose"
                          THEN [c EXCEPT ![n].text = @ \o t]
                          ELSE Append(c, Prose(t))
  BY DEF WithProse, Last
<1>2. ASSUME t # << >>, c # << >>, c[n].k = "prose"
      PROVE  [c EXCEPT ![n].text = @ \o t] = [c EXCEPT ![n] = Prose(c[n].text \o t)]
  <2>1. n \in 1..n /\ c[n] \in Item
    BY <1>2, EmptySeq, ElementOfSeq
  <2>2. c[n] = [k |-> "prose", text |-> c[n].text]
    BY <1>2, <2>1, ItemShape DEF Prose
  <2>3. PICK x : c[n] = [k |-> "prose", text |-> x]
    BY <2>2
  <2>4. \A y : [c[n] EXCEPT !.text = y] = [k |-> "prose", text |-> y]
    BY <2>3
  <2> QED
    BY <2>4 DEF Prose
<1> QED
  BY <1>1, <1>2

(* More prose keeps content normal.                                         *)
LEMMA WithProseKeeps ==
  ASSUME NEW c \in Seq(Item), NEW t \in Seq(MarkdownBlock), NormalContent(c)
  PROVE  WithProse(c, t) \in Seq(Item) /\ NormalContent(WithProse(c, t))
<1> DEFINE n == Len(c)
<1>1. CASE t = << >>
  BY <1>1, WithProseDoes
<1>2. CASE t # << >> /\ (c = << >> \/ c[n].k # "prose")
  <2>1. Prose(t) \in Item /\ Prose(t).text = t
    BY ItemMade DEF Prose
  <2>2. Append(c, Prose(t)) \in Seq(Item) /\ NormalContent(Append(c, Prose(t)))
    BY <1>2, <2>1, NormalAppend
  <2> QED
    BY <1>2, <2>2, WithProseDoes
<1>3. CASE t # << >> /\ c # << >> /\ c[n].k = "prose"
  <2> DEFINE p == Prose(c[n].text \o t)
             d == [c EXCEPT ![n] = p]
  <2>1. n \in 1..n /\ c[n] \in Item /\ n \in Nat
    BY <1>3, EmptySeq, ElementOfSeq
  <2>2. c[n].text \in Seq(MarkdownBlock)
    BY <1>3, <2>1, ItemShape
  <2>3. p \in Item /\ p.text # << >> /\ p.k = "prose"
    <3>1. c[n].text \o t \in Seq(MarkdownBlock) /\ c[n].text \o t # << >>
      BY <1>3, <2>2, ConcatProperties, ConcatEqualIffEmpty
    <3> QED
      BY <3>1, ItemMade DEF Prose
  <2> HIDE DEF p
  <2>4. /\ d \in Seq(Item) /\ Len(d) = n /\ \A i \in 1..n : d[i] = IF i = n THEN p ELSE c[i]
    BY <2>1, <2>3, ExceptSeq
  <2> HIDE DEF d
  <2>5. \A i \in 1..n : i > 1 => i - 1 \in 1..n /\ i - 1 # n
    BY <2>1
  <2>6. NormalContent(d)
    BY <1>3, <2>1, <2>3, <2>4, <2>5 DEF NormalContent
  <2>7. WithProse(c, t) = d
    BY <1>3, WithProseDoes DEF d, p
  <2> QED
    BY <2>4, <2>6, <2>7
<1> QED
  BY <1>1, <1>2, <1>3

-----------------------------------------------------------------------------
(* Normal content is what its normalisation gives.                          *)
LEMMA NormalizingNormal ==
  ASSUME NEW content \in Seq(Item), NormalContent(content)
  PROVE  NormalizedContent(content) = content
<1> DEFINE Good == {c \in Seq(Item) : NormalContent(c) => NormalizedContent(c) = c}
<1>1. << >> \in Good
  BY NormalSteps
<1>2. ASSUME NEW c \in Seq(Item), NEW x \in Item, c \in Good
      PROVE  Append(c, x) \in Good
  <2> DEFINE n == Len(c)
             d == Append(c, x)
  <2>1. /\ d \in Seq(Item) /\ Len(d) = n + 1 /\ n \in Nat
        /\ d[n + 1] = x /\ \A i \in 1..n : d[i] = c[i]
    BY AppendProperties, LenProperties
  <2> SUFFICES ASSUME NormalContent(d)
               PROVE  NormalizedContent(d) = d
    BY <2>1
  <2>2. NormalContent(c)
    <3> HIDE DEF d
    <3> SUFFICES ASSUME NEW i \in 1..n, c[i].k = "prose"
                 PROVE  c[i].text # << >> /\ (i > 1 => c[i - 1].k # "prose")
      BY DEF NormalContent
    <3>1. i \in 1..Len(d) /\ d[i] = c[i] /\ (i > 1 => d[i - 1] = c[i - 1])
      BY <2>1
    <3> QED
      BY <3>1 DEF NormalContent
  <2>3. NormalizedContent(d) = NormalizedItem(c, x)
    BY <1>2, <2>2, NormalSteps
  <2>4. x.k = "prose" => x.text # << >> /\ (c # << >> => c[n].k # "prose")
    <3> HIDE DEF d
    <3>1. c # << >> => n \in 1..n
      BY EmptySeq
    <3>2. n + 1 \in 1..Len(d) /\ (c # << >> => n + 1 > 1 /\ d[(n + 1) - 1] = c[n])
      BY <2>1, <3>1
    <3> QED
      BY <2>1, <3>2 DEF NormalContent
  <2>5. CASE x.k = "prose"
    <3>1. x = Prose(x.text) /\ x.text \in Seq(MarkdownBlock)
      BY <2>5, ItemShape
    <3>2. WithProse(c, x.text) = Append(c, Prose(x.text))
      BY <2>4, <2>5, <3>1, WithProseDoes
    <3> QED
      BY <2>3, <2>5, <3>1, <3>2 DEF NormalizedItem
  <2>6. CASE x.k # "prose"
    BY <2>3, <2>6 DEF NormalizedItem
  <2> QED
    BY <2>5, <2>6
<1>3. \A c \in Seq(Item) : c \in Good
  <2> HIDE DEF Good
  <2> QED
    BY <1>1, <1>2, Joining!SequenceInduction
<1> QED
  BY <1>3

NormalContents(steps) == \A n \in DOMAIN steps : NormalContent(steps[n].content)

(* Steps with normal contents are what they are normalised to.              *)
LEMMA NormalizedNormal ==
  ASSUME NEW steps \in Seq(Step), NormalContents(steps)
  PROVE  Normalized(steps) = steps
<1>1. ASSUME NEW n \in DOMAIN steps
      PROVE  [steps[n] EXCEPT !.content = NormalizedContent(@)] = steps[n]
  <2>1. steps[n] \in Step
    OBVIOUS
  <2>2. NormalizedContent(steps[n].content) = steps[n].content
    BY <2>1, NormalizingNormal DEF Step, NormalContents
  <2> QED
    BY <2>1, <2>2 DEF Step
<1>2. steps = [n \in DOMAIN steps |-> steps[n]]
  OBVIOUS
<1> QED
  BY <1>1, <1>2 DEF Normalized

-----------------------------------------------------------------------------
(* What is read of a document is normal, whatever its editors put there.    *)
LEMMA ReadChildKeeps ==
  ASSUME NEW c \in Seq(Item), NormalContent(c), NEW b \in StepChild
  PROVE  ReadChild(c, b) \in Seq(Item) /\ NormalContent(ReadChild(c, b))
<1> DEFINE n == Len(c)
<1>0. /\ b.k \in {"checkListItem", "procnoteInput", "table", "stray", "text"}
      /\ b.k = "checkListItem" => b.depth \in Nat
      /\ b.k = "procnoteInput" => b.def \in InputDefinition
      /\ b.k = "table" => b.cells \in Seq(TableCell) /\ b = Table(b.cells)
      /\ b.k = "text" => b.text \in Seq(MarkdownBlock)
  BY ChildShape
<1>1. CASE b.k = "checkListItem"
  <2>1. Checkbox(b.depth) \in Item /\ Checkbox(b.depth).k # "prose"
    BY <1>0, <1>1, ItemMade DEF Checkbox
  <2>2. ReadChild(c, b) = Append(c, Checkbox(b.depth))
    BY <1>1 DEF ReadChild, IsTableItem
  <2> QED
    BY <2>1, <2>2, NormalAppend
<1>2. CASE b.k = "procnoteInput" /\ c # << >> /\ c[n].k = "inputs"
  <2> DEFINE p == InputBlock(Append(c[n].defs, b.def))
             d == [c EXCEPT ![n] = p]
  <2>1. n \in 1..n /\ n \in Nat /\ c[n] \in Item
    BY <1>2, EmptySeq, ElementOfSeq
  <2>2. PICK y \in Seq(InputDefinition) : c[n] = [k |-> "inputs", defs |-> y]
    BY <1>2, <2>1, ItemShape DEF InputBlock
  <2>3. \A z : [c[n] EXCEPT !.defs = z] = [k |-> "inputs", defs |-> z]
    BY <2>2
  <2>4. ReadChild(c, b) = [c EXCEPT ![n].defs = Append(@, b.def)]
    BY <1>2 DEF ReadChild, Last, IsTableItem
  <2>5. ReadChild(c, b) = d
    BY <2>3, <2>4 DEF InputBlock
  <2>6. p \in Item /\ p.k = "inputs"
    <3>1. Append(c[n].defs, b.def) \in Seq(InputDefinition)
      BY <1>0, <1>2, <2>2
    <3> QED
      BY <3>1, ItemMade DEF InputBlock
  <2> HIDE DEF p
  <2>7. /\ d \in Seq(Item) /\ Len(d) = n /\ \A i \in 1..n : d[i] = IF i = n THEN p ELSE c[i]
    BY <2>1, <2>6, ExceptSeq
  <2> HIDE DEF d
  <2>8. NormalContent(d)
    <3>1. \A i \in 1..n : i > 1 => i - 1 \in 1..n
      BY <2>1
    <3>2. \A i \in 1..n : d[i].k = "prose" <=> c[i].k = "prose"
      BY <1>2, <2>6, <2>7
    <3>3. \A i \in 1..n : d[i].k = "prose" => d[i] = c[i]
      BY <2>6, <2>7
    <3> QED
      BY <2>7, <3>1, <3>2, <3>3 DEF NormalContent
  <2> QED
    BY <2>5, <2>7, <2>8
<1>3. CASE b.k = "procnoteInput" /\ ~ (c # << >> /\ c[n].k = "inputs")
  <2>1. InputBlock(<< b.def >>) \in Item /\ InputBlock(<< b.def >>).k # "prose"
    <3>1. << b.def >> \in Seq(InputDefinition)
      BY <1>0, <1>3
    <3> QED
      BY <3>1, ItemMade DEF InputBlock
  <2>2. ReadChild(c, b) = Append(c, InputBlock(<< b.def >>))
    BY <1>3 DEF ReadChild, Last, IsTableItem
  <2> QED
    BY <2>1, <2>2, NormalAppend
<1>4. CASE b.k = "table" /\ IsTableItem(b)
  <2>1. Table(b.cells) \in Item /\ Table(b.cells).k # "prose"
    BY <1>0, <1>4, ItemMade DEF Table
  <2>2. ReadChild(c, b) = Append(c, Table(b.cells))
    BY <1>4 DEF ReadChild
  <2> QED
    BY <2>1, <2>2, NormalAppend
<1>5. CASE b.k = "table" /\ ~ IsTableItem(b)
  <2>1. << b >> \in Seq(MarkdownBlock)
    BY <1>0, <1>5 DEF MarkdownBlock, Table
  <2>2. ReadChild(c, b) = WithProse(c, << b >>)
    BY <1>5 DEF ReadChild
  <2> QED
    BY <2>1, <2>2, WithProseKeeps
<1>6. CASE b.k = "stray"
  <2>1. ReadChild(c, b) = c
    BY <1>6 DEF ReadChild, IsTableItem
  <2> QED
    BY <2>1
<1>7. CASE b.k = "text"
  <2>1. ReadChild(c, b) = WithProse(c, b.text)
    BY <1>7 DEF ReadChild, IsTableItem
  <2> QED
    BY <1>0, <1>7, <2>1, WithProseKeeps
<1> QED
  BY <1>0, <1>1, <1>2, <1>3, <1>4, <1>5, <1>6, <1>7

(* The content of a step of a document.                                     *)
LEMMA ChildrenRead ==
  ASSUME NEW children \in Seq(StepChild)
  PROVE  ReadChildren(children) \in Seq(Item) /\ NormalContent(ReadChildren(children))
<1> DEFINE Good == {s \in Seq(StepChild) : /\ ReadChildren(s) \in Seq(Item)
                                           /\ NormalContent(ReadChildren(s))}
<1>1. << >> \in Good
  <2>1. << >> \in Seq(Item) /\ << >> \in Seq(StepChild) /\ Len(<< >>) = 0
    OBVIOUS
  <2>2. ReadChildren(<< >>) = << >> /\ NormalContent(<< >>)
    BY <2>1, ChildSteps DEF NormalContent
  <2> QED
    BY <2>1, <2>2
<1>2. ASSUME NEW s \in Seq(StepChild), NEW b \in StepChild, s \in Good
      PROVE  Append(s, b) \in Good
  <2>1. ReadChildren(Append(s, b)) = ReadChild(ReadChildren(s), b)
    BY ChildSteps
  <2>2. Append(s, b) \in Seq(StepChild)
    OBVIOUS
  <2> QED
    BY <1>2, <2>1, <2>2, ReadChildKeeps
<1>3. \A s \in Seq(StepChild) : s \in Good
  <2> HIDE DEF Good
  <2> QED
    BY <1>1, <1>2, Joining!SequenceInduction
<1> QED
  BY <1>3

(* The template of a document.                                              *)
LEMMA DocumentRead ==
  ASSUME NEW doc \in Seq(DocumentBlock)
  PROVE  BlocksToTemplate(doc) \in Seq(Step) /\ NormalContents(BlocksToTemplate(doc))
<1> DEFINE Good == {s \in Seq(DocumentBlock) : /\ BlocksToTemplate(s) \in Seq(Step)
                                               /\ NormalContents(BlocksToTemplate(s))}
<1>1. << >> \in Good
  <2>1. << >> \in Seq(Step) /\ << >> \in Seq(DocumentBlock) /\ DOMAIN << >> = {}
    OBVIOUS
  <2>2. BlocksToTemplate(<< >>) = << >> /\ NormalContents(<< >>)
    BY <2>1, DocumentSteps DEF NormalContents
  <2> QED
    BY <2>1, <2>2
<1>2. ASSUME NEW s \in Seq(DocumentBlock), NEW b \in DocumentBlock, s \in Good
      PROVE  Append(s, b) \in Good
  <2> DEFINE steps == BlocksToTemplate(s)
             new == [named |-> b.named, content |-> ReadChildren(b.children)]
  <2>1. BlocksToTemplate(Append(s, b)) = IF b.k = "step" THEN Append(steps, new) ELSE steps
    BY DocumentSteps DEF ReadDocumentBlock
  <2>2. Append(s, b) \in Seq(DocumentBlock)
    OBVIOUS
  <2>3. steps \in Seq(Step) /\ NormalContents(steps)
    BY <1>2
  <2>4. CASE b.k = "step"
    <3>1. b.named \in BOOLEAN /\ b.children \in Seq(StepChild)
      BY <2>4 DEF DocumentBlock
    <3>2. new \in Step /\ NormalContent(new.content)
      BY <3>1, ChildrenRead DEF Step
    <3> HIDE DEF new, steps
    <3>3. Append(steps, new) \in Seq(Step) /\ NormalContents(Append(steps, new))
      <4>1. /\ Append(steps, new) \in Seq(Step)
            /\ \A i \in DOMAIN Append(steps, new) :
                 Append(steps, new)[i] = IF i \in DOMAIN steps THEN steps[i] ELSE new
        BY <2>3, <3>2, AppendProperties, LenProperties
      <4> QED
        BY <2>3, <3>2, <4>1 DEF NormalContents
    <3> QED
      BY <2>1, <2>2, <2>4, <3>3
  <2>5. CASE b.k # "step"
    BY <2>1, <2>2, <2>3, <2>5
  <2> QED
    BY <2>4, <2>5
<1>3. \A s \in Seq(DocumentBlock) : s \in Good
  <2> HIDE DEF Good
  <2> QED
    BY <1>1, <1>2, Joining!SequenceInduction
<1> QED
  BY <1>3

-----------------------------------------------------------------------------
(* Several sequences one after the other.                                   *)
Flat(seqs, n, f) ==
  f = [i \in 1..n |-> IF i = 1 THEN seqs[i] ELSE f[i - 1] \o seqs[i]]

(* There is such a function for every length.                              *)
LEMMA FlatExists ==
  ASSUME NEW seqs
  PROVE  \A n \in Nat : \E f : Flat(seqs, n, f)
<1> DEFINE Numbers == {n \in Nat : \E f : Flat(seqs, n, f)}
<1>1. 0 \in Numbers
  <2>1. Flat(seqs, 0, [i \in 1..0 |-> seqs[i]])
    BY 1..0 = {} DEF Flat
  <2> QED
    BY <2>1
<1>2. ASSUME NEW n \in Nat, n \in Numbers
      PROVE  n + 1 \in Numbers
  <2>1. PICK f : Flat(seqs, n, f)
    BY <1>2
  <2> DEFINE last == IF n = 0 THEN seqs[1] ELSE f[n] \o seqs[n + 1]
             g == [i \in 1..(n + 1) |-> IF i = n + 1 THEN last ELSE f[i]]
  <2>2. ASSUME NEW i \in 1..(n + 1)
        PROVE  g[i] = IF i = 1 THEN seqs[i] ELSE g[i - 1] \o seqs[i]
    <3>1. CASE i = n + 1 /\ n = 0
      BY <3>1
    <3>2. CASE i = n + 1 /\ n # 0
      <4>1. i - 1 = n /\ n \in 1..(n + 1) /\ n # n + 1 /\ i # 1
        BY <3>2
      <4>2. g[n] = f[n]
        BY <4>1
      <4> QED
        BY <3>2, <4>1, <4>2
    <3>3. CASE i # n + 1
      <4>1. i \in 1..n /\ (i # 1 => i - 1 \in 1..(n + 1) /\ i - 1 # n + 1 /\ i - 1 \in 1..n)
        BY <3>3
      <4>2. f[i] = IF i = 1 THEN seqs[i] ELSE f[i - 1] \o seqs[i]
        BY <2>1, <4>1 DEF Flat
      <4>3. g[i] = f[i] /\ (i # 1 => g[i - 1] = f[i - 1])
        BY <3>3, <4>1
      <4> QED
        BY <4>2, <4>3
    <3> QED
      BY <3>1, <3>2, <3>3
  <2>3. Flat(seqs, n + 1, g)
    BY <2>2 DEF Flat
  <2> QED
    BY <2>3
<1> HIDE DEF Numbers
<1>3. \A n \in Nat : n \in Numbers
  BY <1>1, <1>2, Joining!NumberInduction
<1> QED
  BY <1>3 DEF Numbers

(* What it is at one place.                                                *)
LEMMA FlatAt ==
  ASSUME NEW s, NEW n \in Nat, NEW f, Flat(s, n, f), NEW i \in 1..n
  PROVE  f[i] = IF i = 1 THEN s[i] ELSE f[i - 1] \o s[i]
<1> DEFINE h == [j \in 1..n |-> IF j = 1 THEN s[j] ELSE f[j - 1] \o s[j]]
<1>1. f = h
  BY DEF Flat
<1>2. h[i] = IF i = 1 THEN s[i] ELSE f[i - 1] \o s[i]
  OBVIOUS
<1> HIDE DEF h
<1> QED
  BY <1>1, <1>2

Agree(s, t, n) == \A i \in 1..n : s[i] = t[i]

(* Sequences that agree flatten alike, as far as they agree.               *)
LEMMA FlatIsUnique ==
  ASSUME NEW s, NEW t, NEW n \in Nat, NEW m \in Nat, NEW f, NEW g,
         Flat(s, n, f), Flat(t, m, g), Agree(s, t, n), n <= m
  PROVE  Agree(f, g, n)
<1> DEFINE Numbers == {k \in Nat : k \in 1..n => f[k] = g[k]}
<1>1. 0 \in Numbers
  OBVIOUS
<1>2. ASSUME NEW k \in Nat, k \in Numbers
      PROVE  k + 1 \in Numbers
  <2> SUFFICES ASSUME k + 1 \in 1..n
               PROVE  f[k + 1] = g[k + 1]
    OBVIOUS
  <2>1. k + 1 \in 1..m /\ (k # 0 => k \in 1..n) /\ (k + 1) - 1 = k
    OBVIOUS
  <2>2. f[k + 1] = IF k + 1 = 1 THEN s[k + 1] ELSE f[(k + 1) - 1] \o s[k + 1]
    BY FlatAt
  <2>3. g[k + 1] = IF k + 1 = 1 THEN t[k + 1] ELSE g[(k + 1) - 1] \o t[k + 1]
    BY <2>1, FlatAt
  <2> QED
    BY <1>2, <2>1, <2>2, <2>3 DEF Agree
<1>3. \A k \in Nat : k \in Numbers
  <2> HIDE DEF Numbers
  <2> QED
    BY <1>1, <1>2, Joining!NumberInduction
<1> QED
  BY <1>3 DEF Agree

(* FlattenSeq takes the last of it.                                        *)
LEMMA FlattenIsFlat ==
  ASSUME NEW E, NEW s \in Seq(E), s # << >>
  PROVE  \E f : Flat(s, Len(s), f) /\ FlattenSeq(s) = f[Len(s)]
<1> DEFINE f == CHOOSE g : Flat(s, Len(s), g)
<1>1. Len(s) \in Nat /\ Len(s) # 0
  BY EmptySeq
<1>2. Flat(s, Len(s), f)
  BY <1>1, FlatExists
<1>3. FlattenSeq(s) = f[Len(s)]
  BY <1>1 DEF FlattenSeq, Flat
<1> QED
  BY <1>2, <1>3

(* Flattening goes from left to right.                                      *)
LEMMA FlattenNone == FlattenSeq(<< >>) = << >>
BY DEF FlattenSeq

(* One sequence more is put behind the others.                             *)
LEMMA FlattenAppend ==
  ASSUME NEW E, NEW s \in Seq(Seq(E)), NEW t \in Seq(E)
  PROVE  FlattenSeq(Append(s, t)) = FlattenSeq(s) \o t
<1> DEFINE n == Len(s)
           u == Append(s, t)
<1>1. /\ n \in Nat /\ u \in Seq(Seq(E)) /\ u # << >> /\ Len(u) = n + 1 /\ u[n + 1] = t
      /\ \A i \in 1..n : u[i] = s[i]
  BY AppendProperties, LenProperties
<1> HIDE DEF u
<1>2. PICK g : Flat(u, n + 1, g) /\ FlattenSeq(u) = g[n + 1]
  BY <1>1, FlattenIsFlat
<1>3. g[n + 1] = IF n = 0 THEN t ELSE g[n] \o t
  <2>1. n + 1 \in 1..(n + 1) /\ (n + 1) - 1 = n
    BY <1>1
  <2>2. g[n + 1] = IF n + 1 = 1 THEN u[n + 1] ELSE g[(n + 1) - 1] \o u[n + 1]
    BY <1>2, <2>1 DEF Flat
  <2> QED
    BY <1>1, <2>1, <2>2
<1>4. CASE s = << >>
  <2>1. n = 0 /\ << >> \o t = t
    BY <1>4, ConcatEmptySeq
  <2> QED
    BY <1>2, <1>3, <1>4, <2>1, FlattenNone DEF u
<1>5. CASE s # << >>
  <2>1. n \in 1..n /\ n # 0 /\ n + 1 \in Nat /\ n <= n + 1
    BY <1>1, <1>5, EmptySeq
  <2>2. PICK f : Flat(s, n, f) /\ FlattenSeq(s) = f[n]
    BY <1>5, FlattenIsFlat
  <2>3. \A i \in 1..n : s[i] = u[i]
    BY <1>1
  <2>4. f[n] = g[n]
    <3>1. Agree(s, u, n)
      BY <2>3 DEF Agree
    <3>2. Agree(f, g, n)
      BY <1>1, <1>2, <2>1, <2>2, <3>1, FlatIsUnique
    <3> QED
      BY <2>1, <3>2 DEF Agree
  <2> QED
    BY <1>2, <1>3, <2>1, <2>2, <2>4 DEF u
<1> QED
  BY <1>4, <1>5

(* An element more at the end of two sequences, and of a changed last one.  *)
LEMMA ConcatAppend ==
  ASSUME NEW E, NEW s \in Seq(E), NEW t \in Seq(E), NEW x \in E
  PROVE  /\ s \o Append(t, x) = Append(s \o t, x)
         /\ s \o << x >> = Append(s, x)
<1>1. << x >> \in Seq(E) /\ s \o t \in Seq(E)
  BY ConcatProperties
<1>2. Append(t, x) = t \o << x >> /\ Append(s \o t, x) = (s \o t) \o << x >>
  BY <1>1, AppendIsConcat
<1>3. s \o << x >> = Append(s, x)
  BY AppendIsConcat
<1> QED
  BY <1>1, <1>2, <1>3, ConcatAssociative

(* One more input, and one more block of a step, after others.              *)
LEMMA InputAfter ==
  \A s, t \in Seq(InputDefinition), x \in InputDefinition :
    s \o Append(t, x) = Append(s \o t, x)
<1> DEFINE E == InputDefinition
<1> HIDE DEF E
<1>1. \A s, t \in Seq(E), x \in E : s \o Append(t, x) = Append(s \o t, x)
  <2> SUFFICES ASSUME NEW s \in Seq(E), NEW t \in Seq(E), NEW x \in E
               PROVE  s \o Append(t, x) = Append(s \o t, x)
    OBVIOUS
  <2> QED
    BY ConcatAppend
<1> QED
  BY <1>1 DEF E

LEMMA ChildAfter ==
  \A s, t \in Seq(StepChild), y \in StepChild :
    s \o Append(t, y) = Append(s \o t, y)
<1> DEFINE E == StepChild
<1> HIDE DEF E
<1>1. \A s, t \in Seq(E), y \in E : s \o Append(t, y) = Append(s \o t, y)
  <2> SUFFICES ASSUME NEW s \in Seq(E), NEW t \in Seq(E), NEW y \in E
               PROVE  s \o Append(t, y) = Append(s \o t, y)
    OBVIOUS
  <2> QED
    BY ConcatAppend
<1> QED
  BY <1>1 DEF E

(* The last element is the one appended, and replaced by another.          *)
LEMMA LastReplaced ==
  ASSUME NEW E, NEW s \in Seq(E), NEW x \in E, NEW y \in E
  PROVE  /\ [Append(s, x) EXCEPT ![Len(Append(s, x))] = y] = Append(s, y)
         /\ Append(s, x)[Len(Append(s, x))] = x
         /\ Last(Append(s, x)) = x
         /\ Append(s, x) # << >>
<1> DEFINE n == Len(s)
           a == Append(s, x)
           b == Append(s, y)
           c == [a EXCEPT ![n + 1] = y]
<1>1. /\ n \in Nat /\ a \in Seq(E) /\ Len(a) = n + 1 /\ a[n + 1] = x /\ a # << >>
      /\ \A i \in 1..n : a[i] = s[i]
  BY AppendProperties, LenProperties
<1>2. /\ b \in Seq(E) /\ Len(b) = n + 1 /\ b[n + 1] = y /\ \A i \in 1..n : b[i] = s[i]
  BY AppendProperties, LenProperties
<1> HIDE DEF a, b
<1>3. n + 1 \in 1..Len(a)
  BY <1>1
<1>4. /\ c \in Seq(E) /\ Len(c) = n + 1
      /\ \A i \in 1..(n + 1) : c[i] = IF i = n + 1 THEN y ELSE a[i]
  BY <1>1, <1>3, ExceptSeq
<1> HIDE DEF c
<1>5. \A i \in 1..(n + 1) : c[i] = b[i]
  BY <1>1, <1>2, <1>4
<1>6. c = b
  BY <1>2, <1>4, <1>5, SeqEqual
<1> QED
  BY <1>1, <1>6 DEF a, b, c, Last

(* Sequences are equal when they have the same elements.                    *)
LEMMA SameElements ==
  ASSUME NEW E, NEW s \in Seq(E), NEW t \in Seq(E), Len(s) = Len(t), Agree(s, t, Len(s))
  PROVE  s = t
BY SeqEqual DEF Agree

-----------------------------------------------------------------------------
(* What a function makes of every element, one more at a time.              *)
Maps(f, E, F) == f \in [E -> F]

Mapped(f, s) == [i \in DOMAIN s |-> f[s[i]]]

(* A mapped sequence is as long, and has the images.                       *)
LEMMA MappedElements ==
  ASSUME NEW E, NEW F, NEW f, Maps(f, E, F), NEW s \in Seq(E)
  PROVE  /\ Mapped(f, s) \in Seq(F) /\ Len(Mapped(f, s)) = Len(s)
         /\ \A i \in 1..Len(s) : Mapped(f, s)[i] = f[s[i]]
<1>1. \A i \in 1..Len(s) : f[s[i]] \in F
  BY ElementOfSeq DEF Maps
<1>2. DOMAIN s = 1..Len(s) /\ Len(s) \in Nat
  BY LenProperties
<1> QED
  BY <1>1, <1>2 DEF Mapped

(* One element more has its image behind the others.                       *)
LEMMA MappedAppend ==
  ASSUME NEW E, NEW F, NEW f, Maps(f, E, F), NEW s \in Seq(E), NEW x \in E
  PROVE  Mapped(f, Append(s, x)) = Append(Mapped(f, s), f[x])
<1>0. ASSUME NEW t \in Seq(E)
      PROVE  Mapped(f, t) \in Seq(F) /\ Len(Mapped(f, t)) = Len(t)
  BY MappedElements
<1>1. ASSUME NEW t \in Seq(E), NEW i \in 1..Len(t)
      PROVE  Mapped(f, t)[i] = f[t[i]]
  BY MappedElements
<1> DEFINE n == Len(s)
           a == Append(s, x)
           b == Append(Mapped(f, s), f[x])
<1>2. /\ n \in Nat /\ a \in Seq(E) /\ Len(a) = n + 1 /\ a[n + 1] = x
      /\ \A i \in 1..n : a[i] = s[i]
  BY AppendProperties, LenProperties
<1> HIDE DEF a
<1>3. /\ b \in Seq(F) /\ Len(b) = n + 1 /\ b[n + 1] = f[x]
      /\ \A i \in 1..n : b[i] = f[s[i]]
  BY <1>0, <1>1, <1>2, AppendProperties
<1> HIDE DEF b
<1>4. /\ Mapped(f, a) \in Seq(F) /\ Len(Mapped(f, a)) = n + 1
      /\ \A i \in 1..(n + 1) : Mapped(f, a)[i] = f[a[i]]
  BY <1>0, <1>1, <1>2
<1>5. Agree(Mapped(f, a), b, n + 1)
  BY <1>2, <1>3, <1>4 DEF Agree
<1>6. Mapped(f, a) = b
  BY <1>3, <1>4, <1>5, SameElements
<1> QED
  BY <1>6 DEF a, b

ListItem == [task : BOOLEAN, level : Nat]

Boxes(items) == [i \in DOMAIN items |-> Checkbox(items[i].level)]
InputChildren(defs) == [j \in DOMAIN defs |-> InputChild(defs[j])]
TextChildren(text, other) ==
  FlattenSeq([j \in DOMAIN text |-> ProseChildren(text[j], other)])

(* What BlockNote makes of the blocks it alters, and content it leaves.     *)
Altering(other) == \A b \in DOMAIN other : other[b] \in Seq(MarkdownChild)
TextLeft(text, other) == \A j \in 1..Len(text) : text[j] \notin DOMAIN other
ContentLeft(content, other) ==
  \A i \in 1..Len(content) : content[i].k = "prose" => TextLeft(content[i].text, other)

(* The checkboxes of a list.                                               *)
LEMMA BoxesAppend ==
  /\ Boxes(<< >>) = << >>
  /\ \A s \in Seq(ListItem) : Boxes(s) \in Seq(Item) /\ Len(Boxes(s)) = Len(s)
  /\ \A s \in Seq(ListItem), x \in ListItem :
       Boxes(Append(s, x)) = Append(Boxes(s), Checkbox(x.level))
<1> DEFINE f == [x \in ListItem |-> Checkbox(x.level)]
<1>1. Maps(f, ListItem, Item)
  BY ItemMade DEF ListItem, Maps
<1>2. \A x \in ListItem : f[x] = Checkbox(x.level)
  OBVIOUS
<1> HIDE DEF f
<1>3. ASSUME NEW s \in Seq(ListItem)
      PROVE  Boxes(s) = Mapped(f, s)
  <2>1. \A i \in DOMAIN s : s[i] \in ListItem
    OBVIOUS
  <2> QED
    BY <1>2, <2>1 DEF Boxes, Mapped
<1>4. Boxes(<< >>) = << >>
  BY DEF Boxes
<1>5. ASSUME NEW s \in Seq(ListItem)
      PROVE  Boxes(s) \in Seq(Item) /\ Len(Boxes(s)) = Len(s)
  BY <1>1, <1>3, MappedElements
<1>6. ASSUME NEW s \in Seq(ListItem), NEW x \in ListItem
      PROVE  Boxes(Append(s, x)) = Append(Boxes(s), Checkbox(x.level))
  <2>1. Append(s, x) \in Seq(ListItem)
    BY AppendProperties
  <2>2. Mapped(f, Append(s, x)) = Append(Mapped(f, s), f[x])
    BY <1>1, MappedAppend
  <2> QED
    BY <1>2, <1>3, <2>1, <2>2
<1> QED
  BY <1>4, <1>5, <1>6

(* The inputs of a document.                                               *)
LEMMA InputChildrenAppend ==
  /\ InputChildren(<< >>) = << >>
  /\ \A s \in Seq(InputDefinition) : InputChildren(s) \in Seq(StepChild)
  /\ \A s \in Seq(InputDefinition), x \in InputDefinition :
       InputChildren(Append(s, x)) = Append(InputChildren(s), InputChild(x))
<1> DEFINE f == [x \in InputDefinition |-> InputChild(x)]
<1>1. Maps(f, InputDefinition, StepChild)
  BY DEF InputChild, StepChild, Maps
<1>2. \A x \in InputDefinition : f[x] = InputChild(x)
  OBVIOUS
<1> HIDE DEF f
<1>3. ASSUME NEW s \in Seq(InputDefinition)
      PROVE  InputChildren(s) = Mapped(f, s)
  <2>1. \A i \in DOMAIN s : s[i] \in InputDefinition
    OBVIOUS
  <2> QED
    BY <1>2, <2>1 DEF InputChildren, Mapped
<1>4. InputChildren(<< >>) = << >>
  BY DEF InputChildren
<1>5. ASSUME NEW s \in Seq(InputDefinition)
      PROVE  InputChildren(s) \in Seq(StepChild) /\ Len(InputChildren(s)) = Len(s)
  BY <1>1, <1>3, MappedElements
<1>6. ASSUME NEW s \in Seq(InputDefinition), NEW x \in InputDefinition
      PROVE  InputChildren(Append(s, x)) = Append(InputChildren(s), InputChild(x))
  <2>1. Append(s, x) \in Seq(InputDefinition)
    BY AppendProperties
  <2>2. Mapped(f, Append(s, x)) = Append(Mapped(f, s), f[x])
    BY <1>1, MappedAppend
  <2> QED
    BY <1>2, <1>3, <2>1, <2>2
<1> QED
  BY <1>4, <1>5, <1>6


-----------------------------------------------------------------------------
(* Writing Markdown.  An open list is the last block, a task list of the    *)
(* marker checklists have.                                                  *)
TaskList(items) == [k |-> "list", marker |-> "-", items |-> items]
BoxItem(level) == [task |-> TRUE, level |-> level]

Out == [blocks : Seq(MarkdownBlock), listOpen : BOOLEAN]
OpenList(out) ==
  out.listOpen => \E front \in Seq(MarkdownBlock), items \in Seq(ListItem) :
                    out.blocks = Append(front, TaskList(items))

(* What is written of checkboxes is Markdown.                              *)
LEMMA TaskListMade ==
  /\ \A items \in Seq(ListItem) : TaskList(items) \in MarkdownBlock
  /\ \A level \in Nat : BoxItem(level) \in ListItem
<1>1. ASSUME NEW items \in Seq(ListItem)
      PROVE  TaskList(items) \in MarkdownBlock
  <2>1. items \in Seq([task : BOOLEAN, level : Nat])
    BY Zenon DEF ListItem
  <2> QED
    BY <2>1 DEF TaskList, MarkdownBlock, Markers
<1> QED
  BY <1>1 DEF BoxItem, ListItem

(* What is written of a checkbox.                                           *)
LEMMA WriteBox ==
  ASSUME NEW out \in Out, NEW x \in Item, x.k = "checkbox"
  PROVE  /\ ~ out.listOpen =>
              WriteItem(out, x) =
                [blocks |-> Append(out.blocks, TaskList(<< BoxItem(x.level) >>)),
                 listOpen |-> TRUE]
         /\ \A front \in Seq(MarkdownBlock), items \in Seq(ListItem) :
              out.listOpen /\ out.blocks = Append(front, TaskList(items)) =>
                WriteItem(out, x) =
                  [blocks |-> Append(front, TaskList(Append(items, BoxItem(x.level)))),
                   listOpen |-> TRUE]
<1>1. ASSUME ~ out.listOpen
      PROVE  WriteItem(out, x) =
               [blocks |-> Append(out.blocks, TaskList(<< BoxItem(x.level) >>)),
                listOpen |-> TRUE]
  BY <1>1 DEF WriteItem, TaskList, BoxItem
<1>2. ASSUME out.listOpen, NEW front \in Seq(MarkdownBlock), NEW items \in Seq(ListItem),
             out.blocks = Append(front, TaskList(items))
      PROVE  WriteItem(out, x) =
               [blocks |-> Append(front, TaskList(Append(items, BoxItem(x.level)))),
                listOpen |-> TRUE]
  <2> DEFINE i2 == Append(items, BoxItem(x.level))
             n == Len(out.blocks)
             l == TaskList(items)
             l2 == TaskList(i2)
  <2>1. WriteItem(out, x) =
          [out EXCEPT !.blocks[n].items = Append(@, BoxItem(x.level))]
    BY <1>2 DEF WriteItem, BoxItem
  <2>2. x.level \in Nat
    BY ItemShape
  <2>3. l \in MarkdownBlock /\ l2 \in MarkdownBlock
    BY <2>2, TaskListMade, AppendProperties
  <2> HIDE DEF l, l2
  <2>4. out.blocks[n] = l /\ [out.blocks EXCEPT ![n] = l2] = Append(front, l2)
    <3>1. out.blocks = Append(front, l)
      BY <1>2 DEF l
    <3>2. /\ [Append(front, l) EXCEPT ![Len(Append(front, l))] = l2] = Append(front, l2)
          /\ Append(front, l)[Len(Append(front, l))] = l
      BY <2>3, LastReplaced
    <3> QED
      BY <3>1, <3>2
  <2>5. [l EXCEPT !.items = Append(@, BoxItem(x.level))] = l2
    BY DEF TaskList, l, l2
  <2>6. [out.blocks EXCEPT ![n].items = Append(@, BoxItem(x.level))]
          = [out.blocks EXCEPT ![n] = l2]
    BY <2>4, <2>5
  <2>7. PICK bs, open : out = [blocks |-> bs, listOpen |-> open]
    BY DEF Out
  <2>8. \A y : [out EXCEPT !.blocks = y] = [blocks |-> y, listOpen |-> open]
    BY ONLY <2>7
  <2>9. \A y : [out EXCEPT !.blocks = y] = [blocks |-> y, listOpen |-> TRUE]
    <3>1. open = TRUE
      BY <1>2, <2>7 DEF Out
    <3> QED
      BY <2>8, <3>1
  <2> QED
    <3>1. WriteItem(out, x) = [out EXCEPT !.blocks = Append(front, l2)]
      BY <2>1, <2>4, <2>6
    <3> QED
      BY <2>9, <3>1 DEF l2
<1> QED
  BY <1>1, <1>2

(* What is written of any other item.                                       *)
LEMMA WriteOther ==
  ASSUME NEW out \in Out, NEW x \in Item, x.k # "checkbox"
  PROVE  WriteItem(out, x) =
           [blocks |-> out.blocks \o (IF x.k = "prose" THEN x.text ELSE << x >>),
            listOpen |-> FALSE]
<1>1. CASE x.k = "prose"
  BY <1>1 DEF WriteItem
<1>2. CASE x.k = "table"
  <2>1. TableMarkdown(x) = x /\ x \in MarkdownBlock
    BY <1>2, ItemShape DEF TableMarkdown, Table, MarkdownBlock
  <2>2. out.blocks \o << x >> = Append(out.blocks, x)
    BY <2>1, ConcatAppend DEF Out
  <2> QED
    BY <1>2, <2>1, <2>2 DEF WriteItem
<1>3. CASE x.k = "inputs"
  <2>1. x \in MarkdownBlock
    BY <1>3, ItemShape DEF InputBlock, MarkdownBlock
  <2>2. out.blocks \o << x >> = Append(out.blocks, x)
    BY <2>1, ConcatAppend DEF Out
  <2> QED
    BY <1>3, <2>2 DEF WriteItem
<1> QED
  BY <1>1, <1>2, <1>3, ItemShape

(* Flattened sequences have the elements they had.                         *)
LEMMA FlattenTyped ==
  ASSUME NEW E, NEW seqs \in Seq(Seq(E))
  PROVE  FlattenSeq(seqs) \in Seq(E)
<1> DEFINE Good == {s \in Seq(Seq(E)) : FlattenSeq(s) \in Seq(E)}
<1>1. << >> \in Good
  <2>1. << >> \in Seq(E) /\ << >> \in Seq(Seq(E))
    OBVIOUS
  <2> QED
    BY <2>1, FlattenNone
<1>2. ASSUME NEW s \in Seq(Seq(E)), NEW t \in Seq(E), s \in Good
      PROVE  Append(s, t) \in Good
  <2>1. FlattenSeq(Append(s, t)) = FlattenSeq(s) \o t
    BY FlattenAppend
  <2>2. Append(s, t) \in Seq(Seq(E)) /\ FlattenSeq(s) \o t \in Seq(E)
    BY <1>2, AppendProperties, ConcatProperties
  <2> QED
    BY <2>1, <2>2
<1>3. \A s \in Seq(Seq(E)) : s \in Good
  <2> HIDE DEF Good
  <2> QED
    BY <1>1, <1>2, Joining!SequenceInduction
<1> QED
  BY <1>3

(* What is written is Markdown, and a list left open is its last block.     *)
LEMMA WriteItemKeeps ==
  ASSUME NEW out \in Out, OpenList(out), NEW x \in Item
  PROVE  WriteItem(out, x) \in Out /\ OpenList(WriteItem(out, x))
<1>0. out.blocks \in Seq(MarkdownBlock)
  BY DEF Out
<1>1. CASE x.k = "checkbox" /\ ~ out.listOpen
  <2> DEFINE l == TaskList(<< BoxItem(x.level) >>)
  <2>1. << BoxItem(x.level) >> \in Seq(ListItem)
    BY <1>1, ItemShape, TaskListMade
  <2>2. l \in MarkdownBlock
    BY <2>1, TaskListMade
  <2>3. WriteItem(out, x) = [blocks |-> Append(out.blocks, l), listOpen |-> TRUE]
    BY <1>1, WriteBox
  <2>4. WriteItem(out, x).blocks = Append(out.blocks, l)
    BY <2>3
  <2>5. Append(out.blocks, l) \in Seq(MarkdownBlock)
    BY <1>0, <2>2, AppendProperties
  <2>6. WriteItem(out, x) \in Out
    BY <2>3, <2>5 DEF Out
  <2> QED
    BY <1>0, <2>1, <2>4, <2>6 DEF OpenList
<1>2. CASE x.k = "checkbox" /\ out.listOpen
  <2>1. PICK front \in Seq(MarkdownBlock), items \in Seq(ListItem) :
          out.blocks = Append(front, TaskList(items))
    BY <1>2 DEF OpenList
  <2> DEFINE i2 == Append(items, BoxItem(x.level))
  <2>2. i2 \in Seq(ListItem)
    BY <1>2, ItemShape, TaskListMade, AppendProperties
  <2>3. TaskList(i2) \in MarkdownBlock
    BY <2>2, TaskListMade
  <2>4. WriteItem(out, x) = [blocks |-> Append(front, TaskList(i2)), listOpen |-> TRUE]
    BY <1>2, <2>1, WriteBox
  <2> HIDE DEF i2
  <2>5. WriteItem(out, x).blocks = Append(front, TaskList(i2))
    BY <2>4
  <2>6. Append(front, TaskList(i2)) \in Seq(MarkdownBlock)
    BY <2>3, AppendProperties
  <2>7. WriteItem(out, x) \in Out
    BY <2>4, <2>6 DEF Out
  <2> QED
    BY <2>2, <2>5, <2>7 DEF OpenList
<1>3. CASE x.k # "checkbox"
  <2> DEFINE t == IF x.k = "prose" THEN x.text ELSE << x >>
  <2>1. t \in Seq(MarkdownBlock)
    <3>1. CASE x.k = "prose"
      BY <3>1, ItemShape
    <3>2. CASE x.k = "inputs"
      <4>1. x \in MarkdownBlock
        BY <3>2, ItemShape DEF InputBlock, MarkdownBlock
      <4> QED
        BY <3>2, <4>1
    <3>3. CASE x.k = "table"
      <4>1. x \in MarkdownBlock
        BY <3>3, ItemShape DEF Table, MarkdownBlock
      <4> QED
        BY <3>3, <4>1
    <3> QED
      BY <1>3, <3>1, <3>2, <3>3, ItemShape
  <2>2. WriteItem(out, x) = [blocks |-> out.blocks \o t, listOpen |-> FALSE]
    BY <1>3, WriteOther
  <2> HIDE DEF t
  <2>3. out.blocks \o t \in Seq(MarkdownBlock)
    BY <1>0, <2>1, ConcatProperties
  <2> QED
    BY <2>2, <2>3 DEF Out, OpenList
<1> QED
  BY <1>1, <1>2, <1>3

(* The same of whole content.                                              *)
LEMMA ContentWritten ==
  ASSUME NEW content \in Seq(Item)
  PROVE  WriteContent(content) \in Out /\ OpenList(WriteContent(content))
<1> DEFINE Good == {c \in Seq(Item) : WriteContent(c) \in Out /\ OpenList(WriteContent(c))}
<1>1. << >> \in Good
  <2>1. << >> \in Seq(Item) /\ << >> \in Seq(MarkdownBlock)
    OBVIOUS
  <2>2. NothingWritten \in Out /\ OpenList(NothingWritten)
    BY <2>1 DEF NothingWritten, Out, OpenList
  <2> QED
    BY <2>1, <2>2, ContentSteps
<1>2. ASSUME NEW c \in Seq(Item), NEW x \in Item, c \in Good
      PROVE  Append(c, x) \in Good
  <2>1. WriteContent(Append(c, x)) = WriteItem(WriteContent(c), x)
    BY ContentSteps
  <2>2. Append(c, x) \in Seq(Item)
    OBVIOUS
  <2> QED
    BY <1>2, <2>1, <2>2, WriteItemKeeps
<1>3. \A c \in Seq(Item) : c \in Good
  <2> HIDE DEF Good
  <2> QED
    BY <1>1, <1>2, Joining!SequenceInduction
<1> QED
  BY <1>3

(* A step is written as Markdown, at least its heading.                    *)
LEMMA StepWritten ==
  ASSUME NEW step \in Step
  PROVE  WriteStep(step) \in Seq(MarkdownBlock) /\ WriteStep(step) # << >>
<1>1. WriteContent(step.content).blocks \in Seq(MarkdownBlock)
  BY ContentWritten DEF Step, Out
<1> DEFINE head == [k |-> "head", named |-> step.named]
<1>2. << head >> \in Seq(MarkdownBlock) /\ << head >> # << >>
  BY DEF Step, MarkdownBlock
<1> HIDE DEF head
<1>3. << head >> \o WriteContent(step.content).blocks # << >>
  BY <1>1, <1>2, ConcatEqualIffEmpty
<1> QED
  BY <1>1, <1>2, <1>3, ConcatProperties DEF WriteStep, head

(* One step more is written after the others.                               *)
LEMMA WriteStepsAppend ==
  /\ WriteSteps(<< >>) = << >>
  /\ \A steps \in Seq(Step) : WriteSteps(steps) \in Seq(MarkdownBlock)
  /\ \A steps \in Seq(Step), step \in Step :
       WriteSteps(Append(steps, step)) = WriteSteps(steps) \o WriteStep(step)
<1> DEFINE f == [x \in Step |-> WriteStep(x)]
<1>1. Maps(f, Step, Seq(MarkdownBlock))
  BY StepWritten DEF Maps
<1>2. \A x \in Step : f[x] = WriteStep(x)
  OBVIOUS
<1> HIDE DEF f
<1>3. ASSUME NEW s \in Seq(Step)
      PROVE  WriteSteps(s) = FlattenSeq(Mapped(f, s))
  <2>1. \A i \in DOMAIN s : s[i] \in Step
    OBVIOUS
  <2>2. [n \in DOMAIN s |-> WriteStep(s[n])] = [n \in DOMAIN s |-> f[s[n]]]
    BY <1>2, <2>1
  <2> QED
    BY <2>2 DEF WriteSteps, Mapped
<1>4. WriteSteps(<< >>) = << >>
  <2>1. [n \in DOMAIN << >> |-> WriteStep(<< >>[n])] = << >>
    OBVIOUS
  <2> QED
    BY <2>1, FlattenNone DEF WriteSteps
<1>5. ASSUME NEW s \in Seq(Step)
      PROVE  Mapped(f, s) \in Seq(Seq(MarkdownBlock))
  BY <1>1, MappedElements
<1>6. ASSUME NEW s \in Seq(Step), NEW x \in Step
      PROVE  WriteSteps(Append(s, x)) = WriteSteps(s) \o WriteStep(x)
  <2>1. Append(s, x) \in Seq(Step)
    BY AppendProperties
  <2>2. Mapped(f, Append(s, x)) = Append(Mapped(f, s), f[x])
    BY <1>1, MappedAppend
  <2>3. WriteStep(x) \in Seq(MarkdownBlock)
    BY StepWritten
  <2>4. FlattenSeq(Append(Mapped(f, s), WriteStep(x)))
          = FlattenSeq(Mapped(f, s)) \o WriteStep(x)
    BY <1>5, <2>3, FlattenAppend
  <2> QED
    BY <1>2, <1>3, <2>1, <2>2, <2>4
<1>7. ASSUME NEW s \in Seq(Step)
      PROVE  WriteSteps(s) \in Seq(MarkdownBlock)
  BY <1>3, <1>5, FlattenTyped
<1> QED
  BY <1>4, <1>6, <1>7

-----------------------------------------------------------------------------
(* The children of a step of a document.                                    *)

(* The items an item hangs under come before it, in its run.                *)
LEMMA EnclosingBefore ==
  ASSUME NEW c \in Seq(Item), NEW i \in 1..Len(c)
  PROVE  /\ Enclosing(c, i) \subseteq 1..(i - 1)
         /\ IsFiniteSet(Enclosing(c, i)) /\ Cardinality(Enclosing(c, i)) \in Nat
<1>1. Enclosing(c, i) \subseteq 1..(i - 1)
  BY DEF Enclosing
<1>2. IsFiniteSet(1..(i - 1))
  BY FS_Interval
<1> QED
  BY <1>1, <1>2, FS_Subset, FS_CardinalityType

(* The prose of a document: children without an input.                     *)
LEMMA MarkdownChildren ==
  /\ MarkdownChild \subseteq StepChild
  /\ Seq(MarkdownChild) \subseteq Seq(StepChild)
<1>1. MarkdownChild \subseteq StepChild
  BY DEF MarkdownChild
<1> QED
  BY <1>1, SeqMonotonic

LEMMA ProseChildTyped ==
  ASSUME NEW b \in MarkdownBlock
  PROVE  ProseChild(b) \in MarkdownChild
<1>1. CASE b.k = "table"
  <2>1. ProseChild(b) = b /\ b.cells \in Seq(TableCell) /\ b = Table(b.cells)
    BY <1>1, BlockShape DEF ProseChild
  <2>2. b \in StepChild
    BY <2>1 DEF StepChild, Table
  <2> QED
    BY <1>1, <2>1, <2>2 DEF MarkdownChild
<1>2. CASE b.k # "table"
  <2> DEFINE y == [k |-> "text", text |-> << b >>]
  <2>1. ProseChild(b) = y
    BY <1>2 DEF ProseChild
  <2>2. y \in StepChild /\ y.k = "text"
    BY DEF StepChild
  <2> QED
    BY <2>1, <2>2 DEF MarkdownChild
<1> QED
  BY <1>1, <1>2

LEMMA TextChildrenAppend ==
  ASSUME NEW other, Altering(other)
  PROVE  /\ TextChildren(<< >>, other) = << >>
         /\ \A s \in Seq(MarkdownBlock) : TextChildren(s, other) \in Seq(MarkdownChild)
         /\ \A s \in Seq(MarkdownBlock), x \in MarkdownBlock :
              TextChildren(Append(s, x), other)
                = TextChildren(s, other) \o ProseChildren(x, other)
<1> DEFINE f == [x \in MarkdownBlock |-> ProseChildren(x, other)]
<1>0. ASSUME NEW x \in MarkdownBlock
      PROVE  ProseChildren(x, other) \in Seq(MarkdownChild)
  <2>1. ProseChild(x) \in MarkdownChild
    BY ProseChildTyped
  <2>2. << ProseChild(x) >> \in Seq(MarkdownChild)
    BY <2>1
  <2> QED
    BY <2>2 DEF ProseChildren, Altering
<1>1. Maps(f, MarkdownBlock, Seq(MarkdownChild))
  BY <1>0 DEF Maps
<1>2. \A x \in MarkdownBlock : f[x] = ProseChildren(x, other)
  OBVIOUS
<1> HIDE DEF f
<1>3. ASSUME NEW s \in Seq(MarkdownBlock)
      PROVE  TextChildren(s, other) = FlattenSeq(Mapped(f, s))
  <2>1. \A i \in DOMAIN s : s[i] \in MarkdownBlock
    OBVIOUS
  <2>2. [j \in DOMAIN s |-> ProseChildren(s[j], other)] = [j \in DOMAIN s |-> f[s[j]]]
    BY <1>2, <2>1
  <2> QED
    BY <2>2 DEF TextChildren, Mapped
<1>4. TextChildren(<< >>, other) = << >>
  <2>1. [j \in DOMAIN << >> |-> ProseChildren(<< >>[j], other)] = << >>
    OBVIOUS
  <2> QED
    BY <2>1, FlattenNone DEF TextChildren
<1>5. ASSUME NEW s \in Seq(MarkdownBlock)
      PROVE  Mapped(f, s) \in Seq(Seq(MarkdownChild))
  BY <1>1, MappedElements
<1>6. ASSUME NEW s \in Seq(MarkdownBlock), NEW x \in MarkdownBlock
      PROVE  TextChildren(Append(s, x), other)
               = TextChildren(s, other) \o ProseChildren(x, other)
  <2>1. Append(s, x) \in Seq(MarkdownBlock)
    BY AppendProperties
  <2>2. Mapped(f, Append(s, x)) = Append(Mapped(f, s), f[x])
    BY <1>1, MappedAppend
  <2>3. FlattenSeq(Append(Mapped(f, s), ProseChildren(x, other)))
          = FlattenSeq(Mapped(f, s)) \o ProseChildren(x, other)
    BY <1>0, <1>5, FlattenAppend
  <2> QED
    BY <1>2, <1>3, <2>1, <2>2, <2>3
<1>7. ASSUME NEW s \in Seq(MarkdownBlock)
      PROVE  TextChildren(s, other) \in Seq(MarkdownChild)
  BY <1>3, <1>5, FlattenTyped
<1> QED
  BY <1>4, <1>6, <1>7

(* The children of an item are children of a step, and only an item of      *)
(* inputs has inputs among them.                                            *)
LEMMA ItemChildrenTyped ==
  ASSUME NEW other, Altering(other), NEW c \in Seq(Item), NEW i \in 1..Len(c)
  PROVE  /\ ItemChildren(c, i, other) \in Seq(StepChild)
         /\ c[i].k # "inputs" => ItemChildren(c, i, other) \in Seq(MarkdownChild)
<1>0. c[i] \in Item
  BY ElementOfSeq
<1>1. CASE c[i].k = "checkbox"
  <2> DEFINE y == [k |-> "checkListItem", depth |-> Cardinality(Enclosing(c, i))]
  <2>1. y \in StepChild /\ y.k = "checkListItem"
    BY EnclosingBefore DEF StepChild
  <2>2. y \in MarkdownChild
    BY <2>1 DEF MarkdownChild
  <2>3. ItemChildren(c, i, other) = << y >>
    BY <1>1 DEF ItemChildren
  <2> HIDE DEF y
  <2> QED
    BY <2>1, <2>2, <2>3
<1>2. CASE c[i].k = "prose"
  <2>1. c[i].text \in Seq(MarkdownBlock)
    BY <1>0, <1>2, ItemShape
  <2>2. ItemChildren(c, i, other) = TextChildren(c[i].text, other)
    BY <1>2 DEF ItemChildren, TextChildren
  <2>3. TextChildren(c[i].text, other) \in Seq(MarkdownChild)
    BY <2>1, TextChildrenAppend
  <2> QED
    BY <2>2, <2>3, MarkdownChildren
<1>3. CASE c[i].k = "table"
  <2>1. TableMarkdown(c[i]) \in StepChild /\ TableMarkdown(c[i]).k = "table"
    BY <1>0, <1>3, ItemShape DEF TableMarkdown, StepChild
  <2>2. TableMarkdown(c[i]) \in MarkdownChild
    BY <2>1 DEF MarkdownChild
  <2>3. ItemChildren(c, i, other) = << TableMarkdown(c[i]) >>
    BY <1>3 DEF ItemChildren
  <2> QED
    BY <2>1, <2>2, <2>3
<1>4. CASE c[i].k = "inputs"
  <2>1. c[i].defs \in Seq(InputDefinition)
    BY <1>0, <1>4, ItemShape
  <2>2. ItemChildren(c, i, other) = InputChildren(c[i].defs)
    BY <1>4 DEF ItemChildren, InputChildren
  <2> QED
    BY <1>4, <2>1, <2>2, InputChildrenAppend
<1> QED
  BY <1>0, <1>1, <1>2, <1>3, <1>4, ItemShape

(* What an item hangs under depends on the items up to it only.             *)
LEMMA EnclosingPrefix ==
  ASSUME NEW other, NEW c \in Seq(Item), NEW x \in Item, NEW i \in 1..Len(c)
  PROVE  /\ Enclosing(Append(c, x), i) = Enclosing(c, i)
         /\ ItemChildren(Append(c, x), i, other) = ItemChildren(c, i, other)
<1> DEFINE a == Append(c, x)
<1>1. \A l \in 1..i : a[l] = c[l]
  BY AppendProperties
<1> HIDE DEF a
<1>2. Enclosing(a, i) = Enclosing(c, i)
  <2>1. ASSUME NEW j \in 1..(i - 1)
        PROVE  /\ j..i \subseteq 1..i /\ (j + 1)..i \subseteq 1..i /\ j \in 1..i
    BY LenProperties
  <2> QED
    BY <1>1, <2>1 DEF Enclosing
<1>3. a[i] = c[i]
  BY <1>1
<1>4. ItemChildren(a, i, other) = ItemChildren(c, i, other)
  BY <1>2, <1>3 DEF ItemChildren
<1> QED
  BY <1>2, <1>4 DEF a

(* One item more has its children after the others'.                        *)
LEMMA StepChildrenAppend ==
  ASSUME NEW other, Altering(other)
  PROVE  /\ StepChildren(<< >>, other) = << >>
         /\ \A c \in Seq(Item) : StepChildren(c, other) \in Seq(StepChild)
         /\ \A c \in Seq(Item), x \in Item :
              StepChildren(Append(c, x), other)
                = StepChildren(c, other) \o ItemChildren(Append(c, x), Len(c) + 1, other)
<1> DEFINE M(c) == [i \in DOMAIN c |-> ItemChildren(c, i, other)]
<1>1. StepChildren(<< >>, other) = << >>
  <2>1. M(<< >>) = << >>
    OBVIOUS
  <2> QED
    BY <2>1, FlattenNone DEF StepChildren
<1>2. ASSUME NEW c \in Seq(Item)
      PROVE  /\ M(c) \in Seq(Seq(StepChild)) /\ Len(M(c)) = Len(c)
             /\ \A i \in 1..Len(c) : M(c)[i] = ItemChildren(c, i, other)
  <2>1. DOMAIN c = 1..Len(c) /\ Len(c) \in Nat
    BY LenProperties
  <2>2. \A i \in 1..Len(c) : ItemChildren(c, i, other) \in Seq(StepChild)
    BY ItemChildrenTyped
  <2> QED
    BY <2>1, <2>2
<1>3. ASSUME NEW c \in Seq(Item)
      PROVE  StepChildren(c, other) \in Seq(StepChild)
  BY <1>2, FlattenTyped DEF StepChildren
<1>4. ASSUME NEW c \in Seq(Item), NEW x \in Item
      PROVE  StepChildren(Append(c, x), other)
               = StepChildren(c, other) \o ItemChildren(Append(c, x), Len(c) + 1, other)
  <2> DEFINE n == Len(c)
             a == Append(c, x)
             y == ItemChildren(a, n + 1, other)
             b == Append(M(c), y)
  <2>1. n \in Nat /\ a \in Seq(Item) /\ Len(a) = n + 1
    BY AppendProperties, LenProperties
  <2>2. \A i \in 1..n : ItemChildren(a, i, other) = ItemChildren(c, i, other)
    BY EnclosingPrefix
  <2> HIDE DEF a
  <2>3. y \in Seq(StepChild)
    BY <2>1, ItemChildrenTyped
  <2>4. /\ M(a) \in Seq(Seq(StepChild)) /\ Len(M(a)) = n + 1
        /\ \A i \in 1..(n + 1) : M(a)[i] = ItemChildren(a, i, other)
    BY <1>2, <2>1
  <2>5. /\ M(c) \in Seq(Seq(StepChild)) /\ Len(M(c)) = n
        /\ \A i \in 1..n : M(c)[i] = ItemChildren(c, i, other)
    BY <1>2
  <2>9. StepChildren(a, other) = FlattenSeq(M(a)) /\ StepChildren(c, other) = FlattenSeq(M(c))
    BY DEF StepChildren
  <2> HIDE DEF M
  <2>6. /\ b \in Seq(Seq(StepChild)) /\ Len(b) = n + 1 /\ b[n + 1] = y
        /\ \A i \in 1..n : b[i] = M(c)[i]
    BY <2>3, <2>5, AppendProperties
  <2>7. M(a) = b
    <3> HIDE DEF b
    <3>1. ASSUME NEW i \in 1..(n + 1)
          PROVE  M(a)[i] = b[i]
      <4>1. CASE i = n + 1
        BY <2>4, <2>6, <4>1
      <4>2. CASE i # n + 1
        <5>1. i \in 1..n
          BY <2>1, <4>2
        <5> QED
          BY <2>2, <2>4, <2>5, <2>6, <5>1
      <4> QED
        BY <4>1, <4>2
    <3>2. Agree(M(a), b, n + 1)
      BY <3>1 DEF Agree
    <3> QED
      BY <2>4, <2>6, <3>2, SameElements
  <2>8. FlattenSeq(b) = FlattenSeq(M(c)) \o y
    BY <2>3, <2>5, FlattenAppend
  <2> QED
    BY <2>7, <2>8, <2>9 DEF a
<1> QED
  BY <1>1, <1>3, <1>4

(* The content a step has in a file.                                        *)
SourceContent(c) == NormalContent(c) /\ TablesApart(c) /\ NestedBoxes(c)
SourceStep == {s \in Step : SourceContent(s.content)}

(* Another item that is neither prose nor a checkbox.                       *)
LEMMA SourceAppend ==
  ASSUME NEW c \in Seq(Item), SourceContent(c), NEW x \in Item,
         x.k \notin {"checkbox", "prose"}, ItemApart(x)
  PROVE  Append(c, x) \in Seq(Item) /\ SourceContent(Append(c, x))
<1> DEFINE n == Len(c)
           d == Append(c, x)
<1>1. /\ n \in Nat /\ d \in Seq(Item) /\ Len(d) = n + 1 /\ d[n + 1] = x
      /\ \A i \in 1..n : d[i] = c[i]
  BY AppendProperties, LenProperties
<1>2. NormalContent(d)
  BY NormalAppend DEF SourceContent
<1> HIDE DEF d
<1>3. TablesApart(d)
  BY <1>1 DEF TablesApart, SourceContent
<1>4. ASSUME NEW i \in 1..Len(d), d[i].k = "checkbox"
      PROVE  \/ d[i].level = 0
             \/ /\ i > 1 /\ d[i - 1].k = "checkbox" /\ d[i].level <= d[i - 1].level + 1
  <2>1. i \in 1..n /\ d[i] = c[i]
    BY <1>1, <1>4
  <2>2. i > 1 => d[i - 1] = c[i - 1]
    <3>1. i > 1 => i - 1 \in 1..n
      BY <1>1, <2>1
    <3> QED
      BY <1>1, <3>1
  <2> QED
    BY <1>4, <2>1, <2>2 DEF SourceContent, NestedBoxes
<1> QED
  BY <1>1, <1>2, <1>3, <1>4 DEF SourceContent, NestedBoxes, d

(* More prose without a table to fill in.                                   *)
LEMMA SourceProse ==
  ASSUME NEW c \in Seq(Item), SourceContent(c), NEW t \in Seq(MarkdownBlock), TextApart(t)
  PROVE  WithProse(c, t) \in Seq(Item) /\ SourceContent(WithProse(c, t))
<1> DEFINE n == Len(c)
<1>0. WithProse(c, t) \in Seq(Item) /\ NormalContent(WithProse(c, t))
  BY WithProseKeeps DEF SourceContent
<1>1. CASE t = << >>
  BY <1>1, WithProseDoes
<1>2. CASE t # << >> /\ (c = << >> \/ c[n].k # "prose")
  <2> DEFINE d == Append(c, Prose(t))
  <2>1. Prose(t) \in Item /\ Prose(t).k = "prose" /\ Prose(t).text = t
    BY ItemMade DEF Prose
  <2>2. WithProse(c, t) = d
    BY <1>2, WithProseDoes
  <2>3. /\ n \in Nat /\ d \in Seq(Item) /\ Len(d) = n + 1 /\ d[n + 1] = Prose(t)
        /\ \A i \in 1..n : d[i] = c[i]
    BY <2>1, AppendProperties, LenProperties
  <2> HIDE DEF d
  <2>4. TablesApart(d)
    BY <2>1, <2>3 DEF TablesApart, SourceContent, ItemApart
  <2>5. ASSUME NEW i \in 1..Len(d), d[i].k = "checkbox"
        PROVE  \/ d[i].level = 0
               \/ /\ i > 1 /\ d[i - 1].k = "checkbox" /\ d[i].level <= d[i - 1].level + 1
    <3>1. i \in 1..n /\ d[i] = c[i]
      BY <2>1, <2>3, <2>5
    <3>2. i > 1 => d[i - 1] = c[i - 1]
      <4>1. i > 1 => i - 1 \in 1..n
        BY <2>3, <3>1
      <4> QED
        BY <2>3, <4>1
    <3> QED
      BY <2>5, <3>1, <3>2 DEF SourceContent, NestedBoxes
  <2> QED
    BY <1>0, <2>2, <2>4, <2>5 DEF SourceContent, NestedBoxes
<1>3. CASE t # << >> /\ c # << >> /\ c[n].k = "prose"
  <2> DEFINE p == Prose(c[n].text \o t)
             d == [c EXCEPT ![n] = p]
  <2>1. n \in 1..n /\ c[n] \in Item /\ n \in Nat
    BY <1>3, EmptySeq, ElementOfSeq
  <2>2. c[n].text \in Seq(MarkdownBlock)
    BY <1>3, <2>1, ItemShape
  <2>3. p \in Item /\ p.k = "prose" /\ p.text = c[n].text \o t
    <3>1. c[n].text \o t \in Seq(MarkdownBlock)
      BY <2>2, ConcatProperties
    <3> QED
      BY <3>1, ItemMade DEF Prose
  <2>4. TextApart(p.text)
    <3> DEFINE s == c[n].text
               u == s \o t
    <3>1. TextApart(s)
      BY <1>3, <2>1 DEF SourceContent, TablesApart, ItemApart
    <3>2. /\ Len(u) = Len(s) + Len(t) /\ Len(s) \in Nat /\ Len(t) \in Nat
          /\ \A i \in 1..(Len(s) + Len(t)) : u[i] = IF i <= Len(s) THEN s[i] ELSE t[i - Len(s)]
      BY <2>2, ConcatProperties, LenProperties
    <3> HIDE DEF s, u
    <3>3. ASSUME NEW i \in 1..Len(u), u[i].k = "table"
          PROVE  ~ Fillable(u[i].cells)
      <4>1. CASE i <= Len(s)
        <5>1. i \in 1..Len(s) /\ u[i] = s[i]
          BY <3>2, <4>1
        <5> QED
          BY <3>1, <3>3, <5>1 DEF TextApart
      <4>2. CASE i > Len(s)
        <5>1. i - Len(s) \in 1..Len(t) /\ u[i] = t[i - Len(s)]
          BY <3>2, <4>2
        <5> QED
          BY <3>3, <5>1 DEF TextApart
      <4> QED
        BY <3>2, <4>1, <4>2
    <3>4. TextApart(u)
      BY <3>3 DEF TextApart
    <3> QED
      BY <2>3, <3>4 DEF s, u
  <2>5. WithProse(c, t) = d
    BY <1>3, WithProseDoes
  <2> HIDE DEF p
  <2>6. /\ d \in Seq(Item) /\ Len(d) = n /\ \A i \in 1..n : d[i] = IF i = n THEN p ELSE c[i]
    BY <2>1, <2>3, ExceptSeq
  <2> HIDE DEF d
  <2>7. TablesApart(d)
    <3>1. ItemApart(p)
      BY <2>3, <2>4 DEF ItemApart
    <3> QED
      BY <2>6, <3>1 DEF TablesApart, SourceContent
  <2>8. ASSUME NEW i \in 1..Len(d), d[i].k = "checkbox"
        PROVE  \/ d[i].level = 0
               \/ /\ i > 1 /\ d[i - 1].k = "checkbox" /\ d[i].level <= d[i - 1].level + 1
    <3>1. i \in 1..n /\ i # n /\ d[i] = c[i]
      BY <2>3, <2>6, <2>8
    <3>2. i > 1 => d[i - 1] = c[i - 1]
      <4>1. i > 1 => i - 1 \in 1..n /\ i - 1 # n
        BY <2>1, <3>1
      <4> QED
        BY <2>6, <4>1
    <3> QED
      BY <2>8, <3>1, <3>2 DEF SourceContent, NestedBoxes
  <2> QED
    BY <1>0, <2>5, <2>7, <2>8 DEF SourceContent, NestedBoxes
<1> QED
  BY <1>1, <1>2, <1>3

(* A checklist more.                                                        *)
LEMMA SourceBoxes ==
  ASSUME NEW c \in Seq(Item), SourceContent(c), NEW items \in Seq(ListItem), NestedItems(items)
  PROVE  c \o Boxes(items) \in Seq(Item) /\ SourceContent(c \o Boxes(items))
<1> DEFINE n == Len(c)
           m == Len(items)
           x == Boxes(items)
           d == c \o x
<1>1. x \in Seq(Item) /\ Len(x) = m /\ n \in Nat /\ m \in Nat
  BY BoxesAppend, LenProperties
<1>2. \A i \in 1..m : x[i] = Checkbox(items[i].level)
  BY LenProperties DEF Boxes
<1> HIDE DEF x
<1>3. \A i \in 1..m : x[i].k = "checkbox" /\ x[i].level = items[i].level
  <2>1. \A l : Checkbox(l).k = "checkbox" /\ Checkbox(l).level = l
    BY DEF Checkbox
  <2> QED
    BY <1>2, <2>1
<1>4. /\ d \in Seq(Item) /\ Len(d) = n + m
      /\ \A i \in 1..(n + m) : d[i] = IF i <= n THEN c[i] ELSE x[i - n]
  <2>1. /\ d \in Seq(Item) /\ Len(d) = n + Len(x)
        /\ \A i \in 1..(n + Len(x)) : d[i] = IF i <= n THEN c[i] ELSE x[i - n]
    BY <1>1, ConcatProperties
  <2> QED
    BY <1>1, <2>1
<1> HIDE DEF d
<1>5. ASSUME NEW i \in 1..(n + m), i <= n
      PROVE  i \in 1..n /\ d[i] = c[i] /\ (i > 1 => d[i - 1] = c[i - 1])
  <2>1. i \in 1..n /\ (i > 1 => i - 1 \in 1..(n + m) /\ i - 1 <= n)
    BY <1>1, <1>5
  <2> QED
    BY <1>4, <1>5, <2>1
<1>6. ASSUME NEW i \in 1..(n + m), i > n
      PROVE  i - n \in 1..m /\ d[i].k = "checkbox" /\ d[i].level = items[i - n].level
  <2>1. i - n \in 1..m /\ d[i] = x[i - n]
    BY <1>1, <1>4, <1>6
  <2> QED
    BY <1>3, <2>1
<1>7. NormalContent(d)
  <2>1. ASSUME NEW i \in 1..(n + m), d[i].k = "prose"
        PROVE  d[i].text # << >> /\ (i > 1 => d[i - 1].k # "prose")
    <3>1. i <= n
      BY <1>1, <1>6, <2>1
    <3> QED
      BY <1>5, <2>1, <3>1 DEF SourceContent, NormalContent
  <2> QED
    BY <1>4, <2>1 DEF NormalContent
<1>8. TablesApart(d)
  <2>1. ASSUME NEW i \in 1..(n + m)
        PROVE  ItemApart(d[i])
    <3>1. CASE i <= n
      BY <1>5, <3>1 DEF SourceContent, TablesApart
    <3>2. CASE i > n
      BY <1>6, <3>2 DEF ItemApart
    <3> QED
      BY <1>1, <3>1, <3>2
  <2> QED
    BY <1>4, <2>1 DEF TablesApart
<1>9. NestedBoxes(d)
  <2>1. ASSUME NEW i \in 1..(n + m), d[i].k = "checkbox"
        PROVE  \/ d[i].level = 0
               \/ /\ i > 1 /\ d[i - 1].k = "checkbox" /\ d[i].level <= d[i - 1].level + 1
    <3>1. CASE i <= n
      BY <1>5, <2>1, <3>1 DEF SourceContent, NestedBoxes
    <3>2. CASE i = n + 1
      <4>1. i - n = 1 /\ i > n
        BY <1>1, <3>2
      <4> QED
        BY <1>6, <4>1 DEF NestedItems
    <3>3. CASE i > n + 1
      <4>1. /\ i - n \in 2..m /\ i - 1 \in 1..(n + m) /\ i - 1 > n /\ i > n /\ i > 1
            /\ (i - 1) - n = (i - n) - 1
        BY <1>1, <3>3
      <4>2. /\ d[i - 1].k = "checkbox" /\ d[i - 1].level = items[(i - n) - 1].level
            /\ d[i].level = items[i - n].level
        BY <1>6, <4>1
      <4>3. items[i - n].level <= items[(i - n) - 1].level + 1
        BY <4>1 DEF NestedItems
      <4> QED
        BY <4>1, <4>2, <4>3
    <3> QED
      BY <1>1, <3>1, <3>2, <3>3
  <2> QED
    BY <1>4, <2>1 DEF NestedBoxes
<1> QED
  BY <1>4, <1>7, <1>8, <1>9 DEF SourceContent, d, x

(* What a block of a step adds to its content.                              *)
LEMMA ReadBlockCases ==
  ASSUME NEW c \in Seq(Item), NEW b \in SourceBlock
  PROVE  /\ PureTaskList(b) =>
              b.items \in Seq(ListItem) /\ ReadBlock(c, b) = c \o Boxes(b.items)
         /\ b.k = "inputs" => ReadBlock(c, b) = Append(c, b)
         /\ b.k = "table" /\ Fillable(b.cells) => ReadBlock(c, b) = Append(c, b)
         /\ ~ PureTaskList(b) /\ b.k # "inputs" /\ ~ (b.k = "table" /\ Fillable(b.cells)) =>
              ReadBlock(c, b) = WithProse(c, << b >>)
<1>0. b \in MarkdownBlock
  BY DEF SourceBlock
<1>1. ASSUME PureTaskList(b)
      PROVE  b.items \in Seq(ListItem) /\ ReadBlock(c, b) = c \o Boxes(b.items)
  <2>1. b.k = "list"
    BY <1>1 DEF PureTaskList
  <2>2. b.items \in Seq(ListItem)
    BY <1>0, <2>1, BlockShape DEF ListItem
  <2>3. ReadBlock(c, b) = c \o Boxes(b.items)
    BY <1>1, <2>1 DEF ReadBlock, Boxes
  <2> QED
    BY <2>2, <2>3
<1>2. ASSUME b.k = "inputs"
      PROVE  ReadBlock(c, b) = Append(c, b)
  BY <1>0, <1>2, BlockShape DEF ReadBlock, PureTaskList
<1>3. ASSUME b.k = "table", Fillable(b.cells)
      PROVE  ReadBlock(c, b) = Append(c, b)
  BY <1>0, <1>3, BlockShape DEF ReadBlock, PureTaskList
<1>4. ASSUME ~ PureTaskList(b), b.k # "inputs", ~ (b.k = "table" /\ Fillable(b.cells))
      PROVE  ReadBlock(c, b) = WithProse(c, << b >>)
  BY <1>4 DEF ReadBlock
<1> QED
  BY <1>1, <1>2, <1>3, <1>4

(* A block more leaves the content one a file can have.                    *)
LEMMA ReadBlockKeeps ==
  ASSUME NEW c \in Seq(Item), SourceContent(c), NEW b \in SourceBlock
  PROVE  ReadBlock(c, b) \in Seq(Item) /\ SourceContent(ReadBlock(c, b))
<1>0. b \in MarkdownBlock /\ (b.k = "list" => NestedItems(b.items))
  BY DEF SourceBlock
<1>1. CASE PureTaskList(b)
  <2>1. NestedItems(b.items)
    BY <1>0, <1>1 DEF PureTaskList
  <2> QED
    BY <1>1, <2>1, ReadBlockCases, SourceBoxes
<1>2. CASE b.k = "inputs"
  <2>1. b \in Item /\ ItemApart(b)
    BY <1>0, <1>2, BlockShape, ItemMade DEF ItemApart
  <2> QED
    BY <1>2, <2>1, ReadBlockCases, SourceAppend
<1>3. CASE b.k = "table" /\ Fillable(b.cells)
  <2>1. b \in Item /\ ItemApart(b)
    BY <1>0, <1>3, BlockShape, ItemMade DEF ItemApart
  <2> QED
    BY <1>3, <2>1, ReadBlockCases, SourceAppend
<1>4. CASE ~ PureTaskList(b) /\ b.k # "inputs" /\ ~ (b.k = "table" /\ Fillable(b.cells))
  <2>1. << b >> \in Seq(MarkdownBlock) /\ TextApart(<< b >>)
    BY <1>0, <1>4 DEF TextApart
  <2> QED
    BY <1>4, <2>1, ReadBlockCases, SourceProse
<1> QED
  BY <1>1, <1>2, <1>3, <1>4

(* A block read into the last of the steps.                                 *)
LEMMA ReadBodyLast ==
  ASSUME NEW front \in Seq(Step), NEW s \in Step, NEW b \in SourceBlock,
         ReadBlock(s.content, b) \in Seq(Item)
  PROVE  /\ [s EXCEPT !.content = ReadBlock(@, b)] \in Step
         /\ [s EXCEPT !.content = ReadBlock(@, b)].content = ReadBlock(s.content, b)
         /\ [s EXCEPT !.content = ReadBlock(@, b)].named = s.named
         /\ b.k # "head" => ReadBody(Append(front, s), b)
              = Append(front, [s EXCEPT !.content = ReadBlock(@, b)])
<1> DEFINE y == [s EXCEPT !.content = ReadBlock(@, b)]
           a == Append(front, s)
<1>1. y \in Step /\ y.content = ReadBlock(s.content, b) /\ y.named = s.named
  BY DEF Step
<1> HIDE DEF y, a
<1>2. a # << >> /\ a[Len(a)] = s /\ [a EXCEPT ![Len(a)] = y] = Append(front, y)
  BY <1>1, LastReplaced DEF a
<1>3. b.k # "head" => ReadBody(a, b) = [a EXCEPT ![Len(a)].content = ReadBlock(@, b)]
  BY <1>2 DEF ReadBody
<1>4. [a EXCEPT ![Len(a)].content = ReadBlock(@, b)] = [a EXCEPT ![Len(a)] = y]
  BY <1>2 DEF y
<1> QED
  BY <1>1, <1>2, <1>3, <1>4 DEF a, y

(* The steps of a body.                                                     *)
LEMMA BodyRead ==
  ASSUME NEW blocks \in Seq(SourceBlock)
  PROVE  StepsOf(blocks) \in Seq(SourceStep)
<1> DEFINE Good == {t \in Seq(SourceBlock) : StepsOf(t) \in Seq(SourceStep)}
<1>1. << >> \in Good
  <2>1. << >> \in Seq(SourceStep) /\ << >> \in Seq(SourceBlock)
    OBVIOUS
  <2> QED
    BY <2>1, BodySteps
<1>2. ASSUME NEW t \in Seq(SourceBlock), NEW b \in SourceBlock, t \in Good
      PROVE  Append(t, b) \in Good
  <2> DEFINE steps == StepsOf(t)
  <2>1. StepsOf(Append(t, b)) = ReadBody(steps, b) /\ Append(t, b) \in Seq(SourceBlock)
    BY BodySteps
  <2>2. steps \in Seq(SourceStep)
    BY <1>2
  <2> HIDE DEF steps
  <2>3. CASE b.k = "head"
    <3> DEFINE s == [named |-> b.named, content |-> << >>]
    <3>1. s \in SourceStep
      <4>1. b.named \in BOOLEAN
        BY <2>3, BlockShape DEF SourceBlock
      <4>2. SourceContent(<< >>)
        BY DEF SourceContent, NormalContent, TablesApart, NestedBoxes
      <4>3. << >> \in Seq(Item)
        OBVIOUS
      <4> QED
        BY <4>1, <4>2, <4>3 DEF SourceStep, Step
    <3>2. ReadBody(steps, b) = Append(steps, s)
      BY <2>3 DEF ReadBody
    <3> HIDE DEF s
    <3>3. Append(steps, s) \in Seq(SourceStep)
      BY <2>2, <3>1, AppendProperties
    <3> QED
      BY <2>1, <3>2, <3>3
  <2>4. CASE b.k # "head" /\ steps = << >>
    <3>1. ReadBody(steps, b) = steps
      BY <2>4 DEF ReadBody
    <3> QED
      BY <2>1, <2>2, <3>1
  <2>5. CASE b.k # "head" /\ steps # << >>
    <3>1. PICK front \in Seq(SourceStep), s \in SourceStep : steps = Append(front, s)
      BY <2>2, <2>5, SequenceEmptyOrAppend
    <3>2. s \in Step /\ s.content \in Seq(Item) /\ SourceContent(s.content)
      BY DEF SourceStep, Step
    <3>3. ReadBlock(s.content, b) \in Seq(Item) /\ SourceContent(ReadBlock(s.content, b))
      BY <3>2, ReadBlockKeeps
    <3> DEFINE y == [s EXCEPT !.content = ReadBlock(@, b)]
    <3>4. front \in Seq(Step)
      BY SeqMonotonic DEF SourceStep
    <3>5. /\ y \in Step /\ y.content = ReadBlock(s.content, b)
          /\ ReadBody(Append(front, s), b) = Append(front, y)
      BY <2>5, <3>2, <3>3, <3>4, ReadBodyLast
    <3> HIDE DEF y
    <3>6. y \in SourceStep
      BY <3>3, <3>5 DEF SourceStep
    <3>7. Append(front, y) \in Seq(SourceStep)
      BY <3>6, AppendProperties
    <3> QED
      BY <2>1, <3>1, <3>5, <3>7
  <2> QED
    BY <2>3, <2>4, <2>5
<1>3. \A t \in Seq(SourceBlock) : t \in Good
  <2> HIDE DEF Good
  <2> QED
    BY <1>1, <1>2, Joining!SequenceInduction
<1> QED
  BY <1>3

(* A checkbox of level n hangs under one of each level below n.             *)
LEMMA AncestorLevels ==
  ASSUME NEW c \in Seq(Item), NestedBoxes(c)
  PROVE  \A i \in Nat : i \in 1..Len(c) /\ c[i].k = "checkbox" =>
           \A v \in 0..(c[i].level - 1) : \E j \in Enclosing(c, i) : c[j].level = v
<1> DEFINE Has(i) == i \in 1..Len(c) /\ c[i].k = "checkbox" =>
             \A v \in 0..(c[i].level - 1) : \E j \in Enclosing(c, i) : c[j].level = v
           Numbers == {i \in Nat : Has(i)}
<1>1. 0 \in Numbers
  OBVIOUS
<1>2. ASSUME NEW i \in Nat, i \in Numbers
      PROVE  i + 1 \in Numbers
  <2> DEFINE k == i + 1
  <2> SUFFICES ASSUME k \in 1..Len(c), c[k].k = "checkbox", NEW v \in 0..(c[k].level - 1)
               PROVE  \E j \in Enclosing(c, k) : c[j].level = v
    OBVIOUS
  <2>1. c[k].level \in Nat /\ v \in Nat /\ v < c[k].level
    BY ElementOfSeq, ItemShape
  <2>2. k > 1 /\ c[k - 1].k = "checkbox" /\ c[k].level <= c[k - 1].level + 1
    BY <2>1 DEF NestedBoxes
  <2>3. i \in 1..Len(c) /\ k - 1 = i
    BY <2>2
  <2>4. c[i].k = "checkbox" /\ c[k].level <= c[i].level + 1
    BY <2>2, <2>3
  <2>5. c[i].level \in Nat
    BY <2>3, <2>4, ElementOfSeq, ItemShape
  <2>6. ASSUME NEW j \in Enclosing(c, i), c[j].level < c[k].level
        PROVE  j \in Enclosing(c, k)
    <3>1. /\ j \in 1..(i - 1) /\ \A l \in j..i : c[l].k = "checkbox"
          /\ \A l \in (j + 1)..i : c[j].level < c[l].level
      BY DEF Enclosing
    <3>2. j \in 1..(k - 1)
      BY <3>1
    <3>3. \A l \in j..k : l \in j..i \/ l = k
      BY <3>1
    <3>4. \A l \in (j + 1)..k : l \in (j + 1)..i \/ l = k
      BY <3>1
    <3> QED
      BY <2>6, <3>1, <3>2, <3>3, <3>4 DEF Enclosing
  <2>7. CASE v = c[i].level
    <3>1. i \in 1..(k - 1) /\ \A l \in i..k : l = i \/ l = k
      BY <2>3
    <3>2. \A l \in (i + 1)..k : l = k
      OBVIOUS
    <3>3. i \in Enclosing(c, k)
      BY <2>1, <2>4, <2>7, <3>1, <3>2 DEF Enclosing
    <3> QED
      BY <2>7, <3>3
  <2>8. CASE v # c[i].level
    <3>1. v \in 0..(c[i].level - 1)
      BY <2>1, <2>4, <2>5, <2>8
    <3>2. PICK j \in Enclosing(c, i) : c[j].level = v
      BY <1>2, <2>3, <2>4, <3>1
    <3>3. j \in Enclosing(c, k)
      BY <2>1, <2>6, <3>2
    <3> QED
      BY <3>2, <3>3
  <2> QED
    BY <2>7, <2>8
<1>3. \A i \in Nat : i \in Numbers
  <2> HIDE DEF Numbers
  <2> QED
    BY <1>1, <1>2, Joining!NumberInduction
<1> QED
  BY <1>3

(* The depth of an item in a document is the level it has in the file.      *)
LEMMA DepthIsLevel ==
  ASSUME NEW c \in Seq(Item), NestedBoxes(c), NEW i \in 1..Len(c), c[i].k = "checkbox"
  PROVE  Cardinality(Enclosing(c, i)) = c[i].level
<1> DEFINE n == c[i].level
           S == Enclosing(c, i)
           f == [v \in 1..n |-> CHOOSE j \in S : c[j].level = v - 1]
<1>1. n \in Nat /\ i \in Nat
  BY ElementOfSeq, ItemShape
<1>2. ASSUME NEW j \in S
      PROVE  /\ j \in 1..(i - 1) /\ c[j].k = "checkbox" /\ c[j].level \in Nat
             /\ c[j].level < n /\ \A l \in (j + 1)..i : c[j].level < c[l].level
  <2>1. /\ j \in 1..(i - 1) /\ \A l \in j..i : c[l].k = "checkbox"
        /\ \A l \in (j + 1)..i : c[j].level < c[l].level
    BY DEF Enclosing
  <2>2. j \in j..i /\ i \in (j + 1)..i /\ j \in 1..Len(c)
    BY <2>1, LenProperties
  <2>3. c[j].k = "checkbox" /\ c[j].level < n
    BY <2>1, <2>2
  <2>4. c[j].level \in Nat
    BY <2>2, <2>3, ElementOfSeq, ItemShape
  <2> QED
    BY <2>1, <2>3, <2>4
<1>3. ASSUME NEW j \in S, NEW m \in S, c[j].level = c[m].level
      PROVE  j = m
  <2>1. j \in 1..(i - 1) /\ m \in 1..(i - 1) /\ c[j].level \in Nat
    BY <1>2
  <2>2. CASE j < m
    <3>1. m \in (j + 1)..i
      BY <2>1, <2>2
    <3>2. c[j].level < c[m].level
      BY <1>2, <3>1
    <3> QED
      BY <1>3, <2>1, <3>2
  <2>3. CASE m < j
    <3>1. j \in (m + 1)..i
      BY <2>1, <2>3
    <3>2. c[m].level < c[j].level
      BY <1>2, <3>1
    <3> QED
      BY <1>3, <2>1, <3>2
  <2> QED
    BY <2>1, <2>2, <2>3
<1>4. ASSUME NEW v \in 1..n
      PROVE  f[v] \in S /\ c[f[v]].level = v - 1
  <2>1. v - 1 \in 0..(n - 1)
    BY <1>1
  <2>2. \E j \in S : c[j].level = v - 1
    BY <1>1, <2>1, AncestorLevels
  <2> QED
    BY <2>2
<1> HIDE DEF S
<1>5. f \in [1..n -> S]
  BY <1>4
<1> HIDE DEF f
<1>6. \A v, w \in 1..n : f[v] = f[w] => v = w
  <2> SUFFICES ASSUME NEW v \in 1..n, NEW w \in 1..n, f[v] = f[w]
               PROVE  v = w
    OBVIOUS
  <2>1. v - 1 = w - 1
    BY <1>4
  <2> QED
    BY <1>1, <2>1
<1>7. \A j \in S : \E v \in 1..n : f[v] = j
  <2> SUFFICES ASSUME NEW j \in S
               PROVE  \E v \in 1..n : f[v] = j
    OBVIOUS
  <2>1. c[j].level + 1 \in 1..n /\ (c[j].level + 1) - 1 = c[j].level
    BY <1>1, <1>2
  <2>2. f[c[j].level + 1] = j
    BY <1>3, <1>4, <2>1
  <2> QED
    BY <2>1, <2>2
<1>8. ExistsBijection(1..n, S)
  <2>1. f \in Bijection(1..n, S)
    BY <1>5, <1>6, <1>7 DEF Bijection, Injection, IsInjective, Surjection
  <2> QED
    BY <2>1 DEF ExistsBijection
<1> QED
  BY <1>1, <1>8, FS_CountingElements DEF S

-----------------------------------------------------------------------------
(* Prose after prose, at the end of the content.                            *)
LEMMA WithProseLast ==
  ASSUME NEW front \in Seq(Item), NEW p \in Item, p.k = "prose",
         NEW t \in Seq(MarkdownBlock), t # << >>
  PROVE  /\ p.text \o t \in Seq(MarkdownBlock) /\ p.text \o t # << >>
         /\ Prose(p.text \o t) \in Item
         /\ WithProse(Append(front, p), t) = Append(front, Prose(p.text \o t))
<1> DEFINE a == Append(front, p)
           q == Prose(p.text \o t)
<1>1. p.text \in Seq(MarkdownBlock)
  BY ItemShape
<1>2. p.text \o t \in Seq(MarkdownBlock) /\ p.text \o t # << >>
  BY <1>1, ConcatProperties, ConcatEqualIffEmpty
<1>3. q \in Item
  BY <1>2, ItemMade
<1> HIDE DEF q
<1>4. a \in Seq(Item) /\ a # << >> /\ a[Len(a)] = p /\ [a EXCEPT ![Len(a)] = q] = Append(front, q)
  BY <1>3, LastReplaced, AppendProperties
<1> HIDE DEF a
<1>5. WithProse(a, t) = [a EXCEPT ![Len(a)] = Prose(a[Len(a)].text \o t)]
  BY <1>4, WithProseDoes
<1>6. WithProse(a, t) = [a EXCEPT ![Len(a)] = q]
  BY <1>4, <1>5 DEF q
<1> QED
  BY <1>2, <1>3, <1>4, <1>6 DEF a, q

(* Prose in two portions is prose.                                         *)
LEMMA WithProseTwice ==
  ASSUME NEW c \in Seq(Item), NEW t \in Seq(MarkdownBlock), NEW u \in Seq(MarkdownBlock)
  PROVE  WithProse(WithProse(c, t), u) = WithProse(c, t \o u)
<1>1. t \o u \in Seq(MarkdownBlock)
  BY ConcatProperties
<1>2. CASE t = << >>
  BY <1>2, WithProseDoes, ConcatEmptySeq
<1>3. CASE u = << >>
  <2>1. \A d : WithProse(d, << >>) = d
    BY DEF WithProse
  <2> QED
    BY <1>3, <2>1, ConcatEmptySeq
<1>4. CASE t # << >> /\ u # << >> /\ (c = << >> \/ c[Len(c)].k # "prose")
  <2>1. t \o u # << >>
    BY <1>4, ConcatEqualIffEmpty
  <2>2. WithProse(c, t) = Append(c, Prose(t)) /\ WithProse(c, t \o u) = Append(c, Prose(t \o u))
    BY <1>1, <1>4, <2>1, WithProseDoes
  <2>3. Prose(t) \in Item /\ Prose(t).k = "prose" /\ Prose(t).text = t
    BY ItemMade DEF Prose
  <2> QED
    BY <1>4, <2>2, <2>3, WithProseLast
<1>5. CASE t # << >> /\ u # << >> /\ c # << >> /\ c[Len(c)].k = "prose"
  <2>1. PICK front \in Seq(Item), p \in Item : c = Append(front, p)
    BY <1>5, SequenceEmptyOrAppend
  <2>2. p.k = "prose"
    BY <1>5, <2>1, LastReplaced
  <2> DEFINE q == Prose(p.text \o t)
  <2>3. /\ p.text \o t \in Seq(MarkdownBlock) /\ q \in Item
        /\ WithProse(c, t) = Append(front, q)
    BY <1>5, <2>1, <2>2, WithProseLast
  <2>4. q.k = "prose" /\ q.text = p.text \o t
    BY DEF Prose
  <2> HIDE DEF q
  <2>5. WithProse(Append(front, q), u) = Append(front, Prose((p.text \o t) \o u))
    <3>1. WithProse(Append(front, q), u) = Append(front, Prose(q.text \o u))
      BY <1>5, <2>3, <2>4, WithProseLast
    <3> QED
      BY <2>4, <3>1
  <2>6. t \o u # << >>
    BY <1>5, ConcatEqualIffEmpty
  <2>7. WithProse(c, t \o u) = Append(front, Prose(p.text \o (t \o u)))
    BY <1>1, <2>1, <2>2, <2>6, WithProseLast
  <2>8. (p.text \o t) \o u = p.text \o (t \o u)
    <3>1. PICK x \in Seq(MarkdownBlock) : x = p.text
      BY <2>2, ItemShape
    <3>2. (x \o t) \o u = x \o (t \o u)
      BY ConcatAssociative
    <3> QED
      BY <3>1, <3>2
  <2> QED
    BY <2>3, <2>5, <2>7, <2>8
<1> QED
  BY <1>2, <1>3, <1>4, <1>5

-----------------------------------------------------------------------------
(* Reading what was made of one item, after the children s of content c.    *)

(* Inputs one after the other become one block.                            *)
LEMMA ReadInputs ==
  ASSUME NEW s \in Seq(StepChild), NEW c \in Seq(Item), ReadChildren(s) = c,
         c = << >> \/ c[Len(c)].k # "inputs",
         NEW defs \in Seq(InputDefinition), defs # << >>
  PROVE  ReadChildren(s \o InputChildren(defs)) = Append(c, InputBlock(defs))
<1> DEFINE Good == {d \in Seq(InputDefinition) :
             d # << >> => ReadChildren(s \o InputChildren(d)) = Append(c, InputBlock(d))}
<1>1. << >> \in Good
  OBVIOUS
<1>2. ASSUME NEW d \in Seq(InputDefinition), NEW x \in InputDefinition, d \in Good
      PROVE  Append(d, x) \in Good
  <2> DEFINE y == InputChild(x)
  <2>1. y \in StepChild /\ InputChildren(d) \in Seq(StepChild)
    BY InputChildrenAppend DEF InputChild, StepChild
  <2>2. y.k = "procnoteInput" /\ y.def = x
    BY DEF InputChild
  <2> HIDE DEF y
  <2>3. s \o InputChildren(Append(d, x)) = Append(s \o InputChildren(d), y)
    <3>1. InputChildren(Append(d, x)) = Append(InputChildren(d), y)
      BY InputChildrenAppend DEF y
    <3>2. s \o Append(InputChildren(d), y) = Append(s \o InputChildren(d), y)
      BY <2>1, ChildAfter, Zenon
    <3> QED
      BY <3>1, <3>2
  <2>4. s \o InputChildren(d) \in Seq(StepChild)
    BY <2>1, ConcatProperties
  <2>5. ReadChildren(s \o InputChildren(Append(d, x)))
          = ReadChild(ReadChildren(s \o InputChildren(d)), y)
    BY <2>1, <2>3, <2>4, ChildSteps
  <2>6. \A a : ReadChild(a, y) = IF a # << >> /\ Last(a).k = "inputs"
                                   THEN [a EXCEPT ![Len(a)].defs = Append(@, x)]
                                   ELSE Append(a, InputBlock(<< x >>))
    BY <2>2 DEF ReadChild, IsTableItem
  <2>7. CASE d = << >>
    <3>1. s \o InputChildren(d) = s
      BY <2>7, InputChildrenAppend, ConcatEmptySeq
    <3>2. ReadChild(c, y) = Append(c, InputBlock(<< x >>))
      BY <2>6 DEF Last
    <3>3. Append(d, x) = << x >>
      BY <2>7
    <3>4. ReadChildren(s \o InputChildren(Append(d, x))) = Append(c, InputBlock(Append(d, x)))
      BY <2>5, <3>1, <3>2, <3>3
    <3> QED
      BY <3>4, AppendProperties
  <2>8. CASE d # << >>
    <3> DEFINE l == InputBlock(d)
               l2 == InputBlock(Append(d, x))
               a == Append(c, l)
    <3>1. l \in Item /\ l2 \in Item
      BY ItemMade, AppendProperties
    <3>2. l.k = "inputs" /\ [l EXCEPT !.defs = Append(@, x)] = l2
      <4>1. \A w : [InputBlock(d) EXCEPT !.defs = w] = InputBlock(w)
        BY DEF InputBlock
      <4>2. l.k = "inputs" /\ l.defs = d
        BY DEF InputBlock
      <4> QED
        BY <4>1, <4>2
    <3> HIDE DEF l, l2
    <3>3. a # << >> /\ a[Len(a)] = l /\ Last(a) = l /\ [a EXCEPT ![Len(a)] = l2] = Append(c, l2)
      BY <3>1, LastReplaced
    <3>4. ReadChildren(s \o InputChildren(d)) = a
      BY <1>2, <2>8 DEF l
    <3> HIDE DEF a
    <3>5. ReadChild(a, y) = [a EXCEPT ![Len(a)].defs = Append(@, x)]
      BY <2>6, <3>2, <3>3
    <3>6. [a EXCEPT ![Len(a)].defs = Append(@, x)] = [a EXCEPT ![Len(a)] = l2]
      BY <3>2, <3>3
    <3>7. ReadChildren(s \o InputChildren(Append(d, x))) = Append(c, InputBlock(Append(d, x)))
      BY <2>5, <3>3, <3>4, <3>5, <3>6 DEF l2
    <3> QED
      BY <3>7, AppendProperties
  <2> QED
    BY <2>7, <2>8
<1>3. \A d \in Seq(InputDefinition) : d \in Good
  <2> HIDE DEF Good
  <2> QED
    BY <1>1, <1>2, Joining!SequenceInduction
<1> QED
  BY <1>3

(* Prose without a table to fill in, left as it is, is joined again.        *)
LEMMA ReadProse ==
  ASSUME NEW other, Altering(other),
         NEW s \in Seq(StepChild), NEW c \in Seq(Item), ReadChildren(s) = c,
         NEW text \in Seq(MarkdownBlock), TextApart(text), TextLeft(text, other)
  PROVE  ReadChildren(s \o TextChildren(text, other)) = WithProse(c, text)
<1> DEFINE Good == {t \in Seq(MarkdownBlock) :
             TextApart(t) /\ TextLeft(t, other) =>
               ReadChildren(s \o TextChildren(t, other)) = WithProse(c, t)}
<1>1. << >> \in Good
  <2>1. s \o TextChildren(<< >>, other) = s /\ << >> \in Seq(MarkdownBlock) /\ WithProse(c, << >>) = c
    <3>1. << >> \in Seq(MarkdownBlock) /\ TextChildren(<< >>, other) = << >>
      BY TextChildrenAppend
    <3>2. s \o << >> = s
      BY ConcatEmptySeq
    <3> QED
      BY <3>1, <3>2 DEF WithProse
  <2> QED
    BY <2>1
<1>2. ASSUME NEW t \in Seq(MarkdownBlock), NEW b \in MarkdownBlock, t \in Good
      PROVE  Append(t, b) \in Good
  <2> SUFFICES ASSUME TextApart(Append(t, b)), TextLeft(Append(t, b), other)
               PROVE  ReadChildren(s \o TextChildren(Append(t, b), other)) = WithProse(c, Append(t, b))
    BY AppendProperties
  <2> DEFINE u == Append(t, b)
             y == ProseChild(b)
             n == Len(t)
  <2>1. /\ n \in Nat /\ Len(u) = n + 1 /\ u[n + 1] = b /\ \A i \in 1..n : u[i] = t[i]
    BY AppendProperties, LenProperties
  <2>2. /\ TextApart(t) /\ (b.k = "table" => ~ Fillable(b.cells))
        /\ TextLeft(t, other) /\ b \notin DOMAIN other
    <3> HIDE DEF u
    <3>1. \A i \in 1..n : i \in 1..Len(u)
      BY <2>1
    <3>2. n + 1 \in 1..Len(u) /\ TextApart(u) /\ TextLeft(u, other)
      BY <2>1 DEF u
    <3> QED
      BY <2>1, <3>1, <3>2 DEF TextApart, TextLeft
  <2>3. /\ TextChildren(t, other) \in Seq(StepChild)
        /\ TextChildren(u, other) = TextChildren(t, other) \o << y >>
    <3>1. ProseChildren(b, other) = << y >>
      BY <2>2 DEF ProseChildren
    <3> QED
      BY <3>1, TextChildrenAppend, MarkdownChildren
  <2>4. y \in StepChild
    BY ProseChildTyped, MarkdownChildren
  <2>5. \A a : ReadChild(a, y) = WithProse(a, << b >>)
    <3>1. CASE b.k = "table"
      <4>1. y = b
        BY <3>1 DEF ProseChild
      <4> QED
        BY <2>2, <3>1, <4>1 DEF ReadChild, IsTableItem
    <3>2. CASE b.k # "table"
      <4>1. y = [k |-> "text", text |-> << b >>]
        BY <3>2 DEF ProseChild
      <4>2. y.k = "text" /\ y.text = << b >>
        BY <4>1
      <4> QED
        BY <4>2 DEF ReadChild, IsTableItem
    <3> QED
      BY <3>1, <3>2
  <2> HIDE DEF y
  <2>6. /\ s \o TextChildren(u, other) = Append(s \o TextChildren(t, other), y)
        /\ s \o TextChildren(t, other) \in Seq(StepChild)
    <3>1. TextChildren(u, other) = Append(TextChildren(t, other), y)
      BY <2>3, <2>4, ConcatAppend
    <3> QED
      BY <2>3, <2>4, <3>1, ConcatAppend, ConcatProperties
  <2>7. ReadChildren(s \o TextChildren(u, other)) = ReadChild(ReadChildren(s \o TextChildren(t, other)), y)
    BY <2>4, <2>6, ChildSteps
  <2>8. ReadChildren(s \o TextChildren(t, other)) = WithProse(c, t)
    BY <1>2, <2>2
  <2>9. WithProse(WithProse(c, t), << b >>) = WithProse(c, u)
    <3>1. << b >> \in Seq(MarkdownBlock) /\ t \o << b >> = u
      BY ConcatAppend
    <3> QED
      BY <3>1, WithProseTwice
  <2> QED
    BY <2>5, <2>7, <2>8, <2>9
<1>3. \A t \in Seq(MarkdownBlock) : t \in Good
  <2> HIDE DEF Good
  <2> QED
    BY <1>1, <1>2, Joining!SequenceInduction
<1> QED
  BY <1>3

(* What holds of content and of its last item when it holds of both.        *)
LEMMA ContentWithout ==
  ASSUME NEW c \in Seq(Item), NEW x \in Item,
         SourceContent(Append(c, x)), InputsApart(Append(c, x))
  PROVE  /\ SourceContent(c) /\ InputsApart(c) /\ ItemApart(x)
         /\ x.k = "prose" => x.text # << >> /\ (c = << >> \/ c[Len(c)].k # "prose")
         /\ x.k = "inputs" => x.defs # << >> /\ (c = << >> \/ c[Len(c)].k # "inputs")
<1> DEFINE n == Len(c)
           a == Append(c, x)
<1>1. /\ n \in Nat /\ a \in Seq(Item) /\ Len(a) = n + 1 /\ a[n + 1] = x
      /\ \A i \in 1..n : a[i] = c[i]
      /\ DOMAIN a = 1..(n + 1) /\ DOMAIN c = 1..n
  BY AppendProperties, LenProperties
<1>2. c # << >> => n \in 1..n
  BY EmptySeq
<1>3. SourceContent(a) /\ InputsApart(a)
  OBVIOUS
<1> HIDE DEF a
<1>4. ASSUME NEW i \in 1..n
      PROVE  /\ i \in 1..Len(a) /\ a[i] = c[i] /\ (i > 1 => a[i - 1] = c[i - 1])
             /\ (i < n => i + 1 \in 1..n /\ a[i + 1] = c[i + 1])
  <2>1. i \in 1..Len(a) /\ (i > 1 => i - 1 \in 1..n) /\ (i < n => i + 1 \in 1..n)
    BY <1>1
  <2> QED
    BY <1>1, <2>1
<1>5. NormalContent(c)
  BY <1>3, <1>4 DEF SourceContent, NormalContent
<1>6. TablesApart(c)
  BY <1>3, <1>4 DEF SourceContent, TablesApart
<1>7. NestedBoxes(c)
  BY <1>3, <1>4 DEF SourceContent, NestedBoxes
<1>8. InputsApart(c)
  <2> SUFFICES ASSUME NEW i \in 1..n, c[i].k = "inputs"
               PROVE  c[i].defs # << >> /\ (i < n => c[i + 1].k # "inputs")
    BY <1>1 DEF InputsApart
  <2>1. i \in 1..(n + 1) /\ a[i] = c[i] /\ i < Len(a)
    BY <1>1, <1>4
  <2>2. a[i].defs # << >> /\ a[i + 1].k # "inputs"
    BY <1>1, <1>3, <2>1 DEF InputsApart
  <2> QED
    BY <1>4, <2>1, <2>2
<1>9. ItemApart(x)
  <2>1. n + 1 \in 1..Len(a)
    BY <1>1
  <2> QED
    BY <1>1, <1>3, <2>1 DEF SourceContent, TablesApart
<1>10. x.k = "prose" => x.text # << >> /\ (c = << >> \/ c[n].k # "prose")
  <2>1. n + 1 \in 1..Len(a) /\ (n + 1) - 1 = n
    BY <1>1
  <2> QED
    BY <1>1, <1>2, <1>3, <2>1 DEF SourceContent, NormalContent
<1>11. x.k = "inputs" => x.defs # << >> /\ (c = << >> \/ c[n].k # "inputs")
  <2>1. n + 1 \in DOMAIN a /\ n < Len(a)
    BY <1>1
  <2>2. x.k = "inputs" => x.defs # << >>
    BY <1>1, <1>3, <2>1 DEF InputsApart
  <2>3. ASSUME c # << >>, c[n].k = "inputs"
        PROVE  x.k # "inputs"
    <3>1. n \in DOMAIN a /\ a[n].k = "inputs"
      BY <1>1, <1>2, <2>3
    <3> QED
      BY <1>1, <1>3, <2>1, <3>1 DEF InputsApart
  <2> QED
    BY <2>2, <2>3
<1> QED
  BY <1>5, <1>6, <1>7, <1>8, <1>9, <1>10, <1>11 DEF SourceContent

(* Content without its last item is left alone too.                         *)
LEMMA LeftWithout ==
  ASSUME NEW other, NEW c \in Seq(Item), NEW x \in Item, ContentLeft(Append(c, x), other)
  PROVE  ContentLeft(c, other) /\ (x.k = "prose" => TextLeft(x.text, other))
<1> DEFINE n == Len(c)
           a == Append(c, x)
<1>1. n \in Nat /\ Len(a) = n + 1 /\ a[n + 1] = x /\ \A i \in 1..n : a[i] = c[i]
  BY AppendProperties, LenProperties
<1>2. ContentLeft(a, other)
  OBVIOUS
<1> HIDE DEF a
<1>3. n + 1 \in 1..Len(a) /\ \A i \in 1..n : i \in 1..Len(a)
  BY <1>1
<1> QED
  BY <1>1, <1>2, <1>3 DEF ContentLeft

(* The children a file's step is given read back as its content.            *)
LEMMA ContentReadBack ==
  ASSUME NEW other, Altering(other), NEW content \in Seq(Item),
         SourceContent(content), InputsApart(content), ContentLeft(content, other)
  PROVE  ReadChildren(StepChildren(content, other)) = content
<1> DEFINE Good == {c \in Seq(Item) :
             SourceContent(c) /\ InputsApart(c) /\ ContentLeft(c, other) =>
               ReadChildren(StepChildren(c, other)) = c}
<1>1. << >> \in Good
  <2>1. << >> \in Seq(Item) /\ ReadChildren(StepChildren(<< >>, other)) = << >>
    BY StepChildrenAppend, ChildSteps
  <2> QED
    BY <2>1
<1>2. ASSUME NEW c \in Seq(Item), NEW x \in Item, c \in Good
      PROVE  Append(c, x) \in Good
  <2> DEFINE a == Append(c, x)
             n == Len(c) + 1
             s == StepChildren(c, other)
  <2> SUFFICES ASSUME SourceContent(a), InputsApart(a), ContentLeft(a, other)
               PROVE  ReadChildren(StepChildren(a, other)) = a
    BY AppendProperties
  <2>1. /\ SourceContent(c) /\ InputsApart(c) /\ ItemApart(x)
        /\ x.k = "prose" => x.text # << >> /\ (c = << >> \/ c[Len(c)].k # "prose")
        /\ x.k = "inputs" => x.defs # << >> /\ (c = << >> \/ c[Len(c)].k # "inputs")
    BY ContentWithout
  <2>10. ContentLeft(c, other) /\ (x.k = "prose" => TextLeft(x.text, other))
    BY LeftWithout
  <2>2. s \in Seq(StepChild) /\ ReadChildren(s) = c
    BY <1>2, <2>1, <2>10, StepChildrenAppend
  <2>3. StepChildren(a, other) = s \o ItemChildren(a, n, other)
    BY StepChildrenAppend
  <2>4. a \in Seq(Item) /\ Len(a) = n /\ a[n] = x /\ n \in 1..Len(a)
    BY AppendProperties, LenProperties
  <2>5. NestedBoxes(a)
    BY DEF SourceContent
  <2> HIDE DEF s, a, n
  <2>6. CASE x.k = "checkbox"
    <3> DEFINE y == [k |-> "checkListItem", depth |-> x.level]
    <3>1. x.level \in Nat /\ x = Checkbox(x.level)
      BY <2>6, ItemShape
    <3>2. Cardinality(Enclosing(a, n)) = x.level
      BY <2>4, <2>5, <2>6, DepthIsLevel
    <3>3. ItemChildren(a, n, other) = << y >>
      BY <2>4, <2>6, <3>2 DEF ItemChildren
    <3>4. y \in StepChild /\ y.k = "checkListItem" /\ y.depth = x.level
      BY <3>1 DEF StepChild
    <3> HIDE DEF y
    <3>5. StepChildren(a, other) = Append(s, y)
      BY <2>2, <2>3, <3>3, <3>4, ConcatAppend
    <3>6. ReadChildren(StepChildren(a, other)) = ReadChild(c, y)
      BY <2>2, <3>4, <3>5, ChildSteps
    <3>7. ReadChild(c, y) = Append(c, Checkbox(x.level))
      BY <3>4 DEF ReadChild, IsTableItem
    <3> QED
      BY <3>1, <3>6, <3>7 DEF a
  <2>7. CASE x.k = "prose"
    <3>1. x.text \in Seq(MarkdownBlock) /\ x = Prose(x.text)
      BY <2>7, ItemShape
    <3>2. ItemChildren(a, n, other) = TextChildren(x.text, other)
      BY <2>4, <2>7 DEF ItemChildren, TextChildren
    <3>3. TextApart(x.text)
      BY <2>1, <2>7 DEF ItemApart
    <3>4. ReadChildren(s \o TextChildren(x.text, other)) = WithProse(c, x.text)
      BY <2>2, <2>7, <2>10, <3>1, <3>3, ReadProse
    <3>5. WithProse(c, x.text) = Append(c, Prose(x.text))
      BY <2>1, <2>7, <3>1, WithProseDoes
    <3> QED
      BY <2>3, <3>1, <3>2, <3>4, <3>5 DEF a
  <2>8. CASE x.k = "table"
    <3>1. x.cells \in Seq(TableCell) /\ x = Table(x.cells) /\ Fillable(x.cells)
      BY <2>1, <2>8, ItemShape DEF ItemApart
    <3>2. TableMarkdown(x) = x
      BY <3>1 DEF TableMarkdown, Table
    <3>3. ItemChildren(a, n, other) = << x >>
      BY <2>4, <2>8, <3>2 DEF ItemChildren
    <3>4. x \in StepChild
      BY <3>1 DEF StepChild, Table
    <3>5. StepChildren(a, other) = Append(s, x)
      BY <2>2, <2>3, <3>3, <3>4, ConcatAppend
    <3>6. ReadChildren(StepChildren(a, other)) = ReadChild(c, x)
      BY <2>2, <3>4, <3>5, ChildSteps
    <3>7. ReadChild(c, x) = Append(c, Table(x.cells))
      BY <2>8, <3>1 DEF ReadChild, IsTableItem
    <3> QED
      BY <3>1, <3>6, <3>7 DEF a
  <2>9. CASE x.k = "inputs"
    <3>1. x.defs \in Seq(InputDefinition) /\ x = InputBlock(x.defs) /\ x.defs # << >>
      BY <2>1, <2>9, ItemShape
    <3>2. ItemChildren(a, n, other) = InputChildren(x.defs)
      BY <2>4, <2>9 DEF ItemChildren, InputChildren
    <3>3. c = << >> \/ c[Len(c)].k # "inputs"
      BY <2>1, <2>9
    <3>4. ReadChildren(s \o InputChildren(x.defs)) = Append(c, InputBlock(x.defs))
      BY <2>2, <3>1, <3>3, ReadInputs
    <3> QED
      BY <2>3, <3>1, <3>2, <3>4 DEF a
  <2> QED
    BY <2>6, <2>7, <2>8, <2>9, ItemShape
<1>3. \A c \in Seq(Item) : c \in Good
  <2> HIDE DEF Good
  <2> QED
    BY <1>1, <1>2, Joining!SequenceInduction
<1> QED
  BY <1>3

(* The inputs of content, item by item.                                     *)
OwnDefs(item) == IF item.k = "inputs" THEN item.defs ELSE << >>

LEMMA DefsAppend ==
  /\ Defs(<< >>) = << >>
  /\ \A c \in Seq(Item) : Defs(c) \in Seq(InputDefinition)
  /\ \A c \in Seq(Item), x \in Item : Defs(Append(c, x)) = Defs(c) \o OwnDefs(x)
<1> DEFINE f == [x \in Item |-> OwnDefs(x)]
<1>0. ASSUME NEW x \in Item
      PROVE  OwnDefs(x) \in Seq(InputDefinition)
  BY ItemShape DEF OwnDefs
<1>1. Maps(f, Item, Seq(InputDefinition))
  BY <1>0 DEF Maps
<1>2. \A x \in Item : f[x] = OwnDefs(x)
  OBVIOUS
<1> HIDE DEF f
<1>3. ASSUME NEW s \in Seq(Item)
      PROVE  Defs(s) = FlattenSeq(Mapped(f, s))
  <2>1. \A i \in DOMAIN s : s[i] \in Item
    OBVIOUS
  <2>2. [i \in DOMAIN s |-> IF s[i].k = "inputs" THEN s[i].defs ELSE << >>]
          = [i \in DOMAIN s |-> f[s[i]]]
    BY <1>2, <2>1 DEF OwnDefs
  <2> QED
    BY <2>2 DEF Defs, Mapped
<1>4. Defs(<< >>) = << >>
  <2>1. [i \in DOMAIN << >> |-> IF << >>[i].k = "inputs" THEN << >>[i].defs ELSE << >>]
          = << >>
    OBVIOUS
  <2> QED
    BY <2>1, FlattenNone DEF Defs
<1>5. ASSUME NEW s \in Seq(Item)
      PROVE  Mapped(f, s) \in Seq(Seq(InputDefinition))
  BY <1>1, MappedElements
<1>6. ASSUME NEW s \in Seq(Item), NEW x \in Item
      PROVE  Defs(Append(s, x)) = Defs(s) \o OwnDefs(x)
  <2>1. Append(s, x) \in Seq(Item)
    BY AppendProperties
  <2>2. Mapped(f, Append(s, x)) = Append(Mapped(f, s), f[x])
    BY <1>1, MappedAppend
  <2>3. FlattenSeq(Append(Mapped(f, s), OwnDefs(x))) = FlattenSeq(Mapped(f, s)) \o OwnDefs(x)
    BY <1>0, <1>5, FlattenAppend
  <2> QED
    BY <1>2, <1>3, <2>1, <2>2, <2>3
<1>7. ASSUME NEW s \in Seq(Item)
      PROVE  Defs(s) \in Seq(InputDefinition)
  BY <1>3, <1>5, FlattenTyped
<1> QED
  BY <1>4, <1>6, <1>7

(* Content that is not empty is some content and a last item.               *)
LEMMA LastItem ==
  ASSUME NEW content \in Seq(Item), content # << >>
  PROVE  \E c \in Seq(Item) : \E x \in Item : content = Append(c, x)
<1> DEFINE Good == {d \in Seq(Item) :
             d # << >> => \E c \in Seq(Item) : \E x \in Item : d = Append(c, x)}
<1>1. << >> \in Good
  OBVIOUS
<1>2. ASSUME NEW c \in Seq(Item), NEW x \in Item, c \in Good
      PROVE  Append(c, x) \in Good
  BY AppendProperties
<1>3. \A d \in Seq(Item) : d \in Good
  <2> HIDE DEF Good
  <2> QED
    BY <1>1, <1>2, Joining!SequenceInduction
<1> QED
  BY <1>3

(* Content with an item that has no inputs, and with a last item replaced.  *)
LEMMA DefsKept ==
  ASSUME NEW c \in Seq(Item), NEW x \in Item, x.k # "inputs"
  PROVE  Defs(Append(c, x)) = Defs(c)
<1>1. Defs(Append(c, x)) = Defs(c) \o << >>
  BY DefsAppend DEF OwnDefs
<1>2. Defs(c) \in Seq(InputDefinition)
  BY DefsAppend
<1> QED
  BY <1>1, <1>2, ConcatEmptySeq

(* d is c without its last item.                                           *)
LastChanged(c, d, y) ==
  /\ c = Append(d, c[Len(c)])
  /\ [c EXCEPT ![Len(c)] = y] = Append(d, y)

LEMMA DefsOfReplaced ==
  ASSUME NEW c \in Seq(Item), c # << >>, NEW y \in Item
  PROVE  \E d \in Seq(Item) : LastChanged(c, d, y)
<1>1. PICK d \in Seq(Item) : \E x \in Item : c = Append(d, x)
  BY LastItem
<1>2. PICK x \in Item : c = Append(d, x)
  BY <1>1
<1> QED
  BY <1>2, LastReplaced DEF LastChanged

(* Prose has no inputs.                                                     *)
LEMMA WithProseDefs ==
  ASSUME NEW c \in Seq(Item), NEW t \in Seq(MarkdownBlock)
  PROVE  Defs(WithProse(c, t)) = Defs(c)
<1>1. CASE t = << >>
  BY <1>1, WithProseDoes
<1>2. CASE t # << >> /\ (c = << >> \/ c[Len(c)].k # "prose")
  <2>1. Prose(t) \in Item /\ Prose(t).k # "inputs"
    BY ItemMade DEF Prose
  <2>2. Defs(Append(c, Prose(t))) = Defs(c)
    BY <2>1, DefsKept
  <2> QED
    BY <1>2, <2>2, WithProseDoes
<1>3. CASE t # << >> /\ c # << >> /\ c[Len(c)].k = "prose"
  <2> DEFINE l == c[Len(c)]
             p == Prose(l.text \o t)
  <2>1. Len(c) \in 1..Len(c) /\ l \in Item
    BY <1>3, EmptySeq, ElementOfSeq
  <2>2. l.text \in Seq(MarkdownBlock)
    BY <1>3, <2>1, ItemShape
  <2>3. p \in Item /\ p.k # "inputs"
    <3>1. l.text \o t \in Seq(MarkdownBlock)
      BY <2>2, ConcatProperties
    <3> QED
      BY <3>1, ItemMade DEF Prose
  <2>4. WithProse(c, t) = [c EXCEPT ![Len(c)] = p]
    BY <1>3, WithProseDoes
  <2>5. l.k # "inputs"
    BY <1>3
  <2> HIDE DEF p
  <2>6. PICK d \in Seq(Item) : LastChanged(c, d, p)
    BY <1>3, <2>3, DefsOfReplaced, Zenon
  <2>8. c = Append(d, l) /\ [c EXCEPT ![Len(c)] = p] = Append(d, p)
    BY <2>6 DEF LastChanged
  <2>7. Defs(Append(d, l)) = Defs(d) /\ Defs(Append(d, p)) = Defs(d)
    BY <2>1, <2>3, <2>5, DefsKept
  <2> QED
    BY <2>4, <2>7, <2>8
<1> QED
  BY <1>1, <1>2, <1>3

(* Reading a block without an input leaves the inputs read so far.          *)
LEMMA MarkdownChildDefs ==
  ASSUME NEW c \in Seq(Item), NEW b \in MarkdownChild
  PROVE  Defs(ReadChild(c, b)) = Defs(c)
<1>0. b \in StepChild /\ b.k # "procnoteInput"
  BY DEF MarkdownChild
<1>1. CASE b.k = "checkListItem"
  <2>1. Checkbox(b.depth) \in Item /\ Checkbox(b.depth).k # "inputs"
    BY <1>0, <1>1, ChildShape, ItemMade DEF Checkbox
  <2>2. ReadChild(c, b) = Append(c, Checkbox(b.depth))
    BY <1>1 DEF ReadChild, IsTableItem
  <2> QED
    BY <2>1, <2>2, DefsKept
<1>2. CASE b.k = "table" /\ IsTableItem(b)
  <2>1. Table(b.cells) \in Item /\ Table(b.cells).k # "inputs"
    BY <1>0, <1>2, ChildShape, ItemMade DEF Table
  <2>2. ReadChild(c, b) = Append(c, Table(b.cells))
    BY <1>2 DEF ReadChild
  <2> QED
    BY <2>1, <2>2, DefsKept
<1>3. CASE b.k = "table" /\ ~ IsTableItem(b)
  <2>1. << b >> \in Seq(MarkdownBlock)
    <3>1. b.cells \in Seq(TableCell) /\ b = Table(b.cells)
      BY <1>0, <1>3, ChildShape
    <3> QED
      BY <3>1 DEF MarkdownBlock, Table
  <2>2. ReadChild(c, b) = WithProse(c, << b >>)
    BY <1>3 DEF ReadChild
  <2> QED
    BY <2>1, <2>2, WithProseDefs
<1>4. CASE b.k = "stray"
  <2>1. ReadChild(c, b) = c
    BY <1>4 DEF ReadChild, IsTableItem
  <2> QED
    BY <2>1
<1>5. CASE b.k = "text"
  <2>1. b.text \in Seq(MarkdownBlock)
    BY <1>0, <1>5, ChildShape
  <2>2. ReadChild(c, b) = WithProse(c, b.text)
    BY <1>5 DEF ReadChild, IsTableItem
  <2> QED
    BY <2>1, <2>2, WithProseDefs
<1> QED
  BY <1>0, <1>1, <1>2, <1>3, <1>4, <1>5, ChildShape

LEMMA MarkdownChildrenDefs ==
  ASSUME NEW s \in Seq(StepChild), NEW t \in Seq(MarkdownChild)
  PROVE  Defs(ReadChildren(s \o t)) = Defs(ReadChildren(s))
<1> DEFINE Good == {u \in Seq(MarkdownChild) :
             Defs(ReadChildren(s \o u)) = Defs(ReadChildren(s))}
<1>1. << >> \in Good
  <2>1. s \o << >> = s /\ << >> \in Seq(MarkdownChild)
    BY ConcatEmptySeq
  <2> QED
    BY <2>1
<1>2. ASSUME NEW u \in Seq(MarkdownChild), NEW b \in MarkdownChild, u \in Good
      PROVE  Append(u, b) \in Good
  <2>1. u \in Seq(StepChild) /\ b \in StepChild
    BY MarkdownChildren
  <2>2. s \o Append(u, b) = Append(s \o u, b) /\ s \o u \in Seq(StepChild)
    BY <2>1, ConcatAppend, ConcatProperties
  <2>3. ReadChildren(s \o Append(u, b)) = ReadChild(ReadChildren(s \o u), b)
    BY <2>1, <2>2, ChildSteps
  <2>4. ReadChildren(s \o u) \in Seq(Item)
    BY <2>2, ChildrenRead
  <2>5. Defs(ReadChild(ReadChildren(s \o u), b)) = Defs(ReadChildren(s \o u))
    BY <2>4, MarkdownChildDefs
  <2> QED
    BY <1>2, <2>3, <2>5, AppendProperties
<1>3. \A u \in Seq(MarkdownChild) : u \in Good
  <2> HIDE DEF Good
  <2> QED
    BY <1>1, <1>2, Joining!SequenceInduction
<1> QED
  BY <1>3

(* Reading an input puts it behind the inputs read so far.                  *)
LEMMA InputChildDefs ==
  ASSUME NEW c \in Seq(Item), NEW x \in InputDefinition
  PROVE  Defs(ReadChild(c, InputChild(x))) = Append(Defs(c), x)
<1> DEFINE y == InputChild(x)
<1>1. y.k = "procnoteInput" /\ y.def = x
  BY DEF InputChild
<1>2. ReadChild(c, y) = IF c # << >> /\ c[Len(c)].k = "inputs"
                          THEN [c EXCEPT ![Len(c)].defs = Append(@, x)]
                          ELSE Append(c, InputBlock(<< x >>))
  BY <1>1 DEF ReadChild, IsTableItem, Last
<1> HIDE DEF y
<1>3. CASE ~ (c # << >> /\ c[Len(c)].k = "inputs")
  <2>1. /\ InputBlock(<< x >>) \in Item /\ OwnDefs(InputBlock(<< x >>)) = << x >>
    <3>1. << x >> \in Seq(InputDefinition)
      OBVIOUS
    <3> QED
      BY <3>1, ItemMade DEF InputBlock, OwnDefs
  <2>2. Defs(Append(c, InputBlock(<< x >>))) = Defs(c) \o << x >>
    BY <2>1, DefsAppend
  <2>3. Defs(c) \o << x >> = Append(Defs(c), x)
    BY DefsAppend, ConcatAppend
  <2> QED
    BY <1>2, <1>3, <2>2, <2>3 DEF y
<1>4. CASE c # << >> /\ c[Len(c)].k = "inputs"
  <2> DEFINE l == c[Len(c)]
             p == InputBlock(Append(l.defs, x))
  <2>1. Len(c) \in 1..Len(c) /\ l \in Item
    BY <1>4, EmptySeq, ElementOfSeq
  <2>2. l.defs \in Seq(InputDefinition) /\ l = InputBlock(l.defs)
    BY <1>4, <2>1, ItemShape
  <2>3. Append(l.defs, x) \in Seq(InputDefinition)
    BY <2>2, AppendProperties
  <2>4. p \in Item /\ OwnDefs(p) = Append(l.defs, x)
    BY <2>3, ItemMade DEF InputBlock, OwnDefs
  <2>5. OwnDefs(l) = l.defs
    BY <1>4 DEF OwnDefs
  <2>6. ReadChild(c, y) = [c EXCEPT ![Len(c)] = p]
    <3>1. PICK z : l = [k |-> "inputs", defs |-> z]
      BY <2>2 DEF InputBlock
    <3>2. \A w : [l EXCEPT !.defs = w] = [k |-> "inputs", defs |-> w]
      BY <3>1
    <3>3. [l EXCEPT !.defs = Append(@, x)] = p
      BY <3>2 DEF InputBlock
    <3> HIDE DEF p
    <3> QED
      BY <1>2, <1>4, <3>3
  <2> HIDE DEF p
  <2>11. PICK d \in Seq(Item) : LastChanged(c, d, p)
    BY <1>4, <2>4, DefsOfReplaced, Zenon
  <2>7. c = Append(d, l) /\ [c EXCEPT ![Len(c)] = p] = Append(d, p)
    BY <2>11 DEF LastChanged
  <2> HIDE DEF l
  <2>8. /\ Defs(Append(d, l)) = Defs(d) \o l.defs
        /\ Defs(Append(d, p)) = Defs(d) \o Append(l.defs, x)
    BY <2>1, <2>4, <2>5, DefsAppend
  <2>9. Defs(d) \o Append(l.defs, x) = Append(Defs(d) \o l.defs, x)
    <3>1. Defs(d) \in Seq(InputDefinition)
      BY DefsAppend
    <3> QED
      BY <2>2, <3>1, InputAfter, Zenon
  <2>10. Defs(ReadChild(c, y)) = Defs(Append(d, p)) /\ Defs(c) = Defs(Append(d, l))
    BY <2>6, <2>7
  <2> QED
    BY <2>8, <2>9, <2>10 DEF y
<1> QED
  BY <1>3, <1>4

LEMMA InputChildrenDefs ==
  ASSUME NEW s \in Seq(StepChild), NEW defs \in Seq(InputDefinition)
  PROVE  Defs(ReadChildren(s \o InputChildren(defs))) = Defs(ReadChildren(s)) \o defs
<1> DEFINE before == Defs(ReadChildren(s))
           Good == {d \in Seq(InputDefinition) :
                      Defs(ReadChildren(s \o InputChildren(d))) = before \o d}
<1>0. before \in Seq(InputDefinition)
  BY ChildrenRead, DefsAppend
<1>1. << >> \in Good
  <2>1. s \o InputChildren(<< >>) = s /\ << >> \in Seq(InputDefinition)
    BY InputChildrenAppend, ConcatEmptySeq
  <2>2. before \o << >> = before
    BY <1>0, ConcatEmptySeq
  <2> QED
    BY <2>1, <2>2
<1> HIDE DEF before
<1>2. ASSUME NEW d \in Seq(InputDefinition), NEW x \in InputDefinition, d \in Good
      PROVE  Append(d, x) \in Good
  <2> DEFINE y == InputChild(x)
             v == s \o InputChildren(d)
  <2>1. InputChildren(d) \in Seq(StepChild) /\ y \in StepChild
    BY InputChildrenAppend DEF InputChild, StepChild
  <2>2. InputChildren(Append(d, x)) = Append(InputChildren(d), y)
    BY InputChildrenAppend
  <2>6. Defs(v) = Defs(v) /\ Defs(ReadChildren(v)) = before \o d
    BY <1>2
  <2> HIDE DEF y
  <2>3. s \o InputChildren(Append(d, x)) = Append(v, y) /\ v \in Seq(StepChild)
    BY <2>1, <2>2, ConcatAppend, ConcatProperties
  <2> HIDE DEF v
  <2>4. ReadChildren(Append(v, y)) = ReadChild(ReadChildren(v), y)
    BY <2>1, <2>3, ChildSteps
  <2>5. ReadChildren(v) \in Seq(Item)
    BY <2>3, ChildrenRead
  <2>7. Defs(ReadChild(ReadChildren(v), y)) = Append(before \o d, x)
    BY <2>5, <2>6, InputChildDefs DEF y
  <2>8. Append(before \o d, x) = before \o Append(d, x)
    BY <1>0, InputAfter, Zenon
  <2> QED
    BY <2>3, <2>4, <2>7, <2>8, AppendProperties
<1>3. \A d \in Seq(InputDefinition) : d \in Good
  <2> HIDE DEF Good
  <2> QED
    BY <1>1, <1>2, Joining!SequenceInduction
<1> QED
  BY <1>3 DEF before

(* Whatever BlockNote makes of the prose, content keeps its inputs.         *)
LEMMA ContentDefs ==
  ASSUME NEW other, Altering(other), NEW content \in Seq(Item)
  PROVE  Defs(ReadChildren(StepChildren(content, other))) = Defs(content)
<1> DEFINE Good == {c \in Seq(Item) : Defs(ReadChildren(StepChildren(c, other))) = Defs(c)}
<1>1. << >> \in Good
  <2>1. << >> \in Seq(Item) /\ ReadChildren(StepChildren(<< >>, other)) = << >>
    BY StepChildrenAppend, ChildSteps
  <2> QED
    BY <2>1
<1>2. ASSUME NEW c \in Seq(Item), NEW x \in Item, c \in Good
      PROVE  Append(c, x) \in Good
  <2> DEFINE a == Append(c, x)
             n == Len(c) + 1
             s == StepChildren(c, other)
  <2>1. s \in Seq(StepChild) /\ StepChildren(a, other) = s \o ItemChildren(a, n, other)
    BY StepChildrenAppend
  <2>2. a \in Seq(Item) /\ a[n] = x /\ n \in 1..Len(a)
    BY AppendProperties, LenProperties
  <2>3. Defs(ReadChildren(s)) = Defs(c)
    BY <1>2
  <2>4. Defs(a) = Defs(c) \o OwnDefs(x)
    BY DefsAppend
  <2>5. x.k # "inputs" => Defs(a) = Defs(c)
    BY DefsKept
  <2> HIDE DEF a, n, s
  <2>6. CASE x.k # "inputs"
    <3>1. ItemChildren(a, n, other) \in Seq(MarkdownChild)
      BY <2>2, <2>6, ItemChildrenTyped
    <3>2. Defs(ReadChildren(s \o ItemChildren(a, n, other))) = Defs(ReadChildren(s))
      BY <2>1, <3>1, MarkdownChildrenDefs
    <3> QED
      BY <2>1, <2>2, <2>3, <2>5, <2>6, <3>2 DEF a
  <2>7. CASE x.k = "inputs"
    <3>1. x.defs \in Seq(InputDefinition) /\ OwnDefs(x) = x.defs
      BY <2>7, ItemShape DEF OwnDefs
    <3>2. ItemChildren(a, n, other) = InputChildren(x.defs)
      BY <2>2, <2>7 DEF ItemChildren, InputChildren
    <3>3. Defs(ReadChildren(s \o InputChildren(x.defs))) = Defs(ReadChildren(s)) \o x.defs
      BY <2>1, <3>1, InputChildrenDefs
    <3> QED
      BY <2>1, <2>2, <2>3, <2>4, <3>1, <3>2, <3>3 DEF a
  <2> QED
    BY <2>6, <2>7
<1>3. \A c \in Seq(Item) : c \in Good
  <2> HIDE DEF Good
  <2> QED
    BY <1>1, <1>2, Joining!SequenceInduction
<1> QED
  BY <1>3

-----------------------------------------------------------------------------
(* The block a step is in a document.                                       *)
StepBlock(step, other) ==
  [k |-> "step", named |-> step.named, children |-> StepChildren(step.content, other)]

(* One step more is one block more of the document.                        *)
LEMMA TemplateToBlocksAppend ==
  ASSUME NEW other, Altering(other)
  PROVE  /\ TemplateToBlocks(<< >>, other) = << >>
         /\ \A steps \in Seq(Step) : TemplateToBlocks(steps, other) \in Seq(DocumentBlock)
         /\ \A steps \in Seq(Step), step \in Step :
              TemplateToBlocks(Append(steps, step), other)
                = Append(TemplateToBlocks(steps, other), StepBlock(step, other))
<1> DEFINE f == [x \in Step |-> StepBlock(x, other)]
<1>1. Maps(f, Step, DocumentBlock)
  <2>1. ASSUME NEW x \in Step
        PROVE  StepBlock(x, other) \in DocumentBlock
    <3>1. x.named \in BOOLEAN /\ x.content \in Seq(Item)
      BY DEF Step
    <3>2. StepChildren(x.content, other) \in Seq(StepChild)
      BY <3>1, StepChildrenAppend
    <3> QED
      BY <3>1, <3>2 DEF StepBlock, DocumentBlock
  <2> QED
    BY <2>1 DEF Maps
<1>2. \A x \in Step : f[x] = StepBlock(x, other)
  OBVIOUS
<1> HIDE DEF f
<1>3. ASSUME NEW s \in Seq(Step)
      PROVE  TemplateToBlocks(s, other) = Mapped(f, s)
  <2>1. \A i \in DOMAIN s : s[i] \in Step
    OBVIOUS
  <2>2. TemplateToBlocks(s, other) = [n \in DOMAIN s |-> StepBlock(s[n], other)]
    BY DEF TemplateToBlocks, StepBlock
  <2> QED
    BY <1>2, <2>1, <2>2 DEF Mapped
<1>4. TemplateToBlocks(<< >>, other) = << >>
  BY DEF TemplateToBlocks
<1>5. ASSUME NEW s \in Seq(Step)
      PROVE  TemplateToBlocks(s, other) \in Seq(DocumentBlock)
  BY <1>1, <1>3, MappedElements
<1>6. ASSUME NEW s \in Seq(Step), NEW x \in Step
      PROVE  TemplateToBlocks(Append(s, x), other)
               = Append(TemplateToBlocks(s, other), StepBlock(x, other))
  <2>1. Append(s, x) \in Seq(Step)
    BY AppendProperties
  <2>2. Mapped(f, Append(s, x)) = Append(Mapped(f, s), f[x])
    BY <1>1, MappedAppend
  <2> QED
    BY <1>2, <1>3, <2>1, <2>2
<1> QED
  BY <1>4, <1>5, <1>6

(* A step as it is read back: with its heading and its inputs, and all of   *)
(* it unless its inputs touch or its prose is altered.                      *)
StepReadAs(step, read, other) ==
  /\ read.named = step.named
  /\ Defs(read.content) = Defs(step.content)
  /\ InputsApart(step.content) /\ ContentLeft(step.content, other) => read = step

ReadAs(steps, read, other) ==
  Len(read) = Len(steps) /\ \A n \in 1..Len(steps) : StepReadAs(steps[n], read[n], other)

(* The block of a step reads back as the step.                              *)
LEMMA StepReadBack ==
  ASSUME NEW other, Altering(other), NEW step \in SourceStep, NEW steps
  PROVE  /\ StepBlock(step, other) \in DocumentBlock
         /\ \E read \in Step :
              /\ ReadDocumentBlock(steps, StepBlock(step, other)) = Append(steps, read)
              /\ StepReadAs(step, read, other)
<1> DEFINE y == StepBlock(step, other)
           read == [named |-> y.named, content |-> ReadChildren(y.children)]
<1>1. /\ step.content \in Seq(Item) /\ SourceContent(step.content) /\ step.named \in BOOLEAN
      /\ step = [named |-> step.named, content |-> step.content]
  BY DEF SourceStep, Step
<1>2. StepChildren(step.content, other) \in Seq(StepChild)
  BY <1>1, StepChildrenAppend
<1>3. y \in DocumentBlock /\ y.k = "step" /\ y.named = step.named
      /\ y.children = StepChildren(step.content, other)
  BY <1>1, <1>2 DEF StepBlock, DocumentBlock
<1> HIDE DEF y
<1>4. ReadDocumentBlock(steps, y) = Append(steps, read)
  BY <1>3 DEF ReadDocumentBlock
<1>5. read \in Step
  BY <1>1, <1>2, <1>3, ChildrenRead DEF Step
<1>6. read.named = step.named /\ read.content = ReadChildren(StepChildren(step.content, other))
  BY <1>3
<1>7. Defs(read.content) = Defs(step.content)
  BY <1>1, <1>6, ContentDefs
<1>8. ASSUME InputsApart(step.content), ContentLeft(step.content, other)
      PROVE  read = step
  <2>1. ReadChildren(StepChildren(step.content, other)) = step.content
    BY <1>1, <1>8, ContentReadBack
  <2> QED
    BY <1>1, <1>3, <2>1
<1>9. StepReadAs(step, read, other)
  BY <1>6, <1>7, <1>8 DEF StepReadAs
<1> HIDE DEF read
<1> QED
  BY <1>3, <1>4, <1>5, <1>9 DEF y

(* A file's steps are the ones read back of the document made of them, but  *)
(* for the prose that was altered and the inputs that touched.              *)
LEMMA TemplateReadBack ==
  ASSUME NEW other, Altering(other), NEW steps \in Seq(SourceStep)
  PROVE  ReadAs(steps, BlocksToTemplate(TemplateToBlocks(steps, other)), other)
<1> DEFINE Back(t) == BlocksToTemplate(TemplateToBlocks(t, other))
           Good == {t \in Seq(SourceStep) : ReadAs(t, Back(t), other)}
<1>0. SourceStep \subseteq Step
  BY DEF SourceStep
<1>1. << >> \in Good
  <2>1. << >> \in Seq(SourceStep) /\ Back(<< >>) = << >>
    BY TemplateToBlocksAppend, DocumentSteps
  <2> QED
    BY <2>1 DEF ReadAs
<1>2. ASSUME NEW t \in Seq(SourceStep), NEW s \in SourceStep, t \in Good
      PROVE  Append(t, s) \in Good
  <2> DEFINE doc == TemplateToBlocks(t, other)
             back == Back(t)
             y == StepBlock(s, other)
             a == Append(t, s)
  <2>1. t \in Seq(Step) /\ s \in Step
    BY <1>0, SeqMonotonic
  <2>2. TemplateToBlocks(a, other) = Append(doc, y) /\ doc \in Seq(DocumentBlock)
    BY <2>1, TemplateToBlocksAppend
  <2>3. y \in DocumentBlock
    BY StepReadBack
  <2>4. back = BlocksToTemplate(doc) /\ ReadAs(t, back, other) /\ back \in Seq(Step)
    BY <1>2, <2>2, DocumentRead
  <2>5. PICK read \in Step : /\ ReadDocumentBlock(back, y) = Append(back, read)
                             /\ StepReadAs(s, read, other)
    BY StepReadBack
  <2>6. Back(a) = BlocksToTemplate(Append(doc, y))
    BY <2>2
  <2>10. a \in Seq(SourceStep)
    BY AppendProperties
  <2>11. a \in Good <=> ReadAs(a, Back(a), other)
    BY <2>10
  <2>8. /\ Len(t) \in Nat /\ Len(a) = Len(t) + 1 /\ a[Len(t) + 1] = s
        /\ \A i \in 1..Len(t) : a[i] = t[i]
    BY AppendProperties, LenProperties
  <2> HIDE DEF doc, y, back, a, Back, Good
  <2>7. Back(a) = Append(back, read)
    <3>1. BlocksToTemplate(Append(doc, y)) = ReadDocumentBlock(BlocksToTemplate(doc), y)
      BY <2>2, <2>3, DocumentSteps
    <3> QED
      BY <2>4, <2>5, <2>6, <3>1
  <2>12. Len(back) = Len(t) /\ \A n \in 1..Len(t) : StepReadAs(t[n], back[n], other)
    BY <2>4 DEF ReadAs
  <2>9. /\ Len(Back(a)) = Len(t) + 1 /\ Back(a)[Len(t) + 1] = read
        /\ \A i \in 1..Len(t) : Back(a)[i] = back[i]
    BY <2>4, <2>7, <2>12, AppendProperties, LenProperties
  <2>13. ASSUME NEW n \in 1..Len(a)
         PROVE  StepReadAs(a[n], Back(a)[n], other)
    <3>1. CASE n = Len(t) + 1
      BY <2>5, <2>8, <2>9, <3>1
    <3>2. CASE n # Len(t) + 1
      <4>1. n \in 1..Len(t)
        BY <2>8, <3>2
      <4> QED
        BY <2>8, <2>9, <2>12, <4>1
    <3> QED
      BY <3>1, <3>2
  <2>14. ReadAs(a, Back(a), other)
    BY <2>8, <2>9, <2>13 DEF ReadAs
  <2> QED
    BY <2>11, <2>14 DEF a
<1>3. \A t \in Seq(SourceStep) : t \in Good
  <2> HIDE DEF Good
  <2> QED
    BY <1>1, <1>2, Joining!SequenceInduction
<1> QED
  BY <1>3

-----------------------------------------------------------------------------
(* A checklist is written as one list, unless one is open before it.        *)
LEMMA WriteBoxes ==
  ASSUME NEW c \in Seq(Item), ~ WriteContent(c).listOpen,
         NEW items \in Seq(ListItem), items # << >>, \A i \in 1..Len(items) : items[i].task
  PROVE  WriteContent(c \o Boxes(items))
           = [blocks |-> Append(WriteContent(c).blocks, TaskList(items)), listOpen |-> TRUE]
<1> DEFINE out == WriteContent(c)
           Tasks(d) == \A i \in 1..Len(d) : d[i].task
           Result(d) == [blocks |-> Append(out.blocks, TaskList(d)), listOpen |-> TRUE]
           Good == {d \in Seq(ListItem) :
                      d # << >> /\ Tasks(d) => WriteContent(c \o Boxes(d)) = Result(d)}
<1>0. out \in Out /\ ~ out.listOpen
  BY ContentWritten
<1> HIDE DEF out
<1>1. << >> \in Good
  OBVIOUS
<1>2. ASSUME NEW d \in Seq(ListItem), NEW x \in ListItem, d \in Good
      PROVE  Append(d, x) \in Good
  <2> SUFFICES ASSUME Tasks(Append(d, x))
               PROVE  WriteContent(c \o Boxes(Append(d, x))) = Result(Append(d, x))
    BY AppendProperties
  <2> DEFINE n == Len(d)
             e == Append(d, x)
             y == Checkbox(x.level)
  <2>1. /\ n \in Nat /\ Len(e) = n + 1 /\ e[n + 1] = x /\ \A i \in 1..n : e[i] = d[i]
    BY AppendProperties, LenProperties
  <2>2. Tasks(d) /\ x.task
    <3> HIDE DEF e
    <3>1. Tasks(e) /\ n + 1 \in 1..Len(e) /\ \A i \in 1..n : i \in 1..Len(e)
      BY <2>1 DEF e
    <3> QED
      BY <2>1, <3>1
  <2>3. x.level \in Nat /\ x = BoxItem(x.level)
    BY <2>2 DEF ListItem, BoxItem
  <2>4. y \in Item /\ y.k = "checkbox" /\ y.level = x.level
    BY <2>3, ItemMade DEF Checkbox
  <2>5. Boxes(d) \in Seq(Item) /\ Boxes(e) = Append(Boxes(d), y)
    BY BoxesAppend
  <2> HIDE DEF y, e
  <2>6. c \o Boxes(e) = Append(c \o Boxes(d), y) /\ c \o Boxes(d) \in Seq(Item)
    BY <2>4, <2>5, ConcatAppend, ConcatProperties
  <2>7. WriteContent(c \o Boxes(e)) = WriteItem(WriteContent(c \o Boxes(d)), y)
    BY <2>4, <2>6, ContentSteps
  <2>8. CASE d = << >>
    <3>1. Boxes(d) = << >>
      BY <2>8, BoxesAppend
    <3>2. c \o Boxes(d) = c
      BY <3>1, ConcatEmptySeq
    <3>3. WriteItem(out, y)
            = [blocks |-> Append(out.blocks, TaskList(<< BoxItem(x.level) >>)),
               listOpen |-> TRUE]
      BY <1>0, <2>4, WriteBox
    <3>4. e = << BoxItem(x.level) >>
      BY <2>3, <2>8 DEF e
    <3>5. WriteContent(c \o Boxes(d)) = out
      BY <3>2 DEF out
    <3>6. WriteContent(c \o Boxes(e)) = Result(e)
      BY <2>7, <3>3, <3>4, <3>5
    <3> QED
      BY <3>6 DEF e
  <2>9. CASE d # << >>
    <3> DEFINE w == Result(d)
    <3>1. WriteContent(c \o Boxes(d)) = w
      BY <1>2, <2>2, <2>9
    <3>2. TaskList(d) \in MarkdownBlock /\ out.blocks \in Seq(MarkdownBlock)
      BY <1>0, TaskListMade DEF Out
    <3>3. Append(out.blocks, TaskList(d)) \in Seq(MarkdownBlock)
      BY <3>2, AppendProperties
    <3>4. w \in Out /\ w.listOpen /\ w.blocks = Append(out.blocks, TaskList(d))
      BY <3>3 DEF Out
    <3> HIDE DEF w
    <3>5. WriteItem(w, y)
            = [blocks |-> Append(out.blocks, TaskList(Append(d, BoxItem(y.level)))),
               listOpen |-> TRUE]
      BY <2>4, <3>2, <3>4, WriteBox
    <3>6. Append(d, BoxItem(y.level)) = e
      BY <2>3, <2>4 DEF e
    <3>7. WriteContent(c \o Boxes(e)) = Result(e)
      BY <2>7, <3>1, <3>5, <3>6
    <3> QED
      BY <3>7 DEF e
  <2> QED
    BY <2>8, <2>9
<1>3. \A d \in Seq(ListItem) : d \in Good
  <2> HIDE DEF Good
  <2> QED
    BY <1>1, <1>2, Joining!SequenceInduction
<1>4. WriteContent(c \o Boxes(items)) = Result(items)
  BY <1>3
<1> QED
  BY <1>4 DEF out

(* Prose is written as it is, behind what there was.                        *)
LEMMA WriteProse ==
  ASSUME NEW c \in Seq(Item), NEW t \in Seq(MarkdownBlock), t # << >>
  PROVE  WriteContent(WithProse(c, t))
           = [blocks |-> WriteContent(c).blocks \o t, listOpen |-> FALSE]
<1>0. WriteContent(c) \in Out /\ WriteContent(c).blocks \in Seq(MarkdownBlock)
  BY ContentWritten DEF Out
<1>1. CASE c = << >> \/ c[Len(c)].k # "prose"
  <2> DEFINE p == Prose(t)
  <2>1. p \in Item /\ p.k = "prose" /\ p.text = t
    BY ItemMade DEF Prose
  <2>2. WithProse(c, t) = Append(c, p)
    BY <1>1, WithProseDoes
  <2> HIDE DEF p
  <2>3. WriteContent(Append(c, p)) = WriteItem(WriteContent(c), p)
    BY <2>1, ContentSteps
  <2>4. WriteItem(WriteContent(c), p)
          = [blocks |-> WriteContent(c).blocks \o t, listOpen |-> FALSE]
    BY <1>0, <2>1, WriteOther
  <2> QED
    BY <2>2, <2>3, <2>4
<1>2. CASE c # << >> /\ c[Len(c)].k = "prose"
  <2>1. PICK front \in Seq(Item), p \in Item : c = Append(front, p)
    BY <1>2, SequenceEmptyOrAppend
  <2>2. p.k = "prose"
    BY <1>2, <2>1, LastReplaced
  <2>3. PICK x \in Seq(MarkdownBlock) : x = p.text
    BY <2>2, ItemShape
  <2> DEFINE q == Prose(x \o t)
             out == WriteContent(front)
  <2>4. q \in Item /\ WithProse(c, t) = Append(front, q)
    BY <2>1, <2>2, <2>3, WithProseLast
  <2>5. q.k = "prose" /\ q.text = x \o t
    BY DEF Prose
  <2> HIDE DEF q
  <2>6. out \in Out /\ out.blocks \in Seq(MarkdownBlock)
    BY ContentWritten DEF Out
  <2>7. /\ WriteContent(Append(front, q)) = WriteItem(out, q)
        /\ WriteContent(c) = WriteItem(out, p)
    BY <2>1, <2>4, ContentSteps
  <2> HIDE DEF out
  <2>8. WriteItem(out, q) = [blocks |-> out.blocks \o (x \o t), listOpen |-> FALSE]
    BY <2>4, <2>5, <2>6, WriteOther
  <2>9. WriteItem(out, p) = [blocks |-> out.blocks \o x, listOpen |-> FALSE]
    BY <2>2, <2>3, <2>6, WriteOther
  <2>10. WriteContent(c).blocks = out.blocks \o x
    BY <2>7, <2>9
  <2>11. (out.blocks \o x) \o t = out.blocks \o (x \o t)
    <3>1. PICK bs \in Seq(MarkdownBlock) : bs = out.blocks
      BY <2>6
    <3>2. (bs \o x) \o t = bs \o (x \o t)
      BY ConcatAssociative
    <3> QED
      BY <3>1, <3>2
  <2> QED
    BY <2>4, <2>7, <2>8, <2>10, <2>11
<1> QED
  BY <1>1, <1>2

(* What was read of a block is written as the block it was.                 *)
LEMMA WriteBlock ==
  ASSUME NEW c \in Seq(Item), NEW b \in SourceBlock,
         PureTaskList(b) => ~ WriteContent(c).listOpen /\ b.marker = "-"
  PROVE  /\ WriteContent(ReadBlock(c, b)).blocks = Append(WriteContent(c).blocks, b)
         /\ WriteContent(ReadBlock(c, b)).listOpen <=> PureTaskList(b)
<1> DEFINE out == WriteContent(c)
<1>0. b \in MarkdownBlock /\ out \in Out /\ out.blocks \in Seq(MarkdownBlock)
      /\ (b.k = "list" => NestedItems(b.items))
  BY ContentWritten DEF SourceBlock, Out
<1>1. CASE PureTaskList(b)
  <2>1. b.k = "list" /\ \A i \in DOMAIN b.items : b.items[i].task
    BY <1>1 DEF PureTaskList
  <2>2. b.items \in Seq(ListItem) /\ ReadBlock(c, b) = c \o Boxes(b.items)
    BY <1>1, ReadBlockCases
  <2>3. b.items # << >> /\ \A i \in 1..Len(b.items) : b.items[i].task
    BY <1>0, <2>1, <2>2, LenProperties DEF NestedItems
  <2>4. b = TaskList(b.items)
    BY <1>0, <1>1, <2>1, BlockShape DEF TaskList
  <2>5. WriteContent(c \o Boxes(b.items))
          = [blocks |-> Append(out.blocks, TaskList(b.items)), listOpen |-> TRUE]
    BY <1>1, <2>2, <2>3, WriteBoxes
  <2>6. WriteContent(ReadBlock(c, b)) = [blocks |-> Append(out.blocks, b), listOpen |-> TRUE]
    BY <2>2, <2>4, <2>5
  <2>7. \A x : [blocks |-> x, listOpen |-> TRUE].blocks = x
    OBVIOUS
  <2>8. \A x : [blocks |-> x, listOpen |-> TRUE].listOpen = TRUE
    OBVIOUS
  <2>9. WriteContent(ReadBlock(c, b)).blocks = Append(out.blocks, b)
    BY <2>6, <2>7
  <2>10. WriteContent(ReadBlock(c, b)).listOpen
    BY <2>6, <2>8
  <2> QED
    BY <1>1, <2>9, <2>10
<1>2. CASE b.k = "inputs" \/ (b.k = "table" /\ Fillable(b.cells))
  <2>1. b \in Item /\ b.k \notin {"checkbox", "prose"} /\ ~ PureTaskList(b)
    BY <1>0, <1>2, BlockShape, ItemMade DEF PureTaskList
  <2>2. ReadBlock(c, b) = Append(c, b)
    BY <1>2, ReadBlockCases
  <2>3. WriteContent(Append(c, b)) = WriteItem(out, b)
    BY <2>1, ContentSteps
  <2>4. WriteItem(out, b) = [blocks |-> out.blocks \o << b >>, listOpen |-> FALSE]
    BY <1>0, <2>1, WriteOther
  <2>5. out.blocks \o << b >> = Append(out.blocks, b)
    BY <1>0, ConcatAppend
  <2> QED
    BY <2>1, <2>2, <2>3, <2>4, <2>5
<1>3. CASE ~ PureTaskList(b) /\ b.k # "inputs" /\ ~ (b.k = "table" /\ Fillable(b.cells))
  <2>1. ReadBlock(c, b) = WithProse(c, << b >>)
    BY <1>3, ReadBlockCases
  <2>2. << b >> \in Seq(MarkdownBlock) /\ << b >> # << >>
    BY <1>0
  <2>3. WriteContent(WithProse(c, << b >>))
          = [blocks |-> out.blocks \o << b >>, listOpen |-> FALSE]
    BY <2>2, WriteProse
  <2>4. out.blocks \o << b >> = Append(out.blocks, b)
    BY <1>0, ConcatAppend
  <2> QED
    BY <1>3, <2>1, <2>3, <2>4
<1> QED
  BY <1>1, <1>2, <1>3

-----------------------------------------------------------------------------
(* A body whose lists all have the marker checklists are written with.      *)
Dashed(blocks) == \A i \in 1..Len(blocks) : blocks[i].k = "list" => blocks[i].marker = "-"
Headed(blocks) == blocks # << >> /\ blocks[1].k = "head"

(* Its steps are written as the blocks they were read from.                 *)
Rewritten(blocks) ==
  \E front \in Seq(Step), s \in Step :
    /\ StepsOf(blocks) = Append(front, s)
    /\ WriteSteps(Append(front, s)) = blocks
    /\ WriteContent(s.content).listOpen <=> PureTaskList(blocks[Len(blocks)])

(* A step with one block more in its content.                               *)
LEMMA WriteStepBlock ==
  ASSUME NEW s \in Step, NEW y \in Step, NEW b \in MarkdownBlock, y.named = s.named,
         WriteContent(y.content).blocks = Append(WriteContent(s.content).blocks, b)
  PROVE  WriteStep(y) = Append(WriteStep(s), b)
<1> DEFINE head == [k |-> "head", named |-> s.named]
<1>1. PICK bs \in Seq(MarkdownBlock) : bs = WriteContent(s.content).blocks
  BY ContentWritten DEF Step, Out
<1>2. << head >> \in Seq(MarkdownBlock)
  BY DEF Step, MarkdownBlock
<1>3. WriteStep(s) = << head >> \o bs /\ WriteStep(y) = << head >> \o Append(bs, b)
  BY <1>1 DEF WriteStep
<1> HIDE DEF head
<1> QED
  BY <1>1, <1>2, <1>3, ConcatAppend

(* By induction on the blocks.                                             *)
LEMMA BodyWritten ==
  ASSUME NEW blocks \in Seq(SourceBlock), Joined(blocks), Dashed(blocks), Headed(blocks)
  PROVE  Rewritten(blocks)
<1> DEFINE Good == {t \in Seq(SourceBlock) :
                      Joined(t) /\ Dashed(t) /\ Headed(t) => Rewritten(t)}
<1>1. << >> \in Good
  BY DEF Headed
<1>2. ASSUME NEW t \in Seq(SourceBlock), NEW b \in SourceBlock, t \in Good
      PROVE  Append(t, b) \in Good
  <2> DEFINE n == Len(t)
             u == Append(t, b)
  <2>1. /\ u \in Seq(SourceBlock) /\ Len(u) = n + 1 /\ n \in Nat /\ u[n + 1] = b
        /\ u[Len(u)] = b /\ \A i \in 1..n : u[i] = t[i]
    BY AppendProperties, LenProperties
  <2> SUFFICES ASSUME Joined(u), Dashed(u), Headed(u)
               PROVE  Rewritten(u)
    BY <2>1
  <2>2. b \in MarkdownBlock
    BY DEF SourceBlock
  <2>3. StepsOf(u) = ReadBody(StepsOf(t), b)
    BY BodySteps
  <2>4. t # << >> => n \in 1..n /\ 1 \in 1..n
    BY EmptySeq
  <2> HIDE DEF u
  <2>5. Joined(t) /\ Dashed(t) /\ (t # << >> => Headed(t))
    <3>1. \A i \in 1..(n - 1) : i \in 1..(Len(u) - 1) /\ i \in 1..n /\ i + 1 \in 1..n
      BY <2>1
    <3>2. Joined(t)
      BY <2>1, <3>1 DEF Joined
    <3>3. Dashed(t)
      BY <2>1 DEF Dashed
    <3>4. t # << >> => Headed(t)
      BY <2>1, <2>4 DEF Headed
    <3> QED
      BY <3>2, <3>3, <3>4
  <2>6. CASE b.k = "head"
    <3> DEFINE s == [named |-> b.named, content |-> << >>]
    <3>1. << >> \in Seq(Item) /\ b.named \in BOOLEAN /\ b = [k |-> "head", named |-> b.named]
      BY <2>2, <2>6, BlockShape
    <3>2. s \in Step /\ s.content = << >> /\ s.named = b.named
      BY <3>1 DEF Step
    <3>3. StepsOf(u) = Append(StepsOf(t), s)
      BY <2>3, <2>6 DEF ReadBody
    <3> HIDE DEF s
    <3>4. StepsOf(t) \in Seq(Step)
      <4>1. SourceStep \subseteq Step
        BY DEF SourceStep
      <4> QED
        BY <4>1, BodyRead, SeqMonotonic
    <3>5. WriteContent(s.content) = NothingWritten
      BY <3>2, ContentSteps
    <3>6. WriteStep(s) = << b >>
      <4>1. << b >> \in Seq(MarkdownBlock)
        BY <2>2
      <4>2. WriteContent(s.content).blocks = << >>
        BY <3>5 DEF NothingWritten
      <4>3. [k |-> "head", named |-> s.named] = b
        BY <3>1, <3>2
      <4>4. WriteStep(s) = << b >> \o << >>
        BY <4>2, <4>3 DEF WriteStep
      <4> QED
        BY <4>1, <4>4, ConcatEmptySeq
    <3>7. WriteSteps(StepsOf(t)) = t
      <4>1. CASE t = << >>
        BY <4>1, BodySteps, WriteStepsAppend
      <4>2. CASE t # << >>
        BY <1>2, <2>5, <4>2 DEF Rewritten
      <4> QED
        BY <4>1, <4>2
    <3>8. WriteSteps(Append(StepsOf(t), s)) = t \o << b >>
      BY <3>2, <3>4, <3>6, <3>7, WriteStepsAppend
    <3>9. t \o << b >> = u
      BY ConcatAppend DEF u
    <3>10. ~ WriteContent(s.content).listOpen /\ ~ PureTaskList(u[Len(u)])
      BY <2>1, <2>6, <3>5 DEF NothingWritten, PureTaskList
    <3> QED
      BY <3>2, <3>3, <3>4, <3>8, <3>9, <3>10 DEF Rewritten
  <2>7. CASE b.k # "head"
    <3>1. t # << >>
      <4>1. t = << >> => n = 0 /\ u[1] = b
        BY <2>1
      <4> QED
        BY <2>7, <4>1 DEF Headed
    <3>2. PICK front \in Seq(Step), s \in Step :
            /\ StepsOf(t) = Append(front, s) /\ WriteSteps(Append(front, s)) = t
            /\ WriteContent(s.content).listOpen <=> PureTaskList(t[n])
      BY <1>2, <2>5, <3>1 DEF Rewritten
    <3>3. PICK c \in Seq(Item) : c = s.content
      BY DEF Step
    <3>4. PureTaskList(b) => ~ WriteContent(c).listOpen /\ b.marker = "-"
      <4> SUFFICES ASSUME PureTaskList(b)
                   PROVE  ~ WriteContent(c).listOpen /\ b.marker = "-"
        OBVIOUS
      <4>1. b.k = "list" /\ n + 1 \in 1..Len(u)
        BY <2>1 DEF PureTaskList
      <4>2. b.marker = "-"
        BY <2>1, <4>1 DEF Dashed
      <4>3. ASSUME t[n].k = "list"
            PROVE  FALSE
        <5>1. t[n].marker = "-"
          BY <2>4, <2>5, <3>1, <4>3 DEF Dashed
        <5>2. n \in 1..(Len(u) - 1) /\ u[n] = t[n]
          BY <2>1, <2>4, <3>1
        <5>3. u[n].marker # u[n + 1].marker
          BY <2>1, <4>1, <4>3, <5>2 DEF Joined
        <5> QED
          BY <2>1, <4>2, <5>1, <5>2, <5>3
      <4>4. ~ PureTaskList(t[n])
        BY <4>3 DEF PureTaskList
      <4> QED
        BY <3>2, <3>3, <4>2, <4>4
    <3>5. /\ WriteContent(ReadBlock(c, b)).blocks = Append(WriteContent(c).blocks, b)
          /\ WriteContent(ReadBlock(c, b)).listOpen <=> PureTaskList(b)
      BY <3>4, WriteBlock
    <3>6. ReadBlock(s.content, b) \in Seq(Item)
      <4>1. StepsOf(t) \in Seq(SourceStep)
        BY BodyRead
      <4>2. Append(front, s)[Len(Append(front, s))] = s /\ Append(front, s) # << >>
        BY LastReplaced
      <4>3. s \in SourceStep
        <5>1. Append(front, s) \in Seq(SourceStep)
          BY <3>2, <4>1
        <5>2. Len(Append(front, s)) \in 1..Len(Append(front, s))
          BY <4>2, <5>1, EmptySeq
        <5> QED
          BY <4>2, <5>1, <5>2, ElementOfSeq
      <4> QED
        BY <3>3, <4>3, ReadBlockKeeps DEF SourceStep
    <3> DEFINE y == [s EXCEPT !.content = ReadBlock(@, b)]
    <3>7. /\ y \in Step /\ y.content = ReadBlock(s.content, b) /\ y.named = s.named
          /\ ReadBody(Append(front, s), b) = Append(front, y)
      BY <2>7, <3>6, ReadBodyLast
    <3> HIDE DEF y
    <3>8. WriteStep(y) = Append(WriteStep(s), b)
      BY <2>2, <3>3, <3>5, <3>7, WriteStepBlock
    <3>9. WriteSteps(Append(front, y)) = u
      <4>1. PICK w \in Seq(MarkdownBlock) : w = WriteSteps(front)
        BY WriteStepsAppend
      <4>2. PICK v \in Seq(MarkdownBlock) : v = WriteStep(s)
        BY StepWritten
      <4>3. w \o v = t
        BY <3>2, <4>1, <4>2, WriteStepsAppend
      <4>4. WriteSteps(Append(front, y)) = w \o Append(v, b)
        BY <3>7, <3>8, <4>1, <4>2, WriteStepsAppend
      <4>5. w \o Append(v, b) = Append(w \o v, b)
        BY <2>2, ConcatAppend
      <4> QED
        BY <4>3, <4>4, <4>5 DEF u
    <3>10. WriteContent(y.content).listOpen <=> PureTaskList(u[Len(u)])
      BY <2>1, <3>3, <3>5, <3>7
    <3>11. StepsOf(u) = Append(front, y)
      BY <2>3, <3>2, <3>7
    <3> QED
      BY <3>7, <3>9, <3>10, <3>11 DEF Rewritten
  <2> QED
    BY <2>6, <2>7
<1>3. \A t \in Seq(SourceBlock) : t \in Good
  <2> HIDE DEF Good
  <2> QED
    BY <1>1, <1>2, Joining!SequenceInduction
<1> QED
  BY <1>3

-----------------------------------------------------------------------------
(* Joining lists gives them no other marker.                                *)
LEMMA DashedBlocks ==
  ASSUME NEW text \in Seq(SourceBlock), Dashed(text)
  PROVE  Dashed(MarkdownBlocks(text))
<1> DEFINE Good == {t \in Seq(SourceBlock) : Dashed(t) => Dashed(MarkdownBlocks(t))}
<1>1. << >> \in Good
  BY JoinSteps
<1>2. ASSUME NEW t \in Seq(SourceBlock), NEW b \in SourceBlock, t \in Good
      PROVE  Append(t, b) \in Good
  <2> DEFINE u == Append(t, b)
             n == Len(t)
             bs == MarkdownBlocks(t)
             m == Len(bs)
             out == JoinLists(bs, b)
  <2>1. /\ u \in Seq(SourceBlock) /\ Len(u) = n + 1 /\ n \in Nat /\ u[n + 1] = b
        /\ \A i \in 1..n : u[i] = t[i]
    BY AppendProperties, LenProperties
  <2> SUFFICES ASSUME Dashed(u)
               PROVE  Dashed(MarkdownBlocks(u))
    BY <2>1
  <2>2. MarkdownBlocks(u) = out
    BY JoinSteps
  <2> HIDE DEF u
  <2>3. Dashed(t)
    BY <2>1 DEF Dashed
  <2>4. b.k = "list" => b.marker = "-"
    <3>1. n + 1 \in 1..Len(u)
      BY <2>1
    <3> QED
      BY <2>1, <3>1 DEF Dashed
  <2>5. Dashed(bs) /\ bs \in Seq(SourceBlock)
    BY <1>2, <2>3, BlocksOfText
  <2> HIDE DEF bs
  <2>6. CASE bs # << >> /\ b.k = "list" /\ bs[m].k = "list" /\ bs[m].marker = b.marker
    <3> DEFINE l == [bs[m] EXCEPT !.items = @ \o b.items]
    <3>1. m \in 1..m /\ m \in Nat /\ bs[m] \in SourceBlock
      BY <2>5, <2>6, EmptySeq, ElementOfSeq
    <3>2. l \in SourceBlock
      BY <2>6, <3>1, JoinedList
    <3>3. l.k = "list" /\ l.marker = bs[m].marker
      <4>1. bs[m] = [k |-> "list", marker |-> bs[m].marker, items |-> bs[m].items]
        BY <2>6, <3>1, BlockShape DEF SourceBlock
      <4> QED
        BY <4>1
    <3>4. out = [bs EXCEPT ![m] = l]
      BY <2>6 DEF JoinLists, Last
    <3> HIDE DEF l
    <3>5. Len(out) = m /\ \A i \in 1..m : out[i] = IF i = m THEN l ELSE bs[i]
      BY <2>5, <3>1, <3>2, <3>4, ExceptSeq
    <3> HIDE DEF out
    <3>6. Dashed(out)
      BY <2>4, <2>5, <2>6, <3>3, <3>5 DEF Dashed
    <3> QED
      BY <2>2, <3>6
  <2>7. CASE ~ (bs # << >> /\ b.k = "list" /\ bs[m].k = "list" /\ bs[m].marker = b.marker)
    <3>1. out = Append(bs, b)
      BY <2>7 DEF JoinLists, Last
    <3> HIDE DEF out
    <3>2. /\ m \in Nat /\ Len(out) = m + 1 /\ out[m + 1] = b /\ \A i \in 1..m : out[i] = bs[i]
      BY <2>5, <3>1, AppendProperties, LenProperties
    <3>3. Dashed(out)
      BY <2>4, <2>5, <3>2 DEF Dashed
    <3> QED
      BY <2>2, <3>3
  <2> QED
    BY <2>6, <2>7
<1>3. \A t \in Seq(SourceBlock) : t \in Good
  <2> HIDE DEF Good
  <2> QED
    BY <1>1, <1>2, Joining!SequenceInduction
<1> QED
  BY <1>3

-----------------------------------------------------------------------------
(* The steps of a file that is not refused.                                 *)
LEMMA FileSteps ==
  ASSUME file \in Seq(SourceBlocks), ParseTemplate(file) # NoText
  PROVE  /\ file \in Seq(SourceBlock)
         /\ MarkdownBlocks(file) \in Seq(SourceBlock) /\ Headed(MarkdownBlocks(file))
         /\ ParseTemplate(file) = StepsOf(MarkdownBlocks(file))
         /\ ParseTemplate(file) \in Seq(SourceStep)
<1>1. file \in Seq(SourceBlock)
  BY SourceBlocksAssumption, SeqMonotonic DEF SourceBlock
<1>2. MarkdownBlocks(file) \in Seq(SourceBlock)
  BY <1>1, BlocksOfText
<1>3. Headed(MarkdownBlocks(file)) /\ ParseTemplate(file) = StepsOf(MarkdownBlocks(file))
  BY DEF ParseTemplate, Headed
<1> QED
  BY <1>1, <1>2, <1>3, BodyRead

(* Steps of a file are normalised to themselves.                            *)
LEMMA SourceNormalized ==
  ASSUME NEW steps \in Seq(SourceStep)
  PROVE  steps \in Seq(Step) /\ Normalized(steps) = steps
<1>1. SourceStep \subseteq Step
  BY DEF SourceStep
<1>2. steps \in Seq(Step)
  BY <1>1, SeqMonotonic
<1>3. NormalContents(steps)
  BY DEF NormalContents, SourceStep, SourceContent
<1> QED
  BY <1>2, <1>3, NormalizedNormal

(* A file with dashes is written again, block for block, and reads the same.*)
LEMMA FileRewritten ==
  ASSUME file \in Seq(SourceBlocks), ParseTemplate(file) # NoText,
         \A i \in DOMAIN file : file[i].k = "list" => file[i].marker = "-"
  PROVE  /\ ToMarkdown(ParseTemplate(file)) = MarkdownBlocks(file)
         /\ MarkdownBlocks(file) # NoText
         /\ ParseTemplate(MarkdownBlocks(file)) = ParseTemplate(file)
<1> DEFINE blocks == MarkdownBlocks(file)
           steps == ParseTemplate(file)
<1>1. /\ file \in Seq(SourceBlock) /\ blocks \in Seq(SourceBlock) /\ Headed(blocks)
      /\ steps = StepsOf(blocks) /\ steps \in Seq(SourceStep)
  BY FileSteps
<1>2. Joined(blocks)
  BY <1>1, BlocksOfText
<1>3. Dashed(file)
  BY <1>1, LenProperties DEF Dashed
<1>4. Dashed(blocks)
  BY <1>1, <1>3, DashedBlocks
<1>5. MarkdownBlocks(blocks) = blocks
  BY <1>1, <1>2, JoiningJoined
<1>6. ParseTemplate(blocks) = steps
  BY <1>5 DEF ParseTemplate
<1>7. Rewritten(blocks)
  BY <1>1, <1>2, <1>4, BodyWritten
<1> HIDE DEF blocks, steps
<1>8. WriteSteps(steps) = blocks
  BY <1>1, <1>7 DEF Rewritten
<1>9. Normalized(steps) = steps
  BY <1>1, SourceNormalized
<1>10. ToMarkdown(steps) = blocks
  BY <1>6, <1>8, <1>9 DEF ToMarkdown, ReadsBackAs
<1>11. blocks # NoText
  <2>1. SourceBlock \subseteq MarkdownBlock
    BY DEF SourceBlock
  <2>2. blocks \in Seq(MarkdownBlock)
    BY <1>1, <2>1, SeqMonotonic
  <2> QED
    BY <2>2, NoTextAssumption
<1> QED
  BY <1>6, <1>10, <1>11 DEF blocks, steps

-----------------------------------------------------------------------------
(* A document without a change is what was made of the file: BlockNote may  *)
(* have altered the prose it does not keep, and no other.                   *)
AltersOnly(other) == Altering(other) /\ \A b \in DOMAIN other : ~ KeptByBlockNote(b)

OpenedAs(other) ==
  AltersOnly(other) /\ document = TemplateToBlocks(ParseTemplate(file), other)

Opened ==
  document # NoText /\ changes = 0 =>
    ParseTemplate(file) # NoText /\ \E other : OpenedAs(other)

TextInv == TextTypeOK /\ Opened /\ ExportReadsBack

(* It holds in the beginning.                                              *)
LEMMA TextInvInit == TextInit => TextInv
<1> SUFFICES ASSUME TextInit
             PROVE  TextInv
  OBVIOUS
<1>1. file = << >> /\ document = NoText /\ changes = 0 /\ export = NoText
  BY DEF TextInit
<1>2. file \in Seq(SourceBlocks) /\ Len(file) <= MaxBlocks
  BY <1>1, MaxBlocksAssumption
<1>3. changes \in 0..MaxBlocks
  BY <1>1, MaxBlocksAssumption
<1> QED
  BY <1>1, <1>2, <1>3 DEF TextInv, TextTypeOK, Opened, ExportReadsBack

(* What the conversion of a file may alter, and into what.                  *)
LEMMA AlterationsAlter ==
  ASSUME NEW blocks, NEW other \in Alterations(blocks)
  PROVE  AltersOnly(other)
<1>1. /\ DOMAIN other = AlteredBlocks(blocks)
      /\ \A b \in DOMAIN other : other[b] \in Conversions["list"] \cup Conversions["quote"]
  BY DEF Alterations
<1>2. Conversions["list"] \cup Conversions["quote"] \subseteq Seq(MarkdownChild)
  BY ConversionsAssumption
<1>3. \A b \in DOMAIN other : ~ KeptByBlockNote(b)
  BY <1>1 DEF AlteredBlocks
<1> QED
  BY <1>1, <1>2, <1>3 DEF AltersOnly, Altering

(* A step that changes neither the file nor the document leaves it so.      *)
LEMMA OpenedStays ==
  ASSUME Opened, document' = document, changes' = changes,
         ParseTemplate(file)' = ParseTemplate(file)
  PROVE  Opened'
<1> SUFFICES ASSUME document # NoText, changes = 0
             PROVE  Opened'
  BY DEF Opened
<1>1. ParseTemplate(file) # NoText /\ \E other : OpenedAs(other)
  BY DEF Opened
<1>2. PICK other : OpenedAs(other)
  BY <1>1
<1>3. OpenedAs(other)'
  BY <1>2 DEF OpenedAs
<1> QED
  BY <1>1, <1>3 DEF Opened

(* Every change of an editor keeps it.                                     *)
LEMMA ComposeKeeps ==
  ASSUME TextInv, NEW doc \in Seq(DocumentBlock), Compose(doc)
  PROVE  TextInv'
<1>1. /\ file \in Seq(SourceBlocks) /\ Len(file) <= MaxBlocks /\ changes \in 0..MaxBlocks
      /\ Len(file) \in Nat
  BY LenProperties DEF TextInv, TextTypeOK
<1>2. /\ Len(file) + changes < MaxBlocks /\ document' = doc /\ changes' = changes + 1
      /\ export' = NoText /\ file' = file
  BY DEF Compose
<1>3. changes' \in 0..MaxBlocks /\ changes' # 0
  BY <1>1, <1>2, MaxBlocksAssumption
<1> QED
  BY <1>1, <1>2, <1>3 DEF TextInv, TextTypeOK, Opened, ExportReadsBack

(* Every step keeps it.                                                    *)
LEMMA TextInvStep == TextInv /\ [TextNext]_textVars => TextInv'
<1> SUFFICES ASSUME TextInv, [TextNext]_textVars
             PROVE  TextInv'
  OBVIOUS
<1>0. /\ file \in Seq(SourceBlocks) /\ Len(file) <= MaxBlocks /\ changes \in 0..MaxBlocks
      /\ document # NoText => document \in Seq(DocumentBlock)
      /\ export # NoText => document # NoText /\ export \in Seq(MarkdownBlock)
      /\ Opened /\ ExportReadsBack
  BY DEF TextInv, TextTypeOK
<1>1. ASSUME NEW b \in SourceBlocks, WriteFile(b)
      PROVE  TextInv'
  <2>1. /\ document = NoText /\ Len(file) < MaxBlocks /\ file' = Append(file, b)
        /\ document' = document /\ changes' = changes /\ export' = export
    BY <1>1 DEF WriteFile
  <2>2. file' \in Seq(SourceBlocks) /\ Len(file') <= MaxBlocks
    <3>1. Len(file') = Len(file) + 1 /\ file' \in Seq(SourceBlocks) /\ Len(file) \in Nat
      BY <1>0, <2>1, AppendProperties, LenProperties
    <3> QED
      BY <2>1, <3>1, MaxBlocksAssumption
  <2>3. export = NoText
    BY <1>0, <2>1
  <2> QED
    BY <1>0, <2>1, <2>2, <2>3 DEF TextInv, TextTypeOK, Opened, ExportReadsBack
<1>2. ASSUME OpenFile
      PROVE  TextInv'
  <2>0. PICK other \in Alterations(MarkdownBlocks(file)) :
          document' = TemplateToBlocks(ParseTemplate(file), other)
    BY <1>2 DEF OpenFile
  <2>1. /\ document = NoText /\ ParseTemplate(file) # NoText
        /\ file' = file /\ changes' = changes /\ export' = export
    BY <1>2 DEF OpenFile
  <2>2. ParseTemplate(file) \in Seq(Step)
    <3>1. ParseTemplate(file) \in Seq(SourceStep)
      BY <1>0, <2>1, FileSteps
    <3> QED
      BY <3>1, SourceNormalized
  <2>6. AltersOnly(other)
    BY AlterationsAlter
  <2>3. document' \in Seq(DocumentBlock)
    BY <2>0, <2>2, <2>6, TemplateToBlocksAppend DEF AltersOnly
  <2>4. export = NoText
    BY <1>0, <2>1
  <2>5. ParseTemplate(file)' = ParseTemplate(file)
    BY <2>1 DEF ParseTemplate
  <2>7. Opened'
    <3>1. OpenedAs(other)'
      BY <2>0, <2>5, <2>6 DEF OpenedAs
    <3> QED
      BY <2>1, <2>5, <3>1 DEF Opened
  <2>8. TextTypeOK'
    BY <1>0, <2>1, <2>3, <2>4 DEF TextTypeOK
  <2>9. ExportReadsBack'
    BY <2>1, <2>4 DEF ExportReadsBack
  <2> QED
    BY <2>7, <2>8, <2>9 DEF TextInv
<1>3. ASSUME NEW named \in BOOLEAN, AddStep(named)
      PROVE  TextInv'
  <2> DEFINE b == [k |-> "step", named |-> named, children |-> << >>]
  <2>1. b \in DocumentBlock
    <3>1. << >> \in Seq(StepChild)
      OBVIOUS
    <3> QED
      BY <3>1 DEF DocumentBlock
  <2>2. Append(document, b) \in Seq(DocumentBlock) /\ Compose(Append(document, b))
    <3>1. document \in Seq(DocumentBlock) /\ Compose(Append(document, b))
      BY <1>0, <1>3 DEF AddStep
    <3> QED
      BY <2>1, <3>1, AppendProperties
  <2> QED
    BY <2>2, ComposeKeeps
<1>4. ASSUME AddOutside
      PROVE  TextInv'
  <2> DEFINE b == [k |-> "outside"]
  <2>1. b \in DocumentBlock
    BY DEF DocumentBlock
  <2>2. Append(document, b) \in Seq(DocumentBlock) /\ Compose(Append(document, b))
    <3>1. document \in Seq(DocumentBlock) /\ Compose(Append(document, b))
      BY <1>0, <1>4 DEF AddOutside
    <3> QED
      BY <2>1, <3>1, AppendProperties
  <2> QED
    BY <2>2, ComposeKeeps
<1>5. ASSUME NEW b \in DocumentBlocks, AddBlock(b)
      PROVE  TextInv'
  <2> DEFINE n == Len(document)
             doc == [document EXCEPT ![n].children = Append(@, b)]
  <2>1. document \in Seq(DocumentBlock) /\ document[n].k = "step" /\ Compose(doc)
    BY <1>0, <1>5 DEF AddBlock, Last
  <2>2. doc \in Seq(DocumentBlock)
    <3>1. CASE document = << >>
      <4>1. doc = << >>
        BY <3>1
      <4> HIDE DEF doc
      <4> QED
        BY <4>1, EmptySeq
    <3>2. CASE document # << >>
      <4> DEFINE l == document[n]
                 m == [l EXCEPT !.children = Append(@, b)]
      <4>1. n \in 1..n /\ l \in DocumentBlock
        BY <2>1, <3>2, EmptySeq, ElementOfSeq
      <4>2. l \in [k : {"step"}, named : BOOLEAN, children : Seq(StepChild)]
        BY <2>1, <4>1 DEF DocumentBlock
      <4>3. b \in StepChild
        BY DocumentBlocksAssumption
      <4>4. Append(l.children, b) \in Seq(StepChild)
        BY <4>2, <4>3, AppendProperties
      <4>5. m \in [k : {"step"}, named : BOOLEAN, children : Seq(StepChild)]
        BY <4>2, <4>4
      <4>6. m \in DocumentBlock
        BY <4>5 DEF DocumentBlock
      <4>7. doc = [document EXCEPT ![n] = m]
        OBVIOUS
      <4> HIDE DEF m
      <4> QED
        BY <2>1, <4>1, <4>6, <4>7, ExceptSeq
    <3> QED
      BY <3>1, <3>2
  <2> HIDE DEF doc
  <2> QED
    BY <2>1, <2>2, ComposeKeeps
<1>6. ASSUME ExportTemplate
      PROVE  TextInv'
  <2> DEFINE steps == BlocksToTemplate(document)
  <2>1. /\ document # NoText /\ export' = ToMarkdown(steps)
        /\ file' = file /\ document' = document /\ changes' = changes
    BY <1>6 DEF ExportTemplate
  <2>2. steps \in Seq(Step) /\ NormalContents(steps)
    BY <1>0, <2>1, DocumentRead
  <2>3. Normalized(steps) = steps
    BY <2>2, NormalizedNormal
  <2>4. WriteSteps(steps) \in Seq(MarkdownBlock)
    BY <2>2, WriteStepsAppend
  <2>5. export' # NoText =>
          export' \in Seq(MarkdownBlock) /\ ParseTemplate(export') = steps
    BY <2>1, <2>3, <2>4 DEF ToMarkdown, ReadsBackAs
  <2>6. ParseTemplate(export)' = ParseTemplate(export')
    BY DEF ParseTemplate
  <2>7. Opened'
    <3>1. ParseTemplate(file)' = ParseTemplate(file)
      BY <2>1 DEF ParseTemplate
    <3> QED
      BY <1>0, <2>1, <3>1, OpenedStays
  <2>8. ExportReadsBack'
    BY <2>1, <2>5, <2>6 DEF ExportReadsBack
  <2> QED
    BY <1>0, <2>1, <2>5, <2>7, <2>8 DEF TextInv, TextTypeOK
<1>7. CASE UNCHANGED textVars
  <2>1. file' = file /\ document' = document /\ changes' = changes /\ export' = export
    BY <1>7 DEF textVars
  <2>2. ParseTemplate(file)' = ParseTemplate(file)
    BY <2>1 DEF ParseTemplate
  <2>3. Opened'
    BY <1>0, <2>1, <2>2, OpenedStays
  <2> QED
    BY <1>0, <2>1, <2>3 DEF TextInv, TextTypeOK, ExportReadsBack
<1> QED
  BY <1>1, <1>2, <1>3, <1>4, <1>5, <1>6, <1>7 DEF TextNext

(* Prose that is kept is not altered.                                       *)
LEMMA KeptIsLeft ==
  ASSUME NEW other, AltersOnly(other), NEW content \in Seq(Item), ProseKept(content)
  PROVE  ContentLeft(content, other)
<1> SUFFICES ASSUME NEW i \in 1..Len(content), content[i].k = "prose",
                    NEW j \in 1..Len(content[i].text)
             PROVE  content[i].text[j] \notin DOMAIN other
  BY DEF ContentLeft, TextLeft
<1>1. content[i] \in Item /\ i \in DOMAIN content
  BY ElementOfSeq, LenProperties
<1>2. content[i].text \in Seq(MarkdownBlock)
  BY <1>1, ItemShape
<1>3. content[i].text[j] \in Range(content[i].text)
  BY <1>2, LenProperties DEF Range
<1>4. KeptByBlockNote(content[i].text[j])
  BY <1>1, <1>3 DEF ProseKept
<1> QED
  BY <1>4 DEF AltersOnly

(* It says that a file survives.                                           *)
LEMMA TextInvSurvives == TextInv => FileSurvives
<1> DEFINE steps == ParseTemplate(file)
           read  == BlocksToTemplate(document)
           Survives(n) == InputsApart(steps[n].content) /\ ProseKept(steps[n].content)
<1> SUFFICES ASSUME TextInv, document # NoText, changes = 0
             PROVE  /\ Len(read) = Len(steps)
                    /\ \A n \in DOMAIN steps :
                         /\ read[n].named = steps[n].named
                         /\ Defs(read[n].content) = Defs(steps[n].content)
                         /\ Survives(n) => read[n] = steps[n]
                    /\ /\ \A n \in DOMAIN steps : Survives(n)
                       /\ \A i \in DOMAIN file : file[i].k = "list" => file[i].marker = "-"
                       => ToMarkdown(read) # NoText /\ ParseTemplate(ToMarkdown(read)) = steps
  BY DEF FileSurvives
<1>1. file \in Seq(SourceBlocks) /\ steps # NoText /\ document \in Seq(DocumentBlock)
  BY DEF TextInv, TextTypeOK, Opened
<1>2. PICK other : OpenedAs(other)
  BY DEF TextInv, Opened
<1>3. AltersOnly(other) /\ Altering(other) /\ document = TemplateToBlocks(steps, other)
  BY <1>2 DEF OpenedAs, AltersOnly
<1>4. steps \in Seq(SourceStep)
  BY <1>1, FileSteps
<1>5. /\ DOMAIN steps = 1..Len(steps) /\ Len(steps) \in Nat
      /\ \A n \in DOMAIN steps : steps[n] \in SourceStep
  BY <1>4, LenProperties, ElementOfSeq
<1>6. read \in Seq(Step)
  BY <1>1, DocumentRead
<1>7. ASSUME \A i \in DOMAIN file : file[i].k = "list" => file[i].marker = "-"
      PROVE  ToMarkdown(steps) # NoText /\ ParseTemplate(ToMarkdown(steps)) = steps
  BY <1>1, <1>7, FileRewritten
<1> HIDE DEF steps
<1>8. ReadAs(steps, read, other)
  BY <1>3, <1>4, TemplateReadBack
<1> HIDE DEF read
<1>9. Len(read) = Len(steps)
  BY <1>8 DEF ReadAs
<1>10. ASSUME NEW n \in DOMAIN steps
       PROVE  /\ read[n].named = steps[n].named
              /\ Defs(read[n].content) = Defs(steps[n].content)
              /\ Survives(n) => read[n] = steps[n]
  <2>1. StepReadAs(steps[n], read[n], other)
    BY <1>5, <1>8 DEF ReadAs
  <2>2. steps[n].content \in Seq(Item)
    BY <1>5 DEF SourceStep, Step
  <2>3. ProseKept(steps[n].content) => ContentLeft(steps[n].content, other)
    BY <1>3, <2>2, KeptIsLeft
  <2> QED
    BY <2>1, <2>3 DEF StepReadAs
<1>11. ASSUME \A n \in DOMAIN steps : Survives(n)
       PROVE  read = steps
  <2>1. SourceStep \subseteq Step
    BY DEF SourceStep
  <2>2. steps \in Seq(Step)
    BY <1>4, <2>1, SeqMonotonic
  <2>3. Agree(read, steps, Len(read))
    BY <1>5, <1>9, <1>10, <1>11 DEF Agree
  <2> QED
    BY <1>6, <1>9, <2>2, <2>3, SameElements
<1> QED
  BY <1>7, <1>9, <1>10, <1>11

-----------------------------------------------------------------------------
(* Documents are what the editor can hold and exports are Markdown,         *)
(* whatever was written into the file and changed in the document.          *)
THEOREM TextTypeCorrect == TextSpec => []TextTypeOK
<1>1. TextInv => TextTypeOK
  BY DEF TextInv
<1> QED
  BY <1>1, TextInvInit, TextInvStep, PTL DEF TextSpec

(* A workspace file, however long and whatever it holds, keeps its steps,   *)
(* headings and inputs when it is opened as a shared template, whatever     *)
(* BlockNote makes of the prose it alters; a step without such prose and    *)
(* without inputs blocks that touch is read back exactly; and a file of     *)
(* such steps, whose lists have the marker of checklists, is written as     *)
(* Markdown that reads as the same template.                                *)
THEOREM FileAlwaysSurvives == TextSpec => []FileSurvives
BY TextInvInit, TextInvStep, TextInvSurvives, PTL DEF TextSpec

(* What is exported is read back as the steps an execution would have.      *)
THEOREM ExportAlwaysReadsBack == TextSpec => []ExportReadsBack
<1>1. TextInv => ExportReadsBack
  BY DEF TextInv
<1> QED
  BY <1>1, TextInvInit, TextInvStep, PTL DEF TextSpec
=============================================================================
