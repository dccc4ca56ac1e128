----------------------------- MODULE MessageText -----------------------------
(***************************************************************************)
(* From what is typed in the message composer to what a reader sees        *)
(* (web/src/lib/messageFormat.ts): the editor's document is turned into    *)
(* Markdown, cleaned, sent, perhaps edited and saved again, and cut into   *)
(* blocks for display.                                                     *)
(*                                                                         *)
(* A line is its kind and a label that tells it from the other lines, 0    *)
(* for a line without text.                                                *)
(***************************************************************************)
EXTENDS Integers, Sequences, SequencesExt

CONSTANTS MaxLines,   \* bound on the lines typed
          MaxResaves  \* bound on the saves of an unchanged edit
ASSUME TextAssumption == MaxLines \in Nat /\ MaxResaves \in Nat

VARIABLES doc,        \* the editor's document: nodes [type, lines]
          typed,      \* the document the message was sent from
          storedLines,       \* the body stored, as lines
          resaves
textVars == <<doc, typed, storedLines, resaves>>

Ln(kind, n) == [kind |-> kind, n |-> n]
BlankLine == Ln("blank", 0)
FenceLine == Ln("fence", 0)
IsBlank(l) == l.kind = "blank"
Flatten(ss) == FoldLeft(LAMBDA acc, s: acc \o s, <<>>, ss)
\* String.replace(/^\n+|\n+$/g, ''), for lines.
Trimmed(s) ==
    LET full == {i \in DOMAIN s: ~IsBlank(s[i])}
    IN IF full = {} THEN <<>>
       ELSE SubSeq(s, CHOOSE i \in full: \A j \in full: i <= j, CHOOSE i \in full: \A j \in full: j <= i)

(***************************************************************************)
(* The editor's document as Markdown.                                      *)
(***************************************************************************)
HasContinuation(lines, i) == i < Len(lines) /\ lines[i + 1].kind \in {"sub", "more"}
\* serializeList: the empty items are left out; an empty first line with something
\* nested under it leaves its marker alone on a line.
ListLine(lines, i, marker) ==
    CASE lines[i].kind = "text" -> <<Ln(marker, lines[i].n)>>
      [] lines[i].kind = "blank" -> IF HasContinuation(lines, i) THEN <<Ln("marker", 0)>> ELSE <<>>
      [] lines[i].kind = "sub" -> <<Ln("bullet", lines[i].n)>>
      [] OTHER -> <<Ln("text", lines[i].n)>>
SerializeList(lines, marker) ==
    LET out == Flatten([i \in DOMAIN lines |-> ListLine(lines, i, marker)])
    IN IF out = <<>> THEN <<BlankLine>> ELSE out
NodeMarkdown(node) ==
    CASE node.type = "paragraph" -> node.lines
      [] node.type = "code" -> <<FenceLine>> \o node.lines \o <<FenceLine>>
      [] node.type = "quote" -> [i \in DOMAIN node.lines |-> Ln("quote", node.lines[i].n)]
      [] node.type = "bulletList" -> SerializeList(node.lines, "bullet")
      [] OTHER -> SerializeList(node.lines, "ordered")
EditorJsonToMarkdown(d) ==
    Trimmed(Flatten([i \in DOMAIN d |-> IF i = 1 THEN NodeMarkdown(d[i]) ELSE <<BlankLine>> \o NodeMarkdown(d[i])]))

(***************************************************************************)
(* normalizeMessageMarkdown: markers alone on a line are dropped outside   *)
(* code fences; two or more blank lines become one, everywhere.            *)
(***************************************************************************)
FencesBefore(body, i) == Len(SelectSeq(SubSeq(body, 1, i - 1), LAMBDA l: l.kind = "fence"))
WithoutMarkers(body) ==
    Flatten([i \in DOMAIN body |->
        IF body[i].kind = "marker" /\ FencesBefore(body, i) % 2 = 0 THEN <<>> ELSE <<body[i]>>])
NormalizeMessageMarkdown(body) ==
    LET kept == WithoutMarkers(body)
    IN Trimmed(Flatten([i \in DOMAIN kept |->
           IF i > 1 /\ IsBlank(kept[i]) /\ IsBlank(kept[i - 1]) THEN <<>> ELSE <<kept[i]>>]))

(***************************************************************************)
(* parseMessageBlocks.  The text between two fences is read line by line   *)
(* with a paragraph, a list and a quote under construction.                *)
(***************************************************************************)
Blk(type, items) == [type |-> type, items |-> items]
Spacer == Blk("spacer", <<>>)
Labels(lines) == [i \in DOMAIN lines |-> lines[i].n]
NoParse == [blocks |-> <<>>, paragraph |-> <<>>, listType |-> "none", items |-> <<>>, quote |-> <<>>]
FlushParagraph(p) ==
    IF p.paragraph = <<>> THEN p
    ELSE [p EXCEPT !.blocks = Append(@, Blk("paragraph", Labels(p.paragraph))), !.paragraph = <<>>]
FlushList(p) ==
    IF p.items = <<>> THEN p
    ELSE [p EXCEPT !.blocks = Append(@, Blk(p.listType, Labels(p.items))), !.items = <<>>, !.listType = "none"]
FlushQuote(p) ==
    LET value == Trimmed([i \in DOMAIN p.quote |-> IF p.quote[i].n = 0 THEN BlankLine ELSE p.quote[i]])
    IN [p EXCEPT !.blocks = IF value = <<>> THEN @ ELSE Append(@, Blk("quote", Labels(value))), !.quote = <<>>]
FlushAll(p) == FlushQuote(FlushList(FlushParagraph(p)))
WithSpacer(p) ==
    IF p.blocks = <<>> \/ Last(p.blocks) = Spacer THEN p ELSE [p EXCEPT !.blocks = Append(@, Spacer)]
ListItem(p, l, type) ==
    LET q == FlushQuote(FlushParagraph(p))
        r == IF q.listType \in {"none", type} THEN q ELSE FlushList(q)
    IN [r EXCEPT !.listType = type, !.items = Append(@, l)]
\* Mutant: a plain line does not end the list before it.
ReadLineLazily(p, l) ==
    CASE IsBlank(l) -> WithSpacer(FlushAll(p))
      [] l.kind = "bullet" -> ListItem(p, l, "bulletList")
      [] l.kind = "ordered" -> ListItem(p, l, "orderedList")
      [] l.kind = "quote" -> [FlushList(FlushParagraph(p)) EXCEPT !.quote = Append(@, l)]
      [] OTHER -> [FlushQuote(p) EXCEPT !.paragraph = <<l>>]
ReadLine(p, l) ==
    CASE IsBlank(l) -> WithSpacer(FlushAll(p))
      [] l.kind = "bullet" -> ListItem(p, l, "bulletList")
      [] l.kind = "ordered" -> ListItem(p, l, "orderedList")
      [] l.kind = "quote" -> [FlushList(FlushParagraph(p)) EXCEPT !.quote = Append(@, l)]
      [] OTHER -> [FlushQuote(FlushList(p)) EXCEPT !.paragraph = Append(@, l)]
AppendTextBlocks(blocks, text) ==
    LET lines == IF Trimmed(text) = <<>> THEN <<BlankLine>> ELSE Trimmed(text)
    IN FlushAll(FoldLeft(ReadLine, [NoParse EXCEPT !.blocks = blocks], lines)).blocks
\* One line of the search for fences: f.open says a fence is open, f.cur holds the
\* lines since the last fence, f.first that no fence was met yet.
NextFence(f, l) ==
    CASE l.kind # "fence" -> [f EXCEPT !.cur = Append(@, l)]
      [] l.kind = "fence" /\ f.open ->
           [f EXCEPT !.blocks = Append(@, Blk("code", Labels(Trimmed(f.cur)))), !.cur = <<>>, !.open = FALSE]
      [] OTHER ->
           [f EXCEPT !.blocks = IF f.first /\ f.cur = <<>> THEN @ ELSE AppendTextBlocks(@, f.cur),
                     !.cur = <<>>, !.open = TRUE, !.first = FALSE]
WithoutLastSpacers(blocks) ==
    LET full == {i \in DOMAIN blocks: blocks[i] # Spacer}
    IN IF full = {} THEN <<>> ELSE SubSeq(blocks, 1, CHOOSE i \in full: \A j \in full: j <= i)
ParseMessageBlocks(body) ==
    LET f == FoldLeft(NextFence, [blocks |-> <<>>, cur |-> <<>>, open |-> FALSE, first |-> TRUE], body)
        all == CASE f.open -> Append(f.blocks, Blk("code", Labels(Trimmed(f.cur))))
                 [] ~f.open /\ f.cur # <<>> -> AppendTextBlocks(f.blocks, f.cur)
                 [] OTHER -> f.blocks
    IN WithoutLastSpacers(all)
\* FormattedMessage: one element per block, a spacer being empty room.
Displayed(body) == SelectSeq(ParseMessageBlocks(body), LAMBDA b: b # Spacer)

(***************************************************************************)
(* The composer and the message's edit box.                                *)
(***************************************************************************)
TextInit == doc = <<>> /\ typed = <<>> /\ storedLines = <<>> /\ resaves = 0
TypedLines == Flatten([i \in DOMAIN doc |-> doc[i].lines])
\* The lines each kind of node can hold: a fence or a marker may be typed or pasted as text.
Kinds(type) ==
    CASE type \in {"paragraph", "code"} -> {"text", "blank", "marker", "fence"}
      [] type = "bulletList" -> {"text", "blank", "sub", "more"}
      [] OTHER -> {"text", "blank"}
\* A blank line has no label, and neither does a fence.
Typing(kind) == Ln(kind, IF kind \in {"blank", "fence"} THEN 0 ELSE Len(TypedLines) + 1)
Composing == typed = <<>> /\ Len(TypedLines) < MaxLines
AddNode(type, kind) ==
    /\ Composing /\ kind \in Kinds(type) \ {"sub", "more"}
    /\ doc' = Append(doc, [type |-> type, lines |-> <<Typing(kind)>>])
    /\ UNCHANGED <<typed, storedLines, resaves>>
AddLine(kind) ==
    /\ Composing /\ doc # <<>> /\ kind \in Kinds(Last(doc).type)
    /\ doc' = [doc EXCEPT ![Len(doc)].lines = Append(@, Typing(kind))]
    /\ UNCHANGED <<typed, storedLines, resaves>>
\* handleSend: an empty body is not sent (attachments aside); the editor is cleared.
SendTyped ==
    LET body == NormalizeMessageMarkdown(EditorJsonToMarkdown(doc))
    IN /\ typed = <<>> /\ body # <<>>
       /\ storedLines' = body /\ typed' = doc /\ doc' = <<>> /\ UNCHANGED resaves
\* saveEdit, on the body the edit box was filled with.
SaveSameEdit ==
    /\ storedLines # <<>> /\ resaves < MaxResaves /\ resaves' = resaves + 1
    /\ storedLines' = NormalizeMessageMarkdown(storedLines) /\ UNCHANGED <<doc, typed>>
TextNext ==
    \/ \E type \in {"paragraph", "code", "quote", "bulletList", "orderedList"}, kind \in {"text", "blank", "marker", "fence"}:
          AddNode(type, kind)
    \/ \E kind \in {"text", "blank", "marker", "fence", "sub", "more"}: AddLine(kind)
    \/ SendTyped \/ SaveSameEdit
TextSpec == TextInit /\ [][TextNext]_textVars

(***************************************************************************)
(* Properties.                                                             *)
(***************************************************************************)
IsText(n) == n # 0 /\ \E l \in Range(Flatten([i \in DOMAIN typed |-> typed[i].lines])): l.n = n /\ l.kind # "marker"
TextOf(d) == SelectSeq(Labels(Flatten([i \in DOMAIN d |-> d[i].lines])), IsText)
\* Every line of text that was typed is displayed, once and in its place, whatever
\* nodes, fences and markers surround it and however often an unchanged edit is saved.
NothingLost ==
    typed # <<>> =>
        SelectSeq(Flatten([i \in DOMAIN Displayed(storedLines) |-> Displayed(storedLines)[i].items]), IsText) = TextOf(typed)
\* Saving an edit without changing the text leaves the message as it is (saveEdit).
EditKeepsBody == NormalizeMessageMarkdown(storedLines) = storedLines

\* What a node should look like: blank lines cut a paragraph, markers alone vanish.
ParagraphBlocks(lines) ==
    LET kept == SelectSeq(lines, LAMBDA l: l.kind # "marker")
        cut == FoldLeft(LAMBDA acc, l: IF IsBlank(l) THEN Append(acc, <<>>)
                                       ELSE Append(SubSeq(acc, 1, Len(acc) - 1), Append(Last(acc), l.n)),
                        << <<>> >>, kept)
        full == SelectSeq(cut, LAMBDA c: c # <<>>)
    IN [i \in DOMAIN full |-> Blk("paragraph", full[i])]
Shaped(type, items) == IF items = <<>> THEN <<>> ELSE <<Blk(type, items)>>
NodeBlocks(node) ==
    CASE node.type = "paragraph" -> ParagraphBlocks(node.lines)
      [] node.type = "code" -> <<Blk("code", Labels(Trimmed(node.lines)))>>
      [] node.type = "quote" -> Shaped("quote", Labels(Trimmed(node.lines)))
      [] OTHER -> Shaped(node.type, SelectSeq(Labels(node.lines), LAMBDA n: n # 0))
Plain(d) == \A i \in DOMAIN d: \A j \in DOMAIN d[i].lines: d[i].lines[j].kind \notin {"fence", "more"}
\* Runs of blank lines, which the clean-up shortens, read as one.
Squeezed(b) ==
    [b EXCEPT !.items = Flatten([i \in DOMAIN @ |-> IF i > 1 /\ @[i] = 0 /\ @[i - 1] = 0 THEN <<>> ELSE <<@[i]>>])]
\* A document without typed fences and without second paragraphs in list items is displayed
\* as the nodes it was made of: same kinds, same items, same order.
ShownAsTyped ==
    (typed # <<>> /\ Plain(typed)) =>
        LET shown == Displayed(storedLines)
            meant == Flatten([i \in DOMAIN typed |-> NodeBlocks(typed[i])])
        IN [i \in DOMAIN shown |-> Squeezed(shown[i])] = [i \in DOMAIN meant |-> Squeezed(meant[i])]

\* A message is shown as it was typed, loses no line, and is not changed by an
\* edit that changes nothing (editorJsonToMarkdown, normalizeMessageMarkdown, the
\* block parser and saveEdit together).
TextKept == NothingLost /\ ShownAsTyped /\ EditKeepsBody
=============================================================================
