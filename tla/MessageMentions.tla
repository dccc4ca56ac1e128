--------------------------- MODULE MessageMentions ---------------------------
(***************************************************************************)
(* Mentions in the message composer (web/src/pages/shared/Messages.tsx):   *)
(* the list offered after an "@", the ids sent with a message, the pills   *)
(* drawn in the text, and whom the server tells                            *)
(* (notification_delivery_service.rb).                                     *)
(*                                                                         *)
(* Text is a sequence of characters of a small alphabet, letters in one    *)
(* case: "a" and "b" letters, "e" the word everyone, "s" a space, "." an   *)
(* end of sentence, "_" the mark of emphasis, "c" a back quote.            *)
(***************************************************************************)
EXTENDS Integers, Sequences, FiniteSets, SequencesExt

CONSTANTS Alphabet,     \* the characters that are typed
          MaxChars      \* bound on the length of the text
ASSUME MentionsAssumption == MaxChars \in Nat

VARIABLES text,         \* the composer's text
          people,       \* mentionableUsers: the names, indexed by user id
          channel,      \* the conversation is a channel
          chosenIds     \* composerMentionUserIds
mentionVars == <<text, people, channel, chosenIds>>

\* Conversations: people one of whom has a name that begins another's; and namesakes.
Rosters == {<< <<"a">>, <<"a", "s", "b">>, <<"b">> >>, << <<"b">>, <<"b">> >>}
Everyone == <<"e">>
Letters == {"a", "b", "e"}

(***************************************************************************)
(* Where a mention may begin and end.  A name is found in a body after     *)
(* anything that is not a word character; a pill begins after a space only *)
(* (or at the start of what is drawn); both end at a space or a stop.      *)
(***************************************************************************)
IsMentionStartBoundary(s, i) == i = 1 \/ s[i - 1] = "s"
IsMentionEndBoundary(s, i) == i > Len(s) \/ s[i] \in {"s", "."}
Reads(s, i, name) == i + Len(name) <= Len(s) /\ SubSeq(s, i + 1, i + Len(name)) = name
NameEndsAt(s, i, name) == s[i] = "@" /\ Reads(s, i, name) /\ IsMentionEndBoundary(s, i + Len(name) + 1)
\* \w holds the underscore.
MessageContainsMention(body, name) ==
    \E i \in DOMAIN body: (i = 1 \/ body[i - 1] \notin Letters \cup {"_"}) /\ NameEndsAt(body, i, name)
Namesakes(u) == Cardinality({v \in DOMAIN people: people[v] = people[u]})
\* Mutant: only the people picked from the list are sent.
ResolvedFromList(body) == {u \in chosenIds: MessageContainsMention(body, people[u])}
ResolveMentionedUserIds(body) ==
    {u \in chosenIds: MessageContainsMention(body, people[u])}
      \cup {u \in DOMAIN people: Namesakes(u) = 1 /\ MessageContainsMention(body, people[u])}

(***************************************************************************)
(* Pills.  The longest name is tried first.                                *)
(***************************************************************************)
Names == {people[u]: u \in DOMAIN people} \cup (IF channel THEN {Everyone} ELSE {})
PatternAt(s, i) ==
    LET fit == {n \in Names: NameEndsAt(s, i, n)} IN {n \in fit: \A m \in fit: Len(m) <= Len(n)}
\* findMentionMatches: the scan, from left to right, over what was not matched.
RECURSIVE FindMentionMatches(_, _)
FindMentionMatches(s, i) ==
    IF i > Len(s) THEN <<>>
    ELSE IF s[i] # "@" \/ ~IsMentionStartBoundary(s, i) \/ PatternAt(s, i) = {} THEN FindMentionMatches(s, i + 1)
    ELSE LET n == CHOOSE n \in PatternAt(s, i): TRUE
         IN <<[from |-> i, name |-> n]>> \o FindMentionMatches(s, i + Len(n) + 1)
\* renderTextWithMentions: the text between the pills, and the pills.
RECURSIVE RenderTextWithMentions(_, _, _)
RenderTextWithMentions(s, found, cursor) ==
    IF found = <<>> THEN IF cursor <= Len(s) THEN <<[pill |-> FALSE, text |-> SubSeq(s, cursor, Len(s))]>> ELSE <<>>
    ELSE LET m == Head(found)
             before == IF cursor < m.from THEN <<[pill |-> FALSE, text |-> SubSeq(s, cursor, m.from - 1)]>> ELSE <<>>
         IN before \o <<[pill |-> TRUE, text |-> <<"@">> \o m.name]>>
                   \o RenderTextWithMentions(s, Tail(found), m.from + Len(m.name) + 1)
RenderText(s) == RenderTextWithMentions(s, FindMentionMatches(s, 1), 1)

\* Leftmost pair of marks with something and no mark between them.
MarkPair(s, mark, i) ==
    {p \in (DOMAIN s) \X (DOMAIN s): /\ i <= p[1] /\ p[1] + 1 < p[2] /\ s[p[1]] = mark /\ s[p[2]] = mark
                                 /\ \A k \in p[1] + 1 .. p[2] - 1: s[k] # mark}
FirstPair(s, mark, i) == CHOOSE p \in MarkPair(s, mark, i): \A q \in MarkPair(s, mark, i): p[1] <= q[1]
\* appendFormattedText: the pieces of a chunk, an emphasised one without its marks.  A piece
\* between two emphasised ones that begins and ends with a mark is taken for one.
PlainPiece(s) == IF s # <<>> /\ s[1] = "_" /\ Last(s) = "_" THEN RenderText(SubSeq(s, 2, Len(s) - 1)) ELSE RenderText(s)
RECURSIVE AppendFormattedText(_, _)
AppendFormattedText(s, i) ==
    IF i > Len(s) THEN <<>>
    ELSE IF MarkPair(s, "_", i) = {} THEN PlainPiece(SubSeq(s, i, Len(s)))
    ELSE LET p == FirstPair(s, "_", i)
         IN PlainPiece(SubSeq(s, i, p[1] - 1)) \o RenderText(SubSeq(s, p[1] + 1, p[2] - 1)) \o AppendFormattedText(s, p[2] + 1)
\* formatInline: what is between back quotes is code; the rest is formatted (links aside).
RECURSIVE FormatInline(_, _)
FormatInline(s, i) ==
    IF i > Len(s) THEN <<>>
    ELSE IF MarkPair(s, "c", i) = {} THEN AppendFormattedText(SubSeq(s, i, Len(s)), 1)
    ELSE LET p == FirstPair(s, "c", i)
         IN AppendFormattedText(SubSeq(s, i, p[1] - 1), 1)
              \o <<[pill |-> FALSE, text |-> SubSeq(s, p[1] + 1, p[2] - 1)]>> \o FormatInline(s, p[2] + 1)
Drawn == FormatInline(text, 1)

(***************************************************************************)
(* The server.                                                             *)
(***************************************************************************)
\* mention_pattern_for and the fallback of mentioned_user_ids_for: any punctuation ends a name.
ServerReads(body, name) ==
    \E i \in DOMAIN body:
        /\ i = 1 \/ body[i - 1] \notin Letters \cup {"_"}
        /\ body[i] = "@" /\ Reads(body, i, name)
        /\ LET e == i + Len(name) + 1 IN e > Len(body) \/ body[e] \notin Letters
MentionedUserIdsFor(body, explicit) ==
    IF explicit # {} THEN explicit ELSE {u \in DOMAIN people: ServerReads(body, people[u])}
\* Whom a message sent now is said to mention.
Told == MentionedUserIdsFor(text, ResolveMentionedUserIds(text))

(***************************************************************************)
(* The composer.                                                           *)
(***************************************************************************)
MentionInit == text = <<>> /\ people \in Rosters /\ channel \in BOOLEAN /\ chosenIds = {}
TypeChar(c) == Len(text) < MaxChars /\ text' = Append(text, c) /\ UNCHANGED <<people, channel, chosenIds>>
Backspace == text # <<>> /\ text' = Front(text) /\ UNCHANGED <<people, channel, chosenIds>>
\* mentionToken: the "@" begun at the cursor, 0 for none.
TokenAt ==
    LET at == {i \in DOMAIN text: /\ text[i] = "@" /\ (i = 1 \/ text[i - 1] = "s")
                                  /\ \A k \in i + 1 .. Len(text): text[k] \notin {"s", "@"}}
    IN IF at = {} THEN 0 ELSE CHOOSE i \in at: TRUE
Token == SubSeq(text, TokenAt + 1, Len(text))
Includes(name, part) == \E i \in 0 .. Len(name) - Len(part): SubSeq(name, i + 1, i + Len(part)) = part
MentionSuggestions == IF TokenAt = 0 THEN {} ELSE {u \in DOMAIN people: Includes(people[u], Token)}
\* insertIntoComposer: what is replaced begins at the first "@" after a space or at the start.
ReplacedFrom == CHOOSE i \in DOMAIN text: /\ text[i] = "@" /\ (i = 1 \/ text[i - 1] = "s")
                                          /\ \A k \in 1 .. i - 1: ~(text[k] = "@" /\ (k = 1 \/ text[k - 1] = "s"))
Inserted(label) == SubSeq(text, 1, ReplacedFrom - 1) \o <<"@">> \o label \o <<"s">>
SelectMention(u) ==
    /\ u \in MentionSuggestions /\ Len(Inserted(people[u])) <= MaxChars
    /\ text' = Inserted(people[u]) /\ chosenIds' = chosenIds \cup {u}
    /\ UNCHANGED <<people, channel>>
SelectEveryone ==
    /\ channel /\ TokenAt # 0 /\ Token \in {<<>>, Everyone} /\ Len(Inserted(Everyone)) <= MaxChars
    /\ text' = Inserted(Everyone) /\ UNCHANGED <<people, channel, chosenIds>>
\* Another conversation: the text stays in the composer, the picks are forgotten.
SwitchConversation ==
    /\ people' \in Rosters /\ channel' \in BOOLEAN /\ <<people, channel>>' # <<people, channel>>
    /\ chosenIds' = {} /\ UNCHANGED text
MentionNext ==
    \/ \E c \in Alphabet: TypeChar(c)
    \/ Backspace
    \/ \E u \in DOMAIN people: SelectMention(u)
    \/ SelectEveryone
    \/ SwitchConversation
MentionSpec == MentionInit /\ [][MentionNext]_mentionVars

(***************************************************************************)
(* Properties.                                                             *)
(***************************************************************************)
Pills == {Tail(Drawn[i].text): i \in {j \in DOMAIN Drawn: Drawn[j].pill}}
Marks == {"_", "c"}
TouchesMark(name) ==
    \E i \in DOMAIN text: /\ text[i] = "@" /\ Reads(text, i, name)
                          /\ \/ i > 1 /\ text[i - 1] \in Marks
                             \/ i + Len(name) < Len(text) /\ text[i + Len(name) + 1] \in Marks
\* A person whose name no other member has, drawn as a pill, is told: the pill and the ids
\* sent agree, whatever surrounds the name.  (A name that touches a mark of formatting is the
\* exception: a mark ends what is drawn, and is no boundary for the ids.)
PillIsTold ==
    \A u \in DOMAIN people:
        (people[u] \in Pills /\ Namesakes(u) = 1 /\ ~TouchesMark(people[u])) => u \in Told
\* Of two namesakes, the one picked from the list is told and, unless picked too, the other
\* is not.
PickedNamesakeIsTold ==
    \A u \in DOMAIN people:
        (u \in chosenIds /\ Namesakes(u) = 2 /\ people[u] \in Pills /\ ~TouchesMark(people[u])) => Told = chosenIds
\* A pill covers as much of the text as some member's name does: the name begun inside the
\* pill of a longer one is not drawn.
LongestPill ==
    \A i \in DOMAIN text: \A n \in Names:
        (i = 1 \/ text[i - 1] = "s") /\ NameEndsAt(text, i, n) /\ Range(text) \cap Marks = {}
            => \E p \in Pills: Len(n) <= Len(p) /\ Reads(text, i, p)
\* Drawing a message loses nothing but marks of formatting.
OnlyMarksLost ==
    SelectSeq(FoldLeft(LAMBDA acc, d: acc \o d.text, <<>>, Drawn), LAMBDA c: c \notin Marks)
        = SelectSeq(text, LAMBDA c: c \notin Marks)

\* What is drawn as a mention is the longest name there, its person is told, and
\* drawing loses nothing but marks (findMentionMatches, resolveMentionedUserIds
\* and the server's recipients together).
MentionsSound == PillIsTold /\ PickedNamesakeIsTold /\ LongestPill /\ OnlyMarksLost
=============================================================================
