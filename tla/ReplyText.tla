------------------------------ MODULE ReplyText ------------------------------
(***************************************************************************)
(* From the model's words to bubbles: parse_tags and chunk_for_whatsapp of *)
(* tools.py.  A text is a sequence of pieces, which no rule can break; a   *)
(* piece has a length, with its protected regions replaced by tokens, and  *)
(* the boundary before it.  A bubble is a sequence of pieces.              *)
(***************************************************************************)
EXTENDS Integers, Sequences, SequencesExt

Boundary == {"paragraph", "sentence", "connective", "comma"}
Piece == [len : Nat \ {0}, before : Boundary]

\* What the four patterns find in an answer; -1 is no [AGENDAR: N].
Clamp(low, n, high) == IF n < low THEN low ELSE IF n > high THEN high ELSE n
ParseTags(raw) ==
  [text |-> raw.text, converted |-> raw.comprou, react |-> raw.react, quote |-> raw.quote,
   minutes |-> IF raw.agendar = -1 THEN -1 ELSE Clamp(5, raw.agendar, 10080)]

MaxBubbles == 4
MaxChars == 110
MinChars == 25
ForceChars == 50
Slack == (MaxChars * 5) \div 4

\* The length of pieces joined by spaces.
Length(bubble) == FoldLeft(LAMBDA sum, piece : sum + piece.len, Len(bubble) - 1, bubble)

\* The last of the groups goes on with g.
Join(groups, g) == Append(Front(groups), Last(groups) \o g)

\* The groups into which the boundaries in at split the pieces.
SplitStep(groups, piece, at) ==
  IF groups = << >> \/ piece.before \in at THEN Append(groups, <<piece>>) ELSE Join(groups, <<piece>>)
Split(pieces, at) == FoldLeft(LAMBDA groups, piece : SplitStep(groups, piece, at), << >>, pieces)

\* Neighbours are joined while they fit.
FillStep(bubbles, g) ==
  IF bubbles # << >> /\ Length(Last(bubbles)) + 1 + Length(g) <= MaxChars
    THEN Join(bubbles, g) ELSE Append(bubbles, g)
Fill(groups) == FoldLeft(FillStep, << >>, groups)

\* A group longer than a bubble is split at its commas.
AtCommas(groups) ==
  FlattenSeq([i \in DOMAIN groups |->
    IF Length(groups[i]) <= MaxChars THEN <<groups[i]>> ELSE Split(groups[i], Boundary)])

SplitSmart(pieces) ==
  LET chunks == Fill(Split(pieces, {"paragraph", "sentence"}))
      refined(chunk) == Fill(AtCommas(Split(chunk, Boundary \ {"comma"})))
  IN  IF Length(pieces) <= MaxChars THEN <<pieces>>
      ELSE FlattenSeq([i \in DOMAIN chunks |->
             IF Length(chunks[i]) <= MaxChars THEN <<chunks[i]>> ELSE refined(chunks[i])])

Paragraph(pieces) ==
  LET sentences == Split(pieces, {"paragraph", "sentence"})
  IN  IF Length(pieces) > ForceChars /\ Len(sentences) >= 2
        THEN FlattenSeq([i \in DOMAIN sentences |-> SplitSmart(sentences[i])])
        ELSE SplitSmart(pieces)

\* A short bubble is joined to its neighbour if they fit, with some slack.
MergeStep(merged, b) ==
  IF /\ merged # << >>
     /\ Length(b) < MinChars \/ Length(Last(merged)) < MinChars
     /\ Length(Last(merged)) + 1 + Length(b) <= Slack
    THEN Join(merged, b) ELSE Append(merged, b)
MergeShort(bubbles) == FoldLeft(MergeStep, << >>, bubbles)

\* Faulty: what is over the limit is not sent.
CapCutting(bubbles) == IF Len(bubbles) <= MaxBubbles THEN bubbles ELSE SubSeq(bubbles, 1, MaxBubbles)

Cap(bubbles) ==
  IF Len(bubbles) <= MaxBubbles THEN bubbles
  ELSE Append(SubSeq(bubbles, 1, MaxBubbles - 1),
              FlattenSeq(SubSeq(bubbles, MaxBubbles, Len(bubbles))))

Chunk(text) ==
  LET paragraphs == Split(text, {"paragraph"})
  IN  Cap(MergeShort(FlattenSeq([i \in DOMAIN paragraphs |-> Paragraph(paragraphs[i])])))
=============================================================================
