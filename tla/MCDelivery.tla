------------------------------ MODULE MCDelivery ------------------------------
(* An instance of Delivery.  One reply has the link and one has not; the layout of the
   latter needs each rule of Chunk.  Whoever confirms asks nothing. *)
EXTENDS Delivery

Text(norm, words, link) ==
  [norm |-> norm, words |-> words, link |-> link, price |-> link, chars |-> 60,
   exclamations |-> 0, sentences |-> 3, dots |-> 1]
MCTexts == [plain |-> Text("plain", 1..5, FALSE), link |-> Text("link", 8..12, TRUE)]

Raw(text, pieces, react, quote) ==
  [text |-> text, pieces |-> pieces, comprou |-> FALSE, agendar |-> 20, react |-> react, quote |-> quote]
P(len, before) == [len |-> len, before |-> before]

Long == <<P(60, "paragraph"), P(60, "comma"), P(60, "connective"), P(20, "sentence"), P(80, "paragraph"),
          P(90, "paragraph"), P(120, "sentence")>>
Short == <<P(20, "paragraph"), P(40, "sentence")>>

MCRaws == {Raw("plain", Long, FALSE, FALSE), Raw("link", Short, TRUE, TRUE)}
MCLeadMessages ==
  {[by |-> "lead", confirms |-> c, pays |-> FALSE, question |-> ~c] : c \in BOOLEAN}
MCFacts == {[platform |-> TRUE, closing |-> FALSE, link |-> l, bought |-> FALSE] : l \in BOOLEAN}
=============================================================================
