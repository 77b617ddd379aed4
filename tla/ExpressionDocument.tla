------------------------- MODULE ExpressionDocument -------------------------
(***************************************************************************)
(* expression_document.py: the structured text behind the calculator's       *)
(* entry. A document is a sequence of spans: ordinary text, addressed         *)
(* character by character, and engineering prefixes, which are shown as one   *)
(* character and stand for a power of ten. The text shown is ambiguous (M     *)
(* is a memory and mega), the source sent to the parser is not.              *)
(*                                                                         *)
(* The cells of a document are what the spans implement: a flat sequence of   *)
(* characters and prefixes, each shown as one character.                    *)
(***************************************************************************)
EXTENDS Integers, SequencesExt

\* The prefixes and the parser-safe source of each.
PrefixSource == [M |-> "x10^(6)", k |-> "x10^(3)"]
Symbols == DOMAIN PrefixSource

TextSpan(text) == [prefix |-> FALSE, text |-> text]
PrefixSpan(symbol) == [prefix |-> TRUE, text |-> <<symbol>>]

NoSpans == <<>>

\* ExpressionDocument.from_text
FromText(text) == IF text = <<>> THEN NoSpans ELSE <<TextSpan(text)>>

Joined(texts) == FoldLeft(LAMBDA joined, text : joined \o text, <<>>, texts)

Display(spans) == Joined([i \in DOMAIN spans |-> spans[i].text])

Source(spans) ==
  Joined([i \in DOMAIN spans |->
            IF spans[i].prefix THEN <<PrefixSource[spans[i].text[1]]>> ELSE spans[i].text])

\* Display coordinate behind the first n spans.
EndOf(spans, n) == Len(Display(SubSeq(spans, 1, n)))

\* The number of spans that end at or before a display position.
SpansBefore(spans, position) ==
  CHOOSE n \in 0..Len(spans) :
    /\ EndOf(spans, n) <= position
    /\ \A m \in (n + 1)..Len(spans) : EndOf(spans, m) > position

\* _split_at: a text span is cut at the position, a prefix goes behind it.
SplitAt(spans, position) ==
  LET n == SpansBefore(spans, position)
      local == position - EndOf(spans, n)
      kept == SubSeq(spans, 1, n)
      rest == SubSeq(spans, n + 1, Len(spans))
  IN IF rest = <<>> \/ local = 0 \/ rest[1].prefix
     THEN [before |-> kept, after |-> rest]
     ELSE [before |-> Append(kept, TextSpan(SubSeq(rest[1].text, 1, local))),
           after |-> <<TextSpan(SubSeq(rest[1].text, local + 1, Len(rest[1].text)))>> \o Tail(rest)]

\* _compact: neighbouring texts become one.
Attached(done, span) ==
  IF done # <<>> /\ ~Last(done).prefix /\ ~span.prefix
  THEN Append(Front(done), TextSpan(Last(done).text \o span.text))
  ELSE Append(done, span)

Compact(spans) == FoldLeft(Attached, <<>>, spans)

InsertSpan(spans, position, span) ==
  LET halves == SplitAt(spans, position)
  IN Compact(halves.before \o <<span>> \o halves.after)

InsertText(spans, position, text) ==
  IF text = <<>> THEN spans ELSE InsertSpan(spans, position, TextSpan(text))

InsertEngineeringPrefix(spans, position, symbol) ==
  InsertSpan(spans, position, PrefixSpan(symbol))

\* _delete_at: one character of a text, or a whole prefix.
DeleteAt(spans, position) ==
  LET n == SpansBefore(spans, position)
      span == spans[n + 1]
      left == RemoveAt(span.text, position - EndOf(spans, n) + 1)
  IN Compact(SubSeq(spans, 1, n)
             \o (IF span.prefix \/ left = <<>> THEN <<>> ELSE <<TextSpan(left)>>)
             \o SubSeq(spans, n + 2, Len(spans)))

DeleteBackward(spans, position) ==
  IF position <= 0 THEN spans ELSE DeleteAt(spans, position - 1)

DeleteForward(spans, position) ==
  IF position >= Len(Display(spans)) THEN spans ELSE DeleteAt(spans, position)

-----------------------------------------------------------------------------
(***************************************************************************)
(* What a document stands for.                                             *)
(***************************************************************************)

CharCell(token) == [shown |-> token, meant |-> token]
PrefixCell(symbol) == [shown |-> symbol, meant |-> PrefixSource[symbol]]

CellsOfText(text) == [i \in DOMAIN text |-> CharCell(text[i])]
CellsOfSpan(span) ==
  IF span.prefix THEN <<PrefixCell(span.text[1])>> ELSE CellsOfText(span.text)
CellsOfSpans(spans) == Joined([i \in DOMAIN spans |-> CellsOfSpan(spans[i])])
Shown(cells) == [i \in DOMAIN cells |-> cells[i].shown]
Meant(cells) == [i \in DOMAIN cells |-> cells[i].meant]

=============================================================================
