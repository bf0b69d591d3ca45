----------------------------- MODULE Redaction -----------------------------
(***************************************************************************)
(* What a PII engine does to a text (engines/pii_plugins.py, masking.py)   *)
(* and the StreamRedactor of sdk/streaming.py over it.  A text is a        *)
(* sequence of four kinds of characters: plain, part of an entity, a term  *)
(* of a sentence category, the end of a sentence.  An entity is a run of   *)
(* its characters of an accepted length, with none of them beside it: what *)
(* a pattern between word boundaries finds.                                *)
(***************************************************************************)
EXTENDS FiniteSets, Integers, Sequences, SequencesExt

CONSTANTS
    MinLen, MaxLen,   \* the lengths of an entity
    Window,           \* window_chars: "must exceed the longest expected entity"
    MaxHold           \* max_hold_chars

ASSUME WindowHoldsAnEntity == /\ MinLen \in 1..MaxLen /\ MaxLen \in Nat
                              /\ Window \in Nat /\ MaxLen < Window
                              /\ MaxHold \in Nat /\ Window <= MaxHold

Plain == "x"
Digit == "d"
Term == "h"
Stop == "."
Char == {Plain, Digit, Term, Stop}
OMISSIS == "M"

\* The maximal stretches of `text` whose characters are in `kind`, as <<first, last>>
Stretches(text, kind) ==
    {s \in (1..Len(text)) \X (1..Len(text)) :
        /\ s[1] <= s[2] /\ \A i \in s[1]..s[2] : text[i] \in kind
        /\ s[1] = 1 \/ text[s[1] - 1] \notin kind
        /\ s[2] = Len(text) \/ text[s[2] + 1] \notin kind}

Sentences(text) == Stretches(text, Char \ {Stop})

\* detect: the entities and the terms of a text
Entities(text) == {s \in Stretches(text, {Digit}) : s[2] - s[1] + 1 \in MinLen..MaxLen}
Terms(text) == {<<i, i>> : i \in {j \in 1..Len(text) : text[j] = Term}}
Matches(text) == Entities(text) \cup Terms(text)

\* The spans masked: the matches, with for a term its sentence, when its category asks for it
Spans(text, sentences) ==
    IF ~sentences THEN Matches(text)
    ELSE Entities(text) \cup {s \in Sentences(text) :
                                  \E t \in Terms(text) : s[1] <= t[1] /\ t[1] <= s[2]}

\* What each character leaves: one mask for spans that overlap, itself without one
Marks(text, sentences) ==
    LET spans == Spans(text, sentences)
        Covers(s, i) == s[1] <= i /\ i <= s[2]
    IN [i \in 1..Len(text) |->
          IF \A s \in spans : ~Covers(s, i) THEN text[i]
          ELSE IF \E s \in spans : Covers(s, i - 1) /\ Covers(s, i) THEN "" ELSE OMISSIS]

\* The marks, without those that leave nothing
Written(marks) ==
    LET upto[n \in 0..Len(marks)] ==
          IF n = 0 THEN <<>>
          ELSE IF marks[n] = "" THEN upto[n - 1] ELSE Append(upto[n - 1], marks[n])
    IN upto[Len(marks)]

\* mask_omissis
Redact(text, sentences) == Written(Marks(text, sentences))

Count(text) == Cardinality(Matches(text))

\* sentence_start: how much of the text lies before the sentence that holds `position`
SentenceStart(text, position) ==
    Max({0} \cup {s[1] - 1 : s \in {t \in Sentences(text) : t[1] - 1 <= position}})
-----------------------------------------------------------------------------
(* The stream redactor: the characters held back, and the entities counted *)
(* in what was let out.  `overrun`, which the code has not, is set when    *)
(* more was held than a redactor of whole sentences may hold.              *)

NewRedactor(sentences) == [sentences |-> sentences, buf |-> <<>>, count |-> 0, overrun |-> FALSE]

Holding(r) == r.sentences /\ Len(r.buf) <= MaxHold
Cut(r) == LET cut == Len(r.buf) - Window
          IN IF Holding(r) THEN SentenceStart(r.buf, cut) ELSE cut
Tail1(r) == SubSeq(r.buf, Cut(r) + 1, Len(r.buf))

\* The two parts of the buffer can be redacted apart
SplitsAnyway(r) == Len(r.buf) > Window
SplitsClean(r) == IsSuffix(Redact(Tail1(r), r.sentences), Redact(r.buf, r.sentences))

Held(r, delta) == LET buf == r.buf \o delta
                  IN [r EXCEPT !.buf = buf,
                               !.overrun = @ \/ (r.sentences /\ Len(buf) > MaxHold)]
LetsGo(r) == Len(r.buf) > Window /\ Cut(r) > 0 /\ SplitsClean(r)

\* feed: the redactor after a delta, and what it lets out
Fed(r, delta) ==
    LET h == Held(r, delta)
    IN IF delta # <<>> /\ LetsGo(h)
       THEN [h EXCEPT !.buf = Tail1(h), !.count = @ + Count(h.buf) - Count(Tail1(h))]
       ELSE h
Emitted(r, delta) ==
    LET h == Held(r, delta)
        red == Redact(h.buf, h.sentences)
    IN IF delta # <<>> /\ LetsGo(h)
       THEN SubSeq(red, 1, Len(red) - Len(Redact(Tail1(h), h.sentences)))
       ELSE <<>>

\* finish: the rest, and the count of the whole
Rest(r) == Redact(r.buf, r.sentences)
TotalHeld(r) == Count(r.buf)
Total(r) == r.count + Count(r.buf)
=============================================================================
