---------------------------- MODULE DocumentText ----------------------------
(***************************************************************************)
(* The text rules of document_repair.cpp, paragraph_split.cpp and          *)
(* heading_hierarchy.cpp.  A text is a sequence of tokens and one token    *)
(* stands for one code point: a word of the lexicon, whose class says what *)
(* the rules ask of its letters, or a mark.                                *)
(***************************************************************************)
EXTENDS StructureRepair

CONSTANTS
  Lexicon,         \* word -> class, one of Classes
  VowelWords,      \* the words that begin with a vowel
  NumberOf,        \* the value of a number word
  MinimumCapsWords, MinimumParagraphWords,   \* 2 and 3 in the code
  FragmentWords, LongParagraphWords,         \* 6 and 12
  MaximumHeadingWords                        \* 30

\* lower: lower-case letters, two or more; letter: one lower-case letter; cap:
\* Capitalized; caps: CAPITALS; prefix, vprefix: keeps its hyphen always or
\* before a vowel; conj, konj: an English or German conjunction; num, dotted:
\* "3", "3.1"; label: "Name:"; blank: "____"; box: a checkbox.
Classes == {"lower", "letter", "cap", "caps", "prefix", "vprefix", "conj", "konj",
            "num", "dotted", "label", "blank", "box"}
ASSUME LexiconAssumption ==
  /\ \A w \in DOMAIN Lexicon : Lexicon[w] \in Classes
  /\ \A w \in DOMAIN Lexicon : Lexicon[w] = "num" => NumberOf[w] \in Nat

Class(t) == IF t \in DOMAIN Lexicon THEN Lexicon[t] ELSE "mark"
IsWord(t) == t \in DOMAIN Lexicon
IsSpace(t) == t \in {" ", "\n"}
LowerClasses == {"lower", "letter", "prefix", "vprefix", "conj", "konj"}
StartsLower(t) == Class(t) \in LowerClasses
EndsLower(t) == Class(t) \in LowerClasses \cup {"cap"}
IsAlpha(t) == Class(t) \in LowerClasses \cup {"cap", "caps"}

-----------------------------------------------------------------------------
(* Runs and words. *)

\* The longest prefix, and suffix, whose tokens all satisfy P.
Prefix(s, P(_)) == SubSeq(s, 1, Min({i \in DOMAIN s : ~P(s[i])} \cup {Len(s) + 1}) - 1)
Suffix(s, P(_)) == SubSeq(s, Max({i \in DOMAIN s : ~P(s[i])} \cup {0}) + 1, Len(s))
From(s, i) == SubSeq(s, i, Len(s))
TrimLeft(s) == From(s, Len(Prefix(s, IsSpace)) + 1)
TrimRight(s) == SubSeq(s, 1, Len(s) - Len(Suffix(s, IsSpace)))
Trim(s) == TrimLeft(TrimRight(s))
TrailingWord(s) == Suffix(s, IsAlpha)
LeadingWord(s) == Prefix(s, IsAlpha)
FirstToken(s) == Prefix(s, LAMBDA t : ~IsSpace(t))

\* Where the words of a text begin, and the word that begins there.
WordStarts(s) == SelectSeq([i \in DOMAIN s |-> i],
                           LAMBDA i : ~IsSpace(s[i]) /\ (i = 1 \/ IsSpace(s[i - 1])))
WordCount(s) == Len(WordStarts(s))
WordAt(s, i) == FirstToken(From(s, i))
\* Whether a run of letters has two letters or more.
TwoLetters(run) == Len(run) > 1 \/ (run # <<>> /\ Class(run[1]) # "letter")

-----------------------------------------------------------------------------
(* Running text and page numbers. *)

\* Whitespace collapsed and digit runs folded to "#".
NormalizeRunningText(s) ==
  LET words == WordStarts(s)
      Fold(t) == CASE Class(t) = "num" -> "#" [] Class(t) = "dotted" -> "#.#" [] OTHER -> t
  IN [i \in DOMAIN words |-> [j \in DOMAIN WordAt(s, words[i]) |-> Fold(WordAt(s, words[i])[j])]]

PageNumberShapes ==
  {<<"#">>, <<"#", "of", "#">>, <<"page", "#">>, <<"page", "#", "of", "#">>,
   <<"page", "#", "/", "#">>, <<"p", "#">>, <<"pg", "#">>, <<"seite", "#">>, <<"pagina", "#">>,
   <<"#", "/", "#">>, <<"#", "of", "#", "pages">>}
PageNumberSlack == 20
FirstYear == 1800
LastYear == 2100
PlausiblePageNumber(value, pages) ==
  value \in 1..(pages + PageNumberSlack) /\ ~(value \in FirstYear..LastYear /\ pages < value)

\* A number a sentence mark follows is prose, but for a bare number and one
\* period.
NumberPunctuated(s) ==
  \E i \in 1..(Len(s) - 1) : /\ Class(s[i]) \in {"num", "dotted"}
                             /\ s[i + 1] = "."
                             /\ ~(Len(s) = 2 /\ Class(s[i]) = "num")
\* The words of the text with their decoration stripped, a slash one of its own.
IsPageNumber(text, pages) ==
  LET spaced == FlattenSeq([i \in DOMAIN text |-> IF text[i] = "/" THEN <<" ", "/", " ">> ELSE <<text[i]>>])
      Bare(w) == LET d == From(w, Len(Prefix(w, LAMBDA t : t \in {"-", "."})) + 1)
                 IN SubSeq(d, 1, Len(d) - Len(Suffix(d, LAMBDA t : t \in {"-", "."})))
      words == [k \in DOMAIN WordStarts(spaced) |-> Bare(WordAt(spaced, WordStarts(spaced)[k]))]
      shown == SelectSeq(words, LAMBDA w : w # <<>>)
      IsNumber(w) == Len(w) = 1 /\ Class(w[1]) = "num"
      numbers == SelectSeq(shown, IsNumber)
      shape == [k \in DOMAIN shown |-> CASE IsNumber(shown[k]) -> "#" [] Len(shown[k]) > 1 -> "..."
                                         [] OTHER -> shown[k][1]]
  IN /\ ~NumberPunctuated(Trim(text)) /\ numbers # <<>>
     /\ shape \in PageNumberShapes
     /\ PlausiblePageNumber(NumberOf[numbers[1][1]], pages)

-----------------------------------------------------------------------------
(* Hyphens. *)

IsKnownCompound(head, tail) ==
  Len(head) = 1 /\ (Class(head[1]) = "prefix" \/
                    (Class(head[1]) = "vprefix" /\ tail # <<>> /\ tail[1] \in VowelWords))
TailTokenIsWord(rest) ==
  LET token == FirstToken(rest)
      word == SubSeq(token, 1, Len(token) - Len(Suffix(token, LAMBDA t : t = ".")))
  IN TwoLetters(word) /\ \A i \in DOMAIN word : IsAlpha(word[i])

\* A suspended hyphen: a conjunction, then a hyphenated word or, after a German
\* one, a capitalized word.
SuspendedHyphen(rest) ==
  LET token == FirstToken(rest)
      next == FirstToken(TrimLeft(From(rest, Len(token) + 1)))
  IN /\ Len(token) = 1 /\ Class(token[1]) \in {"conj", "konj"} /\ next # <<>>
     /\ \/ \E i \in 2..Len(next) : next[i] = "-"
        \/ Class(token[1]) = "konj" /\ Class(next[1]) \in {"cap", "caps"}

\* The text without its soft hyphens and line-break hyphens, and the positions
\* that went: a known compound keeps the hyphen and loses the break.
RejoinHyphenatedWords(text, spaceIsBreak) ==
  LET Step(acc, i) ==
        LET gap == IF i < Len(text) /\ (text[i + 1] = "\n" \/ (spaceIsBreak /\ text[i + 1] = " "))
                   THEN 1 ELSE 0
            rest == From(text, i + 1 + gap)
            tail == LeadingWord(rest)
            head == TrailingWord(acc.out)
            joinable == /\ gap > 0 /\ head # <<>> /\ tail # <<>>
                        /\ EndsLower(Last(head)) /\ StartsLower(tail[1])
                        /\ TailTokenIsWord(rest) /\ ~SuspendedHyphen(rest)
            Without(gone, kept) == [out |-> acc.out \o kept, removed |-> acc.removed \cup gone]
        IN CASE i \in acc.removed -> acc
             [] i \notin acc.removed /\ text[i] = "~" ->
                  Without(IF tail = <<>> THEN {i} ELSE i..(i + gap), <<>>)
             [] i \notin acc.removed /\ text[i] = "-" /\ joinable ->
                  IF IsKnownCompound(head, tail) THEN Without({i + 1}, <<"-">>)
                  ELSE Without({i, i + 1}, <<>>)
             [] OTHER -> [acc EXCEPT !.out = Append(@, text[i])]
  IN FoldLeft(Step, [out |-> <<>>, removed |-> {}], [i \in DOMAIN text |-> i])

-----------------------------------------------------------------------------
(* Continuations. *)

EndsOpen(s) == LET t == TrimRight(s) IN t # <<>> /\ Last(t) # "."
StartsLowercase(s) == LET t == TrimLeft(s) IN t # <<>> /\ StartsLower(t[1])
\* The tail's first token is a word, and a short closed tail does not finish a
\* long head.
ReadsAsContinuation(head, tail) ==
  LET t == Trim(tail)
      fragment == WordCount(t) < FragmentWords /\ t # <<>> /\ Last(t) = "."
  IN TwoLetters(LeadingWord(t)) /\ ~(fragment /\ WordCount(head) >= LongParagraphWords)

\* By the hyphen rule when the head ends on a hyphenated word that is not
\* suspended, with one space otherwise.
JoinedText(head, tail) ==
  LET h == TrimRight(head)
      t == TrimLeft(tail)
      cut == SubSeq(h, 1, Len(h) - 1)
      hyphenated == /\ h # <<>> /\ Last(h) = "-" /\ ~SuspendedHyphen(t)
                    /\ TrailingWord(cut) # <<>> /\ LeadingWord(t) # <<>>
  IN CASE hyphenated /\ IsKnownCompound(TrailingWord(cut), LeadingWord(t)) -> h \o t
       [] hyphenated /\ ~IsKnownCompound(TrailingWord(cut), LeadingWord(t)) -> cut \o t
       [] OTHER -> h \o <<" ">> \o t

-----------------------------------------------------------------------------
(* Run-in headings, form rows and heading numbers. *)

\* The positions, past the first word, where a new piece of the text begins.
RunInHeadingEnd(text) ==
  LET starts == WordStarts(text)
      Word(k) == WordAt(text, starts[k])
      Numbering(w) == w # <<>> /\ Class(w[1]) \in {"num", "dotted"} /\ Tail(w) \in {<<>>, <<".">>}
      Caps(w) == (\E i \in DOMAIN w : Class(w[i]) = "caps") /\
                 \A i \in DOMAIN w : Class(w[i]) = "caps" \/ w[i] = "-"
      next == Min({k \in 2..Len(starts) : ~Caps(Word(k))} \cup {Len(starts) + 1})
  IN IF /\ Len(starts) >= 2 + MinimumCapsWords + MinimumParagraphWords
        /\ Numbering(Word(1)) /\ next - 2 >= MinimumCapsWords /\ next <= Len(starts)
        /\ Class(Word(next)[1]) = "cap"
        /\ Len(starts) - next + 1 >= MinimumParagraphWords
     THEN {starts[next]} ELSE {}

FormRowStarts(text) ==
  LET starts == WordStarts(text)
      Word(k) == WordAt(text, starts[k])
  IN {starts[k] : k \in {j \in 2..Len(starts) :
        \/ Class(Word(j)[1]) = "box"
        \/ /\ Len(Word(j)) = 1 /\ Class(Word(j)[1]) = "label" /\ j < Len(starts)
           /\ Len(Word(j + 1)) = 1 /\ Class(Word(j + 1)[1]) = "blank"}}

\* The depth a heading's decimal numbering states, 0 when it states none: the
\* number, an optional period, and then words.
HeadingNumberingDepth(text) ==
  LET s == TrimLeft(text)
      rest == IF Len(s) > 1 /\ s[2] = "." THEN From(s, 3) ELSE From(s, 2)
      worded == rest # <<>> /\ IsSpace(rest[1]) /\ \E i \in DOMAIN rest : IsAlpha(rest[i])
  IN CASE s # <<>> /\ worded /\ Class(s[1]) = "num" /\ NumberOf[s[1]] < 1000 -> 1
       [] s # <<>> /\ worded /\ Class(s[1]) = "dotted" -> 2
       [] OTHER -> 0
\* One to three words in capitals.
MaximumSectionWords == 3
IsSectionWordHeading(text) ==
  LET s == Trim(text)
  IN /\ WordCount(s) \in 1..MaximumSectionWords
     /\ \A i \in DOMAIN s : IsSpace(s[i]) \/ Class(s[i]) = "caps"
HeadingReadsAsProse(text) ==
  LET s == Trim(text) IN s # <<>> /\ (Last(s) = "." \/ WordCount(s) > MaximumHeadingWords)
=============================================================================
