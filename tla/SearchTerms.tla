----------------------------- MODULE SearchTerms -----------------------------
(***************************************************************************)
(* What a file name search looks for (src/filenamesearch): the word list   *)
(* of a pattern, and whether a file holds every word of it.  A character   *)
(* is one of the classes the code tells apart.                             *)
(***************************************************************************)
EXTENDS Naturals, Sequences, FiniteSets, SequencesExt

CONSTANTS Letter, MaxPattern, SearchTerm, MaxTextLines

Quote == "'"
DoubleQuote == "\""
Backslash == "\\"
Blank == {" ", "_"}
Character == Letter \cup Blank \cup {Quote, DoubleQuote, Backslash}
Gap == "s+"  \* in a term: the expression for white space

----------------------------------------------------------------------------
(* escapeApostrophes()                                                     *)

EscapeInit == [escaped |-> FALSE, seenSpace |-> TRUE, seenApostrophe |-> FALSE, quotes |-> 0, out |-> <<>>]
IsEven(st) == st.quotes % 2 = 0

(* The quote held back was an apostrophe, or the end of a phrase.          *)
TreatQuoteAsApostrophe(st, c) ==
  [st EXCEPT !.out = @ \o (IF st.seenApostrophe THEN <<Backslash, Quote>> ELSE <<>>) \o <<c>>, !.seenApostrophe = FALSE]
TreatQuoteAsQuote(st, c) ==
  [st EXCEPT !.out = @ \o (IF st.seenApostrophe THEN <<Quote>> ELSE <<>>) \o <<c>>,
             !.quotes = IF st.seenApostrophe THEN @ + 1 ELSE @, !.seenApostrophe = FALSE]

EscapeStep(st, c) ==
  CASE st.escaped ->
         [st EXCEPT !.out = Append(@, c), !.escaped = FALSE, !.seenSpace = c \in Blank, !.seenApostrophe = FALSE]
    [] ~st.escaped /\ c = Backslash -> [TreatQuoteAsApostrophe(st, c) EXCEPT !.escaped = TRUE]
    [] ~st.escaped /\ c = Quote ->
         IF ~st.seenSpace /\ ~st.seenApostrophe THEN [st EXCEPT !.seenApostrophe = TRUE]
         ELSE [st EXCEPT !.out = Append(@, Quote), !.quotes = @ + 1]
    [] ~st.escaped /\ c \in Blank ->
         [(IF IsEven(st) THEN TreatQuoteAsApostrophe(st, c) ELSE TreatQuoteAsQuote(st, c)) EXCEPT !.seenSpace = TRUE]
    [] OTHER -> [TreatQuoteAsApostrophe(st, c) EXCEPT !.seenSpace = FALSE]

(* Mutant: a quote held back at the end is forgotten.                      *)
LastQuoteForgotten(pattern) == FoldLeft(EscapeStep, EscapeInit, pattern).out
EscapeApostrophes(pattern) ==
  LET st == FoldLeft(EscapeStep, EscapeInit, pattern)
  IN  st.out \o (IF ~st.seenApostrophe THEN <<>> ELSE IF IsEven(st) THEN <<Backslash, Quote>> ELSE <<Quote>>)

----------------------------------------------------------------------------
(* splitWordList()                                                         *)

(* escapePhrase(): each run of blanks is one gap.                          *)
EscapePhrase(term) ==
  FoldLeft(LAMBDA out, c : IF c \notin Blank THEN Append(out, c)
                           ELSE IF out # <<>> /\ Last(out) = Gap THEN out ELSE Append(out, Gap), <<>>, term)

SplitInit == [words |-> <<>>, term |-> <<>>, in |-> "none", escaped |-> FALSE]
AddTerm(st) == IF st.term = <<>> THEN st ELSE [st EXCEPT !.words = Append(@, EscapePhrase(st.term)), !.term = <<>>]

SplitStep(st, c) ==
  CASE st.escaped -> [st EXCEPT !.term = Append(@, c), !.escaped = FALSE]
    [] ~st.escaped /\ c = Backslash -> [st EXCEPT !.escaped = TRUE]
    [] ~st.escaped /\ c \in {Quote, DoubleQuote} /\ st.in \in {"none", c} ->
         IF st.in = c THEN [AddTerm(st) EXCEPT !.in = "none"] ELSE [st EXCEPT !.in = c]
    [] ~st.escaped /\ c = " " /\ st.in = "none" -> AddTerm(st)
    [] OTHER -> [st EXCEPT !.term = Append(@, c)]

SplitWordList(pattern) == AddTerm(FoldLeft(SplitStep, SplitInit, EscapeApostrophes(pattern))).words

----------------------------------------------------------------------------
(* match(): a name, a line of text is the set of the terms it matches; how *)
(* often each has been seen is kept from the name on through the text.     *)

NotSeen == [t \in SearchTerm |-> 0]
Seen(hash, where) == [t \in SearchTerm |-> IF hash[t] = 0 /\ t \in where THEN 1 ELSE hash[t]]
MatchedEverything(hash, where) == \A t \in SearchTerm : hash[t] # 0 \/ t \in where

(* Each line is joined to the one before it, until all has been matched.   *)
ContentStep(st, line) ==
  IF st.matched THEN st
  ELSE [hash |-> Seen(st.hash, st.line \cup line), matched |-> MatchedEverything(st.hash, st.line \cup line), line |-> line]
ContentContainsPattern(hash, text) ==
  FoldLeft(ContentStep, [hash |-> hash, matched |-> FALSE, line |-> {}], text).matched

Match(name, text, searchContent) ==
  \/ MatchedEverything(NotSeen, name)
  \/ searchContent /\ ContentContainsPattern(Seen(NotSeen, name), text)

----------------------------------------------------------------------------
(* The inputs.                                                             *)
VARIABLES pattern, fileName, fileText
termVars == <<pattern, fileName, fileText>>

TermsInit ==
  /\ pattern = <<>> /\ fileName \in SUBSET SearchTerm /\ fileText = <<>>
TypeCharacter ==
  /\ Len(pattern) < MaxPattern /\ fileName = {} /\ fileText = <<>>
  /\ \E c \in Character : pattern' = Append(pattern, c) /\ UNCHANGED <<fileName, fileText>>
WriteLine ==
  /\ Len(fileText) < MaxTextLines /\ pattern = <<>>
  /\ \E l \in SUBSET SearchTerm : fileText' = Append(fileText, l) /\ UNCHANGED <<fileName, pattern>>
TermsNext == TypeCharacter \/ WriteLine

Letters(s) == SelectSeq(s, LAMBDA c : c \in Letter)
Occurs(c, s) == Cardinality({i \in DOMAIN s : s[i] = c})

(* The words hold every letter typed, in order, however it is quoted or    *)
(* escaped, and no word is empty; without quotes and backslashes they are  *)
(* what is between the spaces; what is between two double quotes is one    *)
(* word; and an apostrophe inside a word stays in it, even the only one at *)
(* the end of the pattern.                                                 *)
TermsRight ==
  LET words == SplitWordList(pattern)
      plain == {Quote, DoubleQuote, Backslash} \cap Range(pattern) = {}
  IN  /\ FlattenSeq([i \in DOMAIN words |-> Letters(words[i])]) = Letters(pattern)
      /\ \A i \in DOMAIN words : words[i] # <<>>
      /\ plain => Len(words) = Cardinality({i \in DOMAIN pattern : pattern[i] # " " /\ (i = 1 \/ pattern[i - 1] = " ")})
      /\ Len(pattern) > 2 /\ Head(pattern) = DoubleQuote /\ Last(pattern) = DoubleQuote
           /\ {DoubleQuote, Quote, Backslash} \cap Range(SubSeq(pattern, 2, Len(pattern) - 1)) = {} => Len(words) = 1
      /\ Occurs(Quote, pattern) = 1 /\ {DoubleQuote, Backslash} \cap Range(pattern) = {} =>
           \A i \in 2 .. Len(pattern) :
             pattern[i] = Quote /\ pattern[i - 1] \in Letter => \E w \in Range(words) : Quote \in Range(w)

(* A file matches exactly when each term is in its name or somewhere in    *)
(* its text: what has been seen is not asked for again, and one file's     *)
(* count is not another's.                                                 *)
MatchRight ==
  /\ Match(fileName, fileText, FALSE) <=> SearchTerm \subseteq fileName
  /\ Match(fileName, fileText, TRUE) <=> SearchTerm \subseteq fileName \cup UNION Range(fileText)

(* What is looked for, and which files match it.                           *)
WordsRight == TermsRight /\ MatchRight
=============================================================================
