------------------------- MODULE StreamParserProofs -------------------------
(***************************************************************************)
(* The push parser returns what parsing everything at once returns.  What  *)
(* it decodes, cuts into tokens and processes chunk by chunk are folds,    *)
(* and a fold over two parts continues where the first ended.              *)
(***************************************************************************)
EXTENDS StreamParser, TreeLemmas, SequenceTheorems

-----------------------------------------------------------------------------
(***************************************************************************)
(* The loops as folds.                                                     *)
(***************************************************************************)
DecodeStep(run, unit) ==
  [decoder |-> AfterUnit(run.decoder, unit), output |-> run.output \o DecodeUnit(run.decoder, unit)]

CutStep(run, unit) ==
  IF IsMarkup(unit)
  THEN [tokens |-> run.tokens \o TextRun(run.held) \o <<MarkupTokens[unit]>>, held |-> <<>>]
  ELSE [run EXCEPT !.held = Append(@, unit)]

SizeStep(size, unit) == size + SizeOf(unit)

Decodings == INSTANCE SequenceFold WITH Op <- DecodeStep
Cuts      == INSTANCE SequenceFold WITH Op <- CutStep
Sizes     == INSTANCE SequenceFold WITH Op <- SizeStep
Feeding   == INSTANCE SequenceFold WITH Op <- Process
Blocking  == INSTANCE SequenceFold WITH Op <- DecodeAndProcess

\* The fact that module SequenceFold asks for.
LEMMA FoldLeast ==
  /\ Decodings!LeastExists /\ Cuts!LeastExists /\ Sizes!LeastExists
  /\ Feeding!LeastExists /\ Blocking!LeastExists
  BY LeastElement DEF Decodings!LeastExists, Cuts!LeastExists, Sizes!LeastExists,
                      Feeding!LeastExists, Blocking!LeastExists

\* Decoding is a fold.
LEMMA DecodeFolds ==
  ASSUME NEW decoder, NEW units
  PROVE  Decode(decoder, units) = Decodings!Folded([decoder |-> decoder, output |-> <<>>], units)
  BY DEF Decode, DecodeStep, Decodings!Folded, Decodings!Greatest, FoldLeft, MapThenFoldSet, Max

\* Cutting text into tokens is a fold.
LEMMA TokenizedFolds ==
  ASSUME NEW held, NEW units
  PROVE  Tokenized(held, units) = Cuts!Folded([tokens |-> <<>>, held |-> held], units)
  BY DEF Tokenized, CutStep, Cuts!Folded, Cuts!Greatest, FoldLeft, MapThenFoldSet, Max

\* Adding up sizes is a fold.
LEMMA SizeFolds ==
  ASSUME NEW units
  PROVE  SizeOfAll(units) = Sizes!Folded(0, units)
  BY DEF SizeOfAll, SizeStep, Sizes!Folded, Sizes!Greatest, FoldLeft, MapThenFoldSet, Max

\* Building the tree is a fold.
LEMMA ProcessFolds ==
  ASSUME NEW c, NEW tokens
  PROVE  FoldLeft(Process, c, tokens) = Feeding!Folded(c, tokens)
  BY DEF Feeding!Folded, Feeding!Greatest, FoldLeft, MapThenFoldSet, Max

\* Feeding the blocks of a chunk is a fold.
LEMMA BlocksFold ==
  ASSUME NEW q, NEW blocks
  PROVE  ProcessAll([q |-> q, blocks |-> blocks]) = Blocking!Folded(q, blocks)
  BY DEF ProcessAll, Blocking!Folded, Blocking!Greatest, FoldLeft, MapThenFoldSet, Max

-----------------------------------------------------------------------------
(***************************************************************************)
(* What is decoded, measured and cut in two parts.                         *)
(***************************************************************************)
TextUnits == RawUnits \union {"fffd", "j", "y"}

Encodings == {"none", "utf8", "legacy", "replacement"}

Decoders == [encoding : Encodings, shifted : BOOLEAN, spent : BOOLEAN, size : Nat]

DecodedText == [decoder : Decoders, output : Seq(TextUnits)]

TreeTokens ==
  {Text(held) : held \in Seq(TextUnits)} \union {MarkupTokens[unit] : unit \in DOMAIN MarkupTokens}

Cutting == [tokens : Seq(TreeTokens), held : Seq(TextUnits)]

\* The size of text is a number.
LEMMA SizeType ==
  ASSUME NEW units \in Seq(TextUnits)
  PROVE  SizeOfAll(units) \in Nat
<1>1. 0 \in Nat /\ \A size \in Nat, unit \in TextUnits : SizeStep(size, unit) \in Nat
  BY DEF SizeStep, SizeOf
<1> QED
  BY <1>1, SizeFolds, FoldLeast, Sizes!FoldInvariant

\* The sizes of two parts add up.
LEMMA SizeConcat ==
  ASSUME NEW s \in Seq(TextUnits), NEW t \in Seq(TextUnits)
  PROVE  SizeOfAll(s \o t) = SizeOfAll(s) + SizeOfAll(t)
<1> DEFINE c == SizeOfAll(s)
           R == {<<c + m, m>> : m \in Nat}
<1>1. c \in Nat
  BY SizeType
<1>2. SizeOfAll(s \o t) = Sizes!Folded(c, t)
  BY SizeFolds, FoldLeast, Sizes!FoldConcat
<1> HIDE DEF c
<1>3. <<c, 0>> \in R
  <2>1. c = c + 0 /\ 0 \in Nat
    BY <1>1
  <2> QED
    BY <2>1
<1>4. Sizes!RelatedSteps(R, TextUnits)
  <2>1. ASSUME NEW r \in R, NEW unit \in TextUnits
        PROVE  <<SizeStep(r[1], unit), SizeStep(r[2], unit)>> \in R
    <3>1. PICK m \in Nat : r = <<c + m, m>>
      OBVIOUS
    <3>2. SizeOf(unit) \in Nat
      BY DEF SizeOf
    <3>3. SizeStep(r[1], unit) = c + (m + SizeOf(unit)) /\ SizeStep(r[2], unit) = m + SizeOf(unit)
      BY <1>1, <3>1, <3>2 DEF SizeStep
    <3>4. m + SizeOf(unit) \in Nat
      BY <3>2
    <3> QED
      BY <3>3, <3>4
  <2> QED
    BY <2>1 DEF Sizes!RelatedSteps
<1> HIDE DEF R
<1>5. <<Sizes!Folded(c, t), Sizes!Folded(0, t)>> \in R
  BY <1>3, <1>4, FoldLeast, Sizes!FoldRelated
<1>6. PICK m \in Nat : <<Sizes!Folded(c, t), Sizes!Folded(0, t)>> = <<c + m, m>>
  BY <1>5 DEF R
<1> QED
  BY <1>2, <1>6, SizeFolds DEF c

\* What one unit does to a decoder and what it yields.
LEMMA DecodeStepType ==
  ASSUME NEW run \in DecodedText, NEW unit \in RawUnits
  PROVE  /\ AfterUnit(run.decoder, unit) \in Decoders
         /\ AfterUnit(run.decoder, unit).encoding = run.decoder.encoding
         /\ DecodeUnit(run.decoder, unit) \in Seq(TextUnits)
         /\ DecodeStep(run, unit) \in DecodedText
<1>1. /\ AfterUnit(run.decoder, unit) \in Decoders
      /\ AfterUnit(run.decoder, unit).encoding = run.decoder.encoding
  BY DEF AfterUnit, Decoders, DecodedText
<1>2. DecodeUnit(run.decoder, unit) \in Seq(TextUnits)
  <2>1. <<>> \in Seq(TextUnits) /\ <<unit>> \in Seq(TextUnits) /\ <<"fffd">> \in Seq(TextUnits)
        /\ <<"j">> \in Seq(TextUnits) /\ <<"y">> \in Seq(TextUnits)
    BY DEF TextUnits
  <2> QED
    BY <2>1 DEF DecodeUnit
<1>3. run.output \o DecodeUnit(run.decoder, unit) \in Seq(TextUnits)
  BY <1>2, ConcatProperties DEF DecodedText
<1> QED
  BY <1>1, <1>2, <1>3 DEF DecodeStep, DecodedText

\* Decoding keeps the encoding and yields text.
LEMMA DecodeType ==
  ASSUME NEW decoder \in Decoders, NEW units \in Seq(RawUnits)
  PROVE  Decode(decoder, units) \in DecodedText /\ Decode(decoder, units).decoder.encoding = decoder.encoding
<1> DEFINE base == [decoder |-> decoder, output |-> <<>>]
           R == {run \in DecodedText : run.decoder.encoding = decoder.encoding}
<1>1. base \in R
  BY DEF DecodedText
<1>2. \A run \in R, unit \in RawUnits : DecodeStep(run, unit) \in R
  BY DecodeStepType DEF DecodeStep
<1> HIDE DEF R, base
<1>3. Decodings!Folded(base, units) \in R
  BY <1>1, <1>2, FoldLeast, Decodings!FoldInvariant
<1> QED
  BY <1>3, DecodeFolds DEF R, base

\* What was written before stays before what a step writes.
LEMMA DecodeStepAfter ==
  ASSUME NEW o \in Seq(TextUnits), NEW x \in DecodedText, NEW unit \in RawUnits
  PROVE  DecodeStep([decoder |-> x.decoder, output |-> o \o x.output], unit) =
           [decoder |-> DecodeStep(x, unit).decoder, output |-> o \o DecodeStep(x, unit).output]
<1> DEFINE z == x.output
           d == DecodeUnit(x.decoder, unit)
<1>1. z \in Seq(TextUnits) /\ d \in Seq(TextUnits)
  BY DecodeStepType DEF DecodedText
<1> HIDE DEF z, d
<1>2. (o \o z) \o d = o \o (z \o d)
  BY <1>1, ConcatAssociative
<1> QED
  BY <1>2 DEF DecodeStep, z, d

\* Decoding two parts: the second with the decoder the first leaves.
DecodeJoins(decoder, s, t) ==
  LET first  == Decode(decoder, s)
      second == Decode(first.decoder, t)
      whole  == Decode(decoder, s \o t)
  IN  whole.decoder = second.decoder /\ whole.output = first.output \o second.output

\* Decoding joins like that.
LEMMA DecodeConcat ==
  ASSUME NEW decoder \in Decoders, NEW s \in Seq(RawUnits), NEW t \in Seq(RawUnits)
  PROVE  DecodeJoins(decoder, s, t)
<1> DEFINE first == Decode(decoder, s)
           second == Decode(first.decoder, t)
           whole == Decode(decoder, s \o t)
           base == [decoder |-> first.decoder, output |-> <<>>]
           o == first.output
           R == {<<[decoder |-> x.decoder, output |-> o \o x.output], x>> : x \in DecodedText}
<1>1. first \in DecodedText
  BY DecodeType
<1>2. o \in Seq(TextUnits) /\ base \in DecodedText /\ first = [decoder |-> first.decoder, output |-> o]
  BY <1>1 DEF DecodedText
<1>3. whole = Decodings!Folded(first, t)
  <2> DEFINE none == [decoder |-> decoder, output |-> <<>>]
  <2>1. whole = Decodings!Folded(none, s \o t) /\ first = Decodings!Folded(none, s)
    BY DecodeFolds
  <2> HIDE DEF none
  <2>2. Decodings!Folded(none, s \o t) = Decodings!Folded(Decodings!Folded(none, s), t)
    BY FoldLeast, Decodings!FoldConcat
  <2> QED
    BY <2>1, <2>2
<1>4. second = Decodings!Folded(base, t)
  BY DecodeFolds
<1>5. <<first, base>> \in R
  <2>1. o \o <<>> = o
    BY <1>2, ConcatEmptySeq
  <2>2. first = [decoder |-> base.decoder, output |-> o \o base.output]
    BY <1>2, <2>1
  <2> QED
    BY <1>2, <2>2
<1> HIDE DEF base, o, first, second, whole
<1>6. Decodings!RelatedSteps(R, RawUnits)
  <2>1. ASSUME NEW r \in R, NEW unit \in RawUnits
        PROVE  <<DecodeStep(r[1], unit), DecodeStep(r[2], unit)>> \in R
    <3>1. PICK x \in DecodedText : r = <<[decoder |-> x.decoder, output |-> o \o x.output], x>>
      OBVIOUS
    <3> DEFINE y == DecodeStep(x, unit)
    <3>2. y \in DecodedText
      BY DecodeStepType
    <3>5. DecodeStep(r[1], unit) = [decoder |-> y.decoder, output |-> o \o y.output]
      BY <1>2, <3>1, DecodeStepAfter
    <3> HIDE DEF y
    <3>6. r[2] = x
      BY <3>1
    <3> QED
      BY <3>2, <3>5, <3>6 DEF y
  <2> QED
    BY <2>1 DEF Decodings!RelatedSteps
<1> HIDE DEF R
<1>7. <<Decodings!Folded(first, t), second>> \in R
  BY <1>4, <1>5, <1>6, FoldLeast, Decodings!FoldRelated
<1>8. PICK x \in DecodedText :
        <<whole, second>> = <<[decoder |-> x.decoder, output |-> o \o x.output], x>>
  BY <1>3, <1>7 DEF R
<1>9. x = second /\ whole = [decoder |-> x.decoder, output |-> o \o x.output]
  BY <1>8
<1>10. whole.decoder = x.decoder /\ whole.output = o \o x.output
  BY <1>9
<1> QED
  BY <1>9, <1>10 DEF o, first, second, whole, DecodeJoins

\* How much was decoded before does not matter to what is decoded.
LEMMA DecodeSized ==
  ASSUME NEW decoder \in Decoders, NEW size \in Nat, NEW units \in Seq(RawUnits),
         NEW sized, sized = Decode([decoder EXCEPT !.size = size], units)
  PROVE  /\ sized.output = Decode(decoder, units).output
         /\ sized.decoder = [Decode(decoder, units).decoder EXCEPT !.size = size]
<1> DEFINE R == {r \in DecodedText \X DecodedText :
                   r[1].output = r[2].output /\ r[1].decoder = [r[2].decoder EXCEPT !.size = size]}
           a == [decoder |-> [decoder EXCEPT !.size = size], output |-> <<>>]
           b == [decoder |-> decoder, output |-> <<>>]
<1>1. <<a, b>> \in R
  <2>1. [decoder EXCEPT !.size = size] \in Decoders /\ <<>> \in Seq(TextUnits)
    BY DEF Decoders
  <2>2. a \in DecodedText /\ b \in DecodedText
    BY <2>1 DEF DecodedText
  <2>3. a.output = b.output /\ a.decoder = [b.decoder EXCEPT !.size = size]
    OBVIOUS
  <2> HIDE DEF a, b
  <2>4. <<a, b>>[1] = a /\ <<a, b>>[2] = b /\ <<a, b>> \in DecodedText \X DecodedText
    BY <2>2
  <2> QED
    BY <2>3, <2>4
<1>2. Decodings!RelatedSteps(R, RawUnits)
  <2>1. ASSUME NEW r \in R, NEW unit \in RawUnits
        PROVE  <<DecodeStep(r[1], unit), DecodeStep(r[2], unit)>> \in R
    <3> DEFINE x == r[1]
               y == r[2]
    <3>1. x \in DecodedText /\ y \in DecodedText /\ x.output = y.output
          /\ x.decoder = [y.decoder EXCEPT !.size = size]
      OBVIOUS
    <3> HIDE DEF x, y
    <3>2. x.decoder.encoding = y.decoder.encoding /\ x.decoder.shifted = y.decoder.shifted
          /\ x.decoder.spent = y.decoder.spent
      BY <3>1 DEF DecodedText, Decoders
    <3>3. DecodeUnit(x.decoder, unit) = DecodeUnit(y.decoder, unit)
      BY <3>2 DEF DecodeUnit
    <3>4. AfterUnit(x.decoder, unit) = [AfterUnit(y.decoder, unit) EXCEPT !.size = size]
      BY <3>1, <3>2 DEF AfterUnit, DecodedText, Decoders
    <3>5. DecodeStep(x, unit) \in DecodedText /\ DecodeStep(y, unit) \in DecodedText
      BY <3>1, DecodeStepType
    <3>6. /\ DecodeStep(x, unit).output = DecodeStep(y, unit).output
          /\ DecodeStep(x, unit).decoder = [DecodeStep(y, unit).decoder EXCEPT !.size = size]
      BY <3>1, <3>3, <3>4 DEF DecodeStep
    <3> QED
      BY <3>5, <3>6 DEF x, y
  <2> QED
    BY <2>1 DEF Decodings!RelatedSteps
<1> HIDE DEF R, a, b
<1>3. <<Decodings!Folded(a, units), Decodings!Folded(b, units)>> \in R
  BY <1>1, <1>2, FoldLeast, Decodings!FoldRelated
<1>4. Decodings!Folded(a, units) = sized /\ Decodings!Folded(b, units) = Decode(decoder, units)
  BY DecodeFolds DEF a, b
<1> QED
  BY <1>3, <1>4 DEF R

\* The text held back is a token, unless there is none.
LEMMA TextRunType ==
  ASSUME NEW held \in Seq(TextUnits)
  PROVE  TextRun(held) \in Seq(TreeTokens)
<1>1. Text(held) \in TreeTokens
  BY DEF TreeTokens
<1> QED
  BY <1>1 DEF TextRun

\* What a unit adds to the tokens.
LEMMA CutStepType ==
  ASSUME NEW run \in Cutting, NEW unit \in TextUnits
  PROVE  CutStep(run, unit) \in Cutting
<1>1. TextRun(run.held) \in Seq(TreeTokens)
  BY TextRunType DEF Cutting
<1>2. CASE IsMarkup(unit)
  <2>1. <<MarkupTokens[unit]>> \in Seq(TreeTokens)
    BY <1>2 DEF IsMarkup, TreeTokens
  <2>2. run.tokens \o TextRun(run.held) \in Seq(TreeTokens)
    BY <1>1, ConcatProperties DEF Cutting
  <2>3. run.tokens \o TextRun(run.held) \o <<MarkupTokens[unit]>> \in Seq(TreeTokens)
    BY <2>1, <2>2, ConcatProperties
  <2> QED
    BY <1>2, <2>3 DEF CutStep, Cutting
<1>3. CASE ~ IsMarkup(unit)
  <2>1. run.held \in Seq(TextUnits)
    BY DEF Cutting
  <2>2. Append(run.held, unit) \in Seq(TextUnits)
    BY <2>1
  <2> HIDE DEF Cutting
  <2>3. CutStep(run, unit) = [run EXCEPT !.held = Append(run.held, unit)]
    BY <1>3 DEF CutStep
  <2> QED
    BY <2>2, <2>3 DEF Cutting
<1> QED
  BY <1>2, <1>3

\* Text is cut into tokens and text held back.
LEMMA TokenizedType ==
  ASSUME NEW held \in Seq(TextUnits), NEW units \in Seq(TextUnits)
  PROVE  Tokenized(held, units) \in Cutting
<1>1. [tokens |-> <<>>, held |-> held] \in Cutting
  BY DEF Cutting
<1> QED
  BY <1>1, CutStepType, TokenizedFolds, FoldLeast, Cuts!FoldInvariant

\* What was cut off before stays before what a step cuts off.
LEMMA CutStepAfter ==
  ASSUME NEW o \in Seq(TreeTokens), NEW x \in Cutting, NEW unit \in TextUnits
  PROVE  CutStep([tokens |-> o \o x.tokens, held |-> x.held], unit) =
           [tokens |-> o \o CutStep(x, unit).tokens, held |-> CutStep(x, unit).held]
<1> DEFINE z == x.tokens
           run == TextRun(x.held)
           mark == <<MarkupTokens[unit]>>
<1>1. z \in Seq(TreeTokens) /\ run \in Seq(TreeTokens)
  BY TextRunType DEF Cutting
<1> HIDE DEF z, run, mark
<1>2. CASE IsMarkup(unit)
  <2>1. mark \in Seq(TreeTokens)
    BY <1>2 DEF IsMarkup, TreeTokens, mark
  <2>2. PICK w \in Seq(TreeTokens) : w = z \o run
    BY <1>1, ConcatProperties
  <2>3. (o \o z) \o run = o \o w
    BY <1>1, <2>2, ConcatAssociative
  <2>4. (o \o w) \o mark = o \o (w \o mark)
    BY <2>1, ConcatAssociative
  <2> QED
    BY <1>2, <2>2, <2>3, <2>4 DEF CutStep, z, run, mark
<1>3. CASE ~ IsMarkup(unit)
  BY <1>3 DEF CutStep, Cutting
<1> QED
  BY <1>2, <1>3

\* Text in two parts: what the first holds back comes before the second.
TextJoins(held, s, t) ==
  LET first  == Tokenized(held, s)
      second == Tokenized(first.held, t)
      whole  == Tokenized(held, s \o t)
  IN  whole.tokens = first.tokens \o second.tokens /\ whole.held = second.held

\* Cutting text into tokens joins like that.
LEMMA TokenizedConcat ==
  ASSUME NEW held \in Seq(TextUnits), NEW s \in Seq(TextUnits), NEW t \in Seq(TextUnits)
  PROVE  TextJoins(held, s, t)
<1> DEFINE first == Tokenized(held, s)
           second == Tokenized(first.held, t)
           whole == Tokenized(held, s \o t)
           base == [tokens |-> <<>>, held |-> first.held]
           o == first.tokens
           R == {<<[tokens |-> o \o x.tokens, held |-> x.held], x>> : x \in Cutting}
<1>1. first \in Cutting
  BY TokenizedType
<1>2. o \in Seq(TreeTokens) /\ base \in Cutting /\ first = [tokens |-> o, held |-> first.held]
  BY <1>1 DEF Cutting
<1>3. whole = Cuts!Folded(first, t)
  <2> DEFINE none == [tokens |-> <<>>, held |-> held]
  <2>1. whole = Cuts!Folded(none, s \o t) /\ first = Cuts!Folded(none, s)
    BY TokenizedFolds
  <2> HIDE DEF none
  <2>2. Cuts!Folded(none, s \o t) = Cuts!Folded(Cuts!Folded(none, s), t)
    BY FoldLeast, Cuts!FoldConcat
  <2> QED
    BY <2>1, <2>2
<1>4. second = Cuts!Folded(base, t)
  BY TokenizedFolds
<1>5. <<first, base>> \in R
  <2>1. o \o <<>> = o
    BY <1>2, ConcatEmptySeq
  <2>2. first = [tokens |-> o \o base.tokens, held |-> base.held]
    BY <1>2, <2>1
  <2> QED
    BY <1>2, <2>2
<1> HIDE DEF base, o, first, second, whole
<1>6. Cuts!RelatedSteps(R, TextUnits)
  <2>1. ASSUME NEW r \in R, NEW unit \in TextUnits
        PROVE  <<CutStep(r[1], unit), CutStep(r[2], unit)>> \in R
    <3>1. PICK x \in Cutting : r = <<[tokens |-> o \o x.tokens, held |-> x.held], x>>
      OBVIOUS
    <3> DEFINE y == CutStep(x, unit)
    <3>2. y \in Cutting
      BY CutStepType
    <3>3. CutStep(r[1], unit) = [tokens |-> o \o y.tokens, held |-> y.held]
      BY <1>2, <3>1, CutStepAfter
    <3> HIDE DEF y
    <3>4. r[2] = x
      BY <3>1
    <3> QED
      BY <3>2, <3>3, <3>4 DEF y
  <2> QED
    BY <2>1 DEF Cuts!RelatedSteps
<1> HIDE DEF R
<1>7. <<Cuts!Folded(first, t), second>> \in R
  BY <1>4, <1>5, <1>6, FoldLeast, Cuts!FoldRelated
<1>8. PICK x \in Cutting : <<whole, second>> = <<[tokens |-> o \o x.tokens, held |-> x.held], x>>
  BY <1>3, <1>7 DEF R
<1>9. x = second /\ whole = [tokens |-> o \o x.tokens, held |-> x.held]
  BY <1>8
<1>10. whole.tokens = o \o x.tokens /\ whole.held = x.held
  BY <1>9
<1> QED
  BY <1>9, <1>10 DEF o, first, second, whole, TextJoins

\* Tokens in two parts: the second goes on with the builder the first leaves.
LEMMA ProcessConcat ==
  ASSUME NEW c, NEW s \in Seq(TreeTokens), NEW t \in Seq(TreeTokens)
  PROVE  FoldLeft(Process, c, s \o t) = FoldLeft(Process, FoldLeft(Process, c, s), t)
  BY ProcessFolds, FoldLeast, Feeding!FoldConcat

-----------------------------------------------------------------------------
(***************************************************************************)
(* Decoding and processing block by block.                                 *)
(***************************************************************************)
Builders == {FoldLeft(Process, EmptyBuilder, tokens) : tokens \in Seq(TreeTokens)}

Parser ==
  [limit : Nat, b : Builders, held : Seq(TextUnits), decoder : Decoders, buf : Seq(RawUnits),
   seen : Nat, terminal : BOOLEAN, failed : BOOLEAN]

TextIn(encoding, done) == Decode(NewDecoder(encoding), done).output

\* The parser after the units done were decoded: it failed because their text is
\* too large, or has the tree of the complete tokens of it, and holds back the rest.
Built(q, encoding, done) ==
  LET all == Decode(NewDecoder(encoding), done)
      run == Tokenized(<<>>, all.output)
  IN  /\ q.decoder.encoding = encoding /\ q.decoder.size <= q.limit
      /\ q.failed => SizeOfAll(all.output) > q.limit
      /\ ~ q.failed => /\ q.decoder = [all.decoder EXCEPT !.size = SizeOfAll(all.output)]
                       /\ q.held = run.held
                       /\ q.b = FoldLeft(Process, EmptyBuilder, run.tokens)

SameFeed(r, q) ==
  r.limit = q.limit /\ r.buf = q.buf /\ r.seen = q.seen /\ r.terminal = q.terminal

\* A tree and the tokens that follow make a tree.
LEMMA BuildersGrow ==
  ASSUME NEW c \in Builders, NEW tokens \in Seq(TreeTokens)
  PROVE  FoldLeft(Process, c, tokens) \in Builders
<1>1. PICK before \in Seq(TreeTokens) : c = FoldLeft(Process, EmptyBuilder, before)
  BY DEF Builders
<1>2. FoldLeft(Process, EmptyBuilder, before \o tokens) = FoldLeft(Process, c, tokens)
  BY <1>1, ProcessConcat
<1>3. before \o tokens \in Seq(TreeTokens)
  BY ConcatProperties
<1> QED
  BY <1>2, <1>3 DEF Builders

\* A decoder that has not decoded anything.
LEMMA NewDecoderType ==
  ASSUME NEW encoding \in Encodings
  PROVE  NewDecoder(encoding) \in Decoders
  BY DEF NewDecoder, Decoders

\* Cutting new text and processing the tokens.
LEMMA TokensProcessed ==
  ASSUME NEW q \in Parser, NEW before \in Seq(TextUnits), NEW output \in Seq(TextUnits),
         q.held = Tokenized(<<>>, before).held,
         q.b = FoldLeft(Process, EmptyBuilder, Tokenized(<<>>, before).tokens),
         NEW r, r = ProcessTokens(q, Tokenized(q.held, output))
  PROVE  /\ r \in Parser /\ SameFeed(r, q) /\ r.decoder = q.decoder /\ r.failed = q.failed
         /\ r.held = Tokenized(<<>>, before \o output).held
         /\ r.b = FoldLeft(Process, EmptyBuilder, Tokenized(<<>>, before \o output).tokens)
<1> DEFINE first == Tokenized(<<>>, before)
           second == Tokenized(q.held, output)
<1>1. <<>> \in Seq(TextUnits) /\ q.held \in Seq(TextUnits)
  BY DEF Parser
<1>2. first \in Cutting /\ second \in Cutting
  BY <1>1, TokenizedType
<1>3. first.tokens \in Seq(TreeTokens) /\ second.tokens \in Seq(TreeTokens)
      /\ second.held \in Seq(TextUnits)
  BY <1>2 DEF Cutting
<1> DEFINE all == Tokenized(<<>>, before \o output)
<1>4. all.tokens = first.tokens \o second.tokens /\ all.held = second.held
  <2>1. TextJoins(<<>>, before, output)
    BY <1>1, TokenizedConcat
  <2> QED
    BY <2>1 DEF TextJoins
<1> HIDE DEF first, second, all
<1>5. r = [q EXCEPT !.b = FoldLeft(Process, q.b, second.tokens), !.held = second.held]
  BY DEF ProcessTokens, second
<1>6. FoldLeft(Process, q.b, second.tokens) \in Builders
  BY <1>3, BuildersGrow DEF Parser
<1>7. FoldLeft(Process, q.b, second.tokens) =
        FoldLeft(Process, EmptyBuilder, first.tokens \o second.tokens)
  BY <1>3, ProcessConcat DEF first
<1> DEFINE c == FoldLeft(Process, q.b, second.tokens)
<1> HIDE DEF c
<1>8. r = [q EXCEPT !.b = c, !.held = second.held] /\ c \in Builders
  BY <1>5, <1>6 DEF c
<1>9. /\ r \in Parser /\ SameFeed(r, q) /\ r.decoder = q.decoder /\ r.failed = q.failed
      /\ r.held = second.held /\ r.b = c
  BY <1>3, <1>8 DEF Parser, SameFeed
<1>10. r.held = all.held /\ r.b = FoldLeft(Process, EmptyBuilder, all.tokens)
  BY <1>4, <1>7, <1>9 DEF c
<1> QED
  BY <1>9, <1>10 DEF all

\* One block: it is decoded with the decoder the last one left, its size is
\* added, and its text continues what was held back.
LEMMA BlockBuilds ==
  ASSUME NEW q \in Parser, NEW encoding \in Encodings, NEW done \in Seq(RawUnits),
         Built(q, encoding, done), NEW block \in Seq(RawUnits), NEW r, r = DecodeAndProcess(q, block)
  PROVE  r \in Parser /\ SameFeed(r, q) /\ Built(r, encoding, done \o block)
<1> DEFINE first == Decode(NewDecoder(encoding), done)
           second == Decode(first.decoder, block)
           whole == Decode(NewDecoder(encoding), done \o block)
<1>1. NewDecoder(encoding) \in Decoders
  BY NewDecoderType
<1>2. first \in DecodedText /\ first.decoder \in Decoders /\ first.decoder.encoding = encoding
  <2>1. NewDecoder(encoding).encoding = encoding
    BY DEF NewDecoder
  <2> QED
    BY <1>1, <2>1, DecodeType DEF DecodedText
<1>3. second \in DecodedText /\ second.decoder.encoding = encoding
  BY <1>2, DecodeType
<1>4. whole.decoder = second.decoder /\ whole.output = first.output \o second.output
  <2>1. DecodeJoins(NewDecoder(encoding), done, block)
    BY <1>1, DecodeConcat
  <2> QED
    BY <2>1 DEF DecodeJoins
<1> HIDE DEF first, second, whole
<1>5. /\ first.output \in Seq(TextUnits) /\ second.output \in Seq(TextUnits)
      /\ second.decoder \in Decoders
  BY <1>2, <1>3 DEF DecodedText
<1> DEFINE before == SizeOfAll(first.output)
           added == SizeOfAll(second.output)
<1>6. before \in Nat /\ added \in Nat /\ SizeOfAll(whole.output) = before + added
  BY <1>4, <1>5, SizeType, SizeConcat
<1> HIDE DEF before, added
<1>7. CASE q.failed
  <2>1. r = q /\ before > q.limit
    BY <1>7 DEF DecodeAndProcess, Built, first, before
  <2>2. SizeOfAll(whole.output) > q.limit
    BY <1>6, <2>1 DEF Parser
  <2> QED
    BY <1>7, <2>1, <2>2 DEF Built, SameFeed, whole
<1>8. CASE ~ q.failed
  <2> DEFINE decoded == Decode(q.decoder, block)
  <2>1. /\ q.decoder = [first.decoder EXCEPT !.size = before]
        /\ q.held = Tokenized(<<>>, first.output).held
        /\ q.b = FoldLeft(Process, EmptyBuilder, Tokenized(<<>>, first.output).tokens)
    BY <1>8 DEF Built, first, before
  <2>2. decoded.output = second.output /\ decoded.decoder = [second.decoder EXCEPT !.size = before]
    BY <1>2, <1>6, <2>1, DecodeSized DEF second
  <2>3. q.decoder.size = before
    BY <1>2, <2>1 DEF Decoders
  <2>4. r = ProcessDecoded(q, decoded)
    BY <1>8 DEF DecodeAndProcess
  <2> HIDE DEF decoded
  <2>5. CASE before + added > q.limit
    <3>1. r = [q EXCEPT !.failed = TRUE]
      BY <2>2, <2>3, <2>4, <2>5 DEF ProcessDecoded, added
    <3>2. r \in Parser /\ SameFeed(r, q) /\ r.failed /\ r.decoder = q.decoder /\ r.limit = q.limit
      BY <3>1 DEF Parser, SameFeed
    <3> QED
      BY <1>6, <2>5, <3>2 DEF Built, whole
  <2>6. CASE ~ (before + added > q.limit)
    <3> DEFINE d == [second.decoder EXCEPT !.size = before + added]
               g == [q EXCEPT !.decoder = d]
    <3>1. [decoded.decoder EXCEPT !.size = @ + SizeOfAll(decoded.output)] = d
      BY <1>5, <2>2 DEF Decoders, added
    <3>2. r = ProcessTokens(g, Tokenized(q.held, second.output))
      BY <2>2, <2>3, <2>4, <2>6, <3>1 DEF ProcessDecoded, added
    <3>3. d \in Decoders /\ d.encoding = encoding /\ d.size = before + added
      <4>1. before + added \in Nat
        BY <1>6
      <4> QED
        BY <1>3, <1>5, <4>1 DEF Decoders
    <3> HIDE DEF d
    <3>4. /\ g \in Parser /\ g.held = q.held /\ g.b = q.b /\ SameFeed(g, q)
          /\ g.decoder = d /\ ~ g.failed
      BY <1>8, <3>3 DEF Parser, SameFeed
    <3> HIDE DEF g
    <3>5. /\ r \in Parser /\ SameFeed(r, g) /\ r.decoder = d /\ ~ r.failed
          /\ r.held = Tokenized(<<>>, first.output \o second.output).held
          /\ r.b = FoldLeft(Process, EmptyBuilder,
                            Tokenized(<<>>, first.output \o second.output).tokens)
      BY <1>5, <2>1, <3>2, <3>4, TokensProcessed
    <3>6. SameFeed(r, q) /\ r.limit = q.limit
      BY <3>4, <3>5 DEF SameFeed
    <3>7. q.limit \in Nat /\ r.decoder.size <= r.limit
      BY <1>6, <2>6, <3>3, <3>5, <3>6 DEF Parser
    <3>8. r.decoder = [whole.decoder EXCEPT !.size = SizeOfAll(whole.output)]
      BY <1>4, <1>6, <3>5 DEF d
    <3> QED
      BY <1>4, <3>3, <3>5, <3>6, <3>7, <3>8 DEF Built, whole
  <2> QED
    BY <2>5, <2>6
<1> QED
  BY <1>7, <1>8

-----------------------------------------------------------------------------
(***************************************************************************)
(* The blocks of a chunk.                                                  *)
(***************************************************************************)

\* The smaller of two numbers.
LEMMA MinOfTwo ==
  ASSUME NEW a \in Int, NEW b \in Int
  PROVE  Min({a, b}) = IF a <= b THEN a ELSE b
<1> DEFINE least == IF a <= b THEN a ELSE b
<1>1. least \in {a, b} /\ \A x \in {a, b} : least <= x
  OBVIOUS
<1>2. \A x \in {a, b} : (\A y \in {a, b} : x <= y) => x = least
  OBVIOUS
<1> HIDE DEF least
<1>3. Min({a, b}) = least
  BY <1>1, <1>2 DEF Min
<1> QED
  BY <1>3 DEF least

\* Where the block after i blocks begins.
Cut(i, len) == Min({i * BlockSize, len})

BlockCount(len) == (len + BlockSize - 1) \div BlockSize

\* The blocks follow one another from the first unit to the last.
LEMMA CutsAscend ==
  ASSUME NEW len \in Nat
  PROVE  /\ BlockCount(len) \in Nat /\ Cut(0, len) = 0 /\ Cut(BlockCount(len), len) = len
         /\ \A i \in 1..BlockCount(len) :
              /\ Cut(i - 1, len) = (i - 1) * BlockSize /\ (i - 1) * BlockSize \in 0 .. len - 1
              /\ Cut(i, len) \in (i - 1) * BlockSize .. len
<1> DEFINE n == BlockCount(len)
<1>1. BlockSize \in Nat /\ BlockSize >= 1
  BY BlockSizeAssumption
<1>2. n \in Nat /\ n * BlockSize <= len + BlockSize - 1 /\ len + BlockSize - 1 < n * BlockSize + BlockSize
  BY <1>1 DEF BlockCount
<1> HIDE DEF n
<1>3. Cut(0, len) = 0
  <2>1. 0 * BlockSize = 0
    BY <1>1
  <2> QED
    BY <2>1, MinOfTwo DEF Cut
<1>4. Cut(n, len) = len
  <2>1. n * BlockSize \in Int /\ n * BlockSize >= len
    BY <1>1, <1>2
  <2> QED
    BY <2>1, MinOfTwo DEF Cut
<1>5. ASSUME NEW i \in 1..n
      PROVE  /\ Cut(i - 1, len) = (i - 1) * BlockSize /\ (i - 1) * BlockSize \in 0 .. len - 1
             /\ Cut(i, len) \in (i - 1) * BlockSize .. len
  <2>1. i * BlockSize \in Nat /\ (i - 1) * BlockSize \in Nat
        /\ (i - 1) * BlockSize = i * BlockSize - BlockSize
    BY <1>1, <1>2
  <2>2. i * BlockSize <= n * BlockSize
    <3>1. n - i \in Nat /\ n * BlockSize = i * BlockSize + (n - i) * BlockSize
      BY <1>1, <1>2
    <3>2. (n - i) * BlockSize \in Nat
      BY <1>1, <3>1
    <3> QED
      BY <1>1, <1>2, <2>1, <3>1, <3>2
  <2>3. (i - 1) * BlockSize <= len - 1
    BY <1>1, <1>2, <2>1, <2>2
  <2>4. Cut(i - 1, len) = (i - 1) * BlockSize
    BY <2>1, <2>3, MinOfTwo DEF Cut
  <2>5. Cut(i, len) = i * BlockSize \/ Cut(i, len) = len
    BY <2>1, MinOfTwo DEF Cut
  <2>6. Cut(i, len) <= len
    BY <2>1, MinOfTwo DEF Cut
  <2> QED
    BY <1>1, <2>1, <2>3, <2>4, <2>5, <2>6
<1> QED
  BY <1>2, <1>3, <1>4, <1>5 DEF n

\* Joining raw input is associative.
LEMMA RawJoin ==
  ASSUME NEW a \in Seq(RawUnits), NEW b \in Seq(RawUnits), NEW c \in Seq(RawUnits)
  PROVE  a \o b \in Seq(RawUnits) /\ (a \o b) \o c = a \o (b \o c)
<1>1. a \o b \in Seq(RawUnits)
  BY ConcatProperties
<1>2. (a \o b) \o c = a \o (b \o c)
  BY ConcatAssociative
<1> QED
  BY <1>1, <1>2

\* Two parts that follow one another.
LEMMA PartsJoin ==
  ASSUME NEW done \in Seq(RawUnits), NEW rest \in Seq(RawUnits),
         NEW from \in 0..Len(rest), NEW to \in from..Len(rest)
  PROVE  /\ SubSeq(rest, from + 1, to) \in Seq(RawUnits) /\ SubSeq(rest, 1, from) \in Seq(RawUnits)
         /\ done \o SubSeq(rest, 1, from) \in Seq(RawUnits)
         /\ (done \o SubSeq(rest, 1, from)) \o SubSeq(rest, from + 1, to) = done \o SubSeq(rest, 1, to)
<1> DEFINE before == SubSeq(rest, 1, from)
           block == SubSeq(rest, from + 1, to)
           both == SubSeq(rest, 1, to)
<1>1. Len(rest) \in Nat /\ \A j \in 1..Len(rest) : rest[j] \in RawUnits
  OBVIOUS
<1>2. block \in Seq(RawUnits) /\ before \in Seq(RawUnits)
  <2>1. (\A j \in from + 1 .. to : rest[j] \in RawUnits) /\ \A j \in 1..from : rest[j] \in RawUnits
    BY <1>1
  <2>2. from + 1 \in Int /\ to \in Int /\ from \in Int /\ 1 \in Int
    BY <1>1
  <2> QED
    BY <2>1, <2>2, SubSeqProperties
<1>3. both = before \o block
  <2>1. 1 \in 1 .. Len(rest) + 1 /\ from \in 1 - 1 .. Len(rest) /\ to \in from .. Len(rest)
    BY <1>1
  <2>2. SubSeq(rest, 1, from) \o SubSeq(rest, from + 1, to) = SubSeq(rest, 1, to)
    BY <2>1, ConcatAdjacentSubSeq
  <2> QED
    BY <2>2
<1> HIDE DEF before, block, both
<1>4. done \o before \in Seq(RawUnits) /\ (done \o before) \o block = done \o both
  <2>1. done \o before \in Seq(RawUnits) /\ (done \o before) \o block = done \o (before \o block)
    BY <1>2, RawJoin
  <2> QED
    BY <1>3, <2>1
<1> QED
  BY <1>2, <1>4 DEF before, block, both

\* The blocks of a chunk are parts of it, and follow one another.
LEMMA BlocksType ==
  ASSUME NEW rest \in Seq(RawUnits)
  PROVE  /\ Blocks(rest) \in Seq(Seq(RawUnits)) /\ Len(Blocks(rest)) = BlockCount(Len(rest))
         /\ \A i \in 1..BlockCount(Len(rest)) :
              /\ Cut(i - 1, Len(rest)) \in 0..Len(rest)
              /\ Cut(i, Len(rest)) \in Cut(i - 1, Len(rest))..Len(rest)
              /\ Blocks(rest)[i] = SubSeq(rest, Cut(i - 1, Len(rest)) + 1, Cut(i, Len(rest)))
<1> DEFINE len == Len(rest)
           n == BlockCount(len)
           blocks == Blocks(rest)
<1>1. len \in Nat /\ n \in Nat
  BY CutsAscend
<1>2. blocks = [i \in 1..n |-> SubSeq(rest, (i - 1) * BlockSize + 1, Cut(i, len))]
  BY DEF Blocks, BlockCount, Cut
<1> HIDE DEF n, blocks
<1>3. ASSUME NEW i \in 1..n
      PROVE  /\ Cut(i - 1, len) \in 0..len /\ Cut(i, len) \in Cut(i - 1, len)..len
             /\ blocks[i] = SubSeq(rest, Cut(i - 1, len) + 1, Cut(i, len))
             /\ blocks[i] \in Seq(RawUnits)
  <2>1. /\ Cut(i - 1, len) = (i - 1) * BlockSize /\ (i - 1) * BlockSize \in 0 .. len - 1
        /\ Cut(i, len) \in (i - 1) * BlockSize .. len
    BY <1>1, CutsAscend DEF n
  <2>2. Cut(i - 1, len) \in 0..len /\ Cut(i, len) \in Cut(i - 1, len)..len
    BY <1>1, <2>1
  <2>3. blocks[i] = SubSeq(rest, Cut(i - 1, len) + 1, Cut(i, len))
    BY <1>2, <2>1
  <2> QED
    BY <2>2, <2>3, PartsJoin
<1>4. blocks \in Seq(Seq(RawUnits)) /\ Len(blocks) = n
  <2>1. blocks \in [1..n -> Seq(RawUnits)]
    BY <1>2, <1>3
  <2> QED
    BY <1>1, <2>1
<1> QED
  BY <1>3, <1>4 DEF n, blocks

\* The parsers that decoded some units after those q decoded.
Further(q, encoding, done, units) ==
  {r \in Parser : SameFeed(r, q) /\ Built(r, encoding, done \o units)}

\* A chunk is decoded block by block.
LEMMA BlocksBuild ==
  ASSUME NEW q \in Parser, NEW encoding \in Encodings, NEW done \in Seq(RawUnits),
         Built(q, encoding, done), NEW rest \in Seq(RawUnits),
         NEW r, r = ProcessAll([q |-> q, blocks |-> Blocks(rest)])
  PROVE  r \in Parser /\ SameFeed(r, q) /\ Built(r, encoding, done \o rest)
<1> DEFINE len == Len(rest)
           n == BlockCount(len)
           blocks == Blocks(rest)
           R == [i \in 0..n |-> Further(q, encoding, done, SubSeq(rest, 1, Cut(i, len)))]
<1>1. len \in Nat /\ n \in Nat /\ Cut(0, len) = 0 /\ Cut(n, len) = len
  <2>1. len \in Nat
    OBVIOUS
  <2> HIDE DEF len
  <2> QED
    BY <2>1, CutsAscend
<1>3. SubSeq(rest, 1, len) = rest /\ SubSeq(rest, 1, 0) = <<>>
  BY SubSeqFull, SubSeqEmpty
<1>4. ASSUME NEW i \in 1..n
      PROVE  /\ Cut(i - 1, len) \in 0..len /\ Cut(i, len) \in Cut(i - 1, len)..len
             /\ blocks[i] = SubSeq(rest, Cut(i - 1, len) + 1, Cut(i, len))
  BY BlocksType
<1>5. blocks \in Seq(Seq(RawUnits)) /\ Len(blocks) = n
  BY BlocksType
<1> HIDE DEF n, blocks
<1>6. q \in R[0]
  <2>1. done \o <<>> = done
    BY ConcatEmptySeq
  <2>2. q \in Further(q, encoding, done, <<>>)
    BY <2>1 DEF Further, SameFeed
  <2>3. R[0] = Further(q, encoding, done, SubSeq(rest, 1, Cut(0, len)))
    BY <1>1
  <2>4. SubSeq(rest, 1, Cut(0, len)) = <<>>
    BY <1>1, <1>3
  <2> QED
    BY <2>2, <2>3, <2>4
<1>7. ASSUME NEW i \in 1..n, NEW x \in R[i - 1]
      PROVE  DecodeAndProcess(x, blocks[i]) \in R[i]
  <2> DEFINE from == Cut(i - 1, len)
             to == Cut(i, len)
             before == SubSeq(rest, 1, from)
             upTo == SubSeq(rest, 1, to)
             all == done \o before
             y == DecodeAndProcess(x, blocks[i])
  <2>1. R[i - 1] = Further(q, encoding, done, before) /\ R[i] = Further(q, encoding, done, upTo)
    <3>1. i - 1 \in 0..n /\ i \in 0..n
      BY <1>1
    <3> QED
      BY <3>1
  <2> HIDE DEF R
  <2>2. from \in 0..len /\ to \in from..len /\ blocks[i] = SubSeq(rest, from + 1, to)
    BY <1>4
  <2> HIDE DEF from, to
  <2>3. blocks[i] \in Seq(RawUnits) /\ all \in Seq(RawUnits) /\ all \o blocks[i] = done \o upTo
    <3> HIDE DEF blocks
    <3>1. /\ SubSeq(rest, from + 1, to) \in Seq(RawUnits) /\ all \in Seq(RawUnits)
          /\ all \o SubSeq(rest, from + 1, to) = done \o upTo
      BY <2>2, PartsJoin
    <3> HIDE DEF all, upTo
    <3> QED
      BY <2>2, <3>1
  <2>4. x \in Parser /\ SameFeed(x, q) /\ Built(x, encoding, all)
    BY <2>1 DEF Further
  <2> HIDE DEF all, upTo
  <2>5. y \in Parser /\ SameFeed(y, x) /\ Built(y, encoding, all \o blocks[i])
    BY <2>3, <2>4, BlockBuilds
  <2> HIDE DEF y
  <2>6. SameFeed(y, q)
    BY <2>4, <2>5 DEF SameFeed
  <2>7. y \in Further(q, encoding, done, upTo)
    BY <2>3, <2>5, <2>6 DEF Further
  <2> QED
    BY <2>1, <2>7 DEF y
<1>8. r = Blocking!Folded(q, blocks)
  BY BlocksFold DEF blocks
<1>9. R[n] = Further(q, encoding, done, rest)
  <2>1. R[n] = Further(q, encoding, done, SubSeq(rest, 1, Cut(n, len)))
    BY <1>1
  <2>2. SubSeq(rest, 1, Cut(n, len)) = rest
    BY <1>1, <1>3
  <2> QED
    BY <2>1, <2>2
<1> HIDE DEF R
<1>10. r \in R[n]
  BY <1>5, <1>6, <1>7, <1>8, FoldLeast, Blocking!FoldIndexed
<1> QED
  BY <1>9, <1>10 DEF Further

-----------------------------------------------------------------------------
(***************************************************************************)
(* The encoding is a matter of the first units.                            *)
(***************************************************************************)
AfterBom(units) == SubSeq(units, BomLen(units) + 1, Len(units))

\* What detection looks at.
Window(units) == SubSeq(units, 1, IF Len(units) < PrescanLimit THEN Len(units) ELSE PrescanLimit)

\* What detection decides.
LEMMA DetectType ==
  ASSUME NEW units
  PROVE  /\ Detect(units) \in Encodings \ {"none"} /\ BomLen(units) \in {0, 2}
         /\ HasBom(units) => Len(units) >= 2
  BY DEF Detect, Encodings, BomLen, HasBom

\* Units beyond the prescan limit do not change what was decided.
LEMMA DetectPrefix ==
  ASSUME NEW s \in Seq(RawUnits), NEW t \in Seq(RawUnits), Len(s) >= PrescanLimit
  PROVE  Detect(s \o t) = Detect(s) /\ BomLen(s \o t) = BomLen(s)
<1> DEFINE all == s \o t
<1>1. PrescanLimit \in Nat /\ PrescanLimit >= 2
  BY PrescanLimitAssumption
<1>2. /\ Len(s) \in Nat /\ Len(t) \in Nat /\ Len(all) = Len(s) + Len(t) /\ Len(all) >= PrescanLimit
      /\ all[1] = s[1] /\ all[2] = s[2]
  BY <1>1
<1>3. SubSeq(all, 1, PrescanLimit) = SubSeq(s, 1, PrescanLimit)
  <2>1. 1 \in 1..Len(s) /\ PrescanLimit \in 1..Len(s)
    BY <1>1, <1>2
  <2> QED
    BY <2>1, SubSeqOfConcat1
<1> HIDE DEF all
<1>4. HasBom(all) = HasBom(s)
  BY <1>1, <1>2 DEF HasBom
<1>5. Window(all) = Window(s)
  BY <1>1, <1>2, <1>3 DEF Window
<1>6. Detect(all) = Detect(s)
  <2> DEFINE Choice(bom, declares) ==
               IF bom \/ declares = <<>> THEN "utf8"
               ELSE IF Head(declares) = "<meta>" THEN "legacy" ELSE "replacement"
  <2>1. /\ Detect(all) = Choice(HasBom(all), Declarations(Window(all)))
        /\ Detect(s) = Choice(HasBom(s), Declarations(Window(s)))
    BY DEF Detect, Window
  <2>2. Declarations(Window(all)) = Declarations(Window(s))
    BY <1>5
  <2> HIDE DEF Choice
  <2>3. Choice(HasBom(all), Declarations(Window(all))) = Choice(HasBom(s), Declarations(Window(s)))
    BY <1>4, <2>2
  <2> QED
    BY <2>1, <2>3
<1>7. BomLen(all) = BomLen(s)
  BY <1>4 DEF BomLen
<1> QED
  BY <1>6, <1>7 DEF all

\* What follows the BOM.
LEMMA AfterBomType ==
  ASSUME NEW units \in Seq(RawUnits)
  PROVE  AfterBom(units) \in Seq(RawUnits)
<1>1. Len(units) \in Nat /\ \A j \in 1..Len(units) : units[j] \in RawUnits
  OBVIOUS
<1>2. BomLen(units) \in {0, 2}
  BY DetectType
<1>3. \A j \in BomLen(units) + 1 .. Len(units) : units[j] \in RawUnits
  BY <1>1, <1>2
<1>4. BomLen(units) + 1 \in Int /\ Len(units) \in Int
  BY <1>1, <1>2
<1> QED
  BY <1>3, <1>4, SubSeqProperties DEF AfterBom

\* More input comes after what follows the BOM.
LEMMA AfterBomConcat ==
  ASSUME NEW s \in Seq(RawUnits), NEW t \in Seq(RawUnits), Len(s) >= PrescanLimit
  PROVE  AfterBom(s \o t) = AfterBom(s) \o t
<1> DEFINE all == s \o t
           m == Len(s)
           n == Len(t)
           from == BomLen(s) + 1
<1>1. PrescanLimit \in Nat /\ PrescanLimit >= 2
  BY PrescanLimitAssumption
<1>2. m \in Nat /\ n \in Nat /\ all \in Seq(RawUnits) /\ Len(all) = m + n /\ m >= 2
  BY <1>1
<1>3. from \in 1..3 /\ BomLen(all) = BomLen(s)
  BY DetectType, DetectPrefix
<1>4. SubSeq(all, from, m) = AfterBom(s)
  <2>1. CASE from <= m
    <3>1. from \in 1..m /\ m \in 1..m
      BY <1>2, <1>3, <2>1
    <3> HIDE DEF from
    <3>2. SubSeq(all, from, m) = SubSeq(s, from, m)
      BY <3>1, SubSeqOfConcat1
    <3> QED
      BY <3>2 DEF AfterBom, from
  <2>2. CASE ~ (from <= m)
    <3>1. from \in Int /\ m \in Int /\ m < from
      BY <1>2, <1>3, <2>2
    <3>2. SubSeq(all, from, m) = <<>> /\ SubSeq(s, from, m) = <<>>
      BY <3>1, SubSeqEmpty
    <3> QED
      BY <3>2 DEF AfterBom
  <2> QED
    BY <2>1, <2>2
<1>5. SubSeq(all, m + 1, m + n) = t
  <2>1. CASE n = 0
    <3>1. t = <<>>
      BY <2>1
    <3>2. SubSeq(all, m + 1, m + n) = <<>>
      BY <1>2, <2>1, SubSeqEmpty
    <3> QED
      BY <3>1, <3>2
  <2>2. CASE n # 0
    <3>1. m + 1 \in m + 1 .. m + n /\ m + n \in m + 1 .. m + n
      BY <1>2, <2>2
    <3>2. SubSeq(all, m + 1, m + n) = SubSeq(t, (m + 1) - m, (m + n) - m)
      BY <3>1, SubSeqOfConcat2
    <3>3. (m + 1) - m = 1 /\ (m + n) - m = n
      BY <1>2
    <3>4. SubSeq(t, 1, n) = t
      BY SubSeqFull
    <3> QED
      BY <3>2, <3>3, <3>4
  <2> QED
    BY <2>1, <2>2
<1>6. SubSeq(all, from, m + n) = SubSeq(all, from, m) \o SubSeq(all, m + 1, m + n)
  <2>1. from \in 1 .. Len(all) + 1 /\ m \in from - 1 .. Len(all) /\ m + n \in m .. Len(all)
    BY <1>2, <1>3
  <2> HIDE DEF all, from, m, n
  <2> QED
    BY <1>2, <2>1, ConcatAdjacentSubSeq
<1>7. AfterBom(all) = SubSeq(all, from, m + n)
  BY <1>2, <1>3 DEF AfterBom
<1> QED
  BY <1>4, <1>5, <1>6, <1>7

-----------------------------------------------------------------------------
(***************************************************************************)
(* One call of feed, and finish.                                           *)
(***************************************************************************)

\* Nothing decoded, nothing cut, nothing built.
LEMMA NothingYet ==
  /\ \A decoder : Decode(decoder, <<>>) = [decoder |-> decoder, output |-> <<>>]
  /\ \A held : Tokenized(held, <<>>) = [tokens |-> <<>>, held |-> held]
  /\ SizeOfAll(<<>>) = 0
  /\ \A c : FoldLeft(Process, c, <<>>) = c
  /\ \A q : ProcessAll([q |-> q, blocks |-> <<>>]) = q
<1>1. \A decoder : Decode(decoder, <<>>) = [decoder |-> decoder, output |-> <<>>]
  BY DecodeFolds, FoldLeast, Decodings!FoldNothing
<1>2. \A held : Tokenized(held, <<>>) = [tokens |-> <<>>, held |-> held]
  BY TokenizedFolds, FoldLeast, Cuts!FoldNothing
<1>3. SizeOfAll(<<>>) = 0
  BY SizeFolds, FoldLeast, Sizes!FoldNothing
<1>4. \A c : FoldLeft(Process, c, <<>>) = c
  BY ProcessFolds, FoldLeast, Feeding!FoldNothing
<1>5. \A q : ProcessAll([q |-> q, blocks |-> <<>>]) = q
  BY BlocksFold, FoldLeast, Blocking!FoldNothing
<1> QED
  BY <1>1, <1>2, <1>3, <1>4, <1>5

\* The builder before the first token.
LEMMA EmptyBuilds == EmptyBuilder \in Builders
<1>1. <<>> \in Seq(TreeTokens)
  OBVIOUS
<1> QED
  BY <1>1, NothingYet DEF Builders

\* A parser that decided but has not decoded.
LEMMA NothingBuilt ==
  ASSUME NEW q \in Parser, NEW encoding \in Encodings, q.decoder = NewDecoder(encoding),
         q.b = EmptyBuilder, q.held = <<>>, ~ q.failed
  PROVE  Built(q, encoding, <<>>)
<1> DEFINE all == Decode(NewDecoder(encoding), <<>>)
           run == Tokenized(<<>>, all.output)
<1>1. all.output = <<>> /\ all.decoder = NewDecoder(encoding)
  BY NothingYet
<1> HIDE DEF all
<1>2. run.tokens = <<>> /\ run.held = <<>>
  BY <1>1, NothingYet
<1>3. SizeOfAll(all.output) = 0
  BY <1>1, NothingYet
<1> HIDE DEF run
<1>4. q.decoder.encoding = encoding /\ q.decoder.size = 0 /\ q.decoder = [all.decoder EXCEPT !.size = 0]
  <2> DEFINE new == NewDecoder(encoding)
  <2>1. new \in Decoders /\ new.encoding = encoding /\ new.size = 0
    BY NewDecoderType DEF NewDecoder
  <2> HIDE DEF new
  <2>2. all.decoder = new /\ q.decoder = new
    BY <1>1 DEF new
  <2>3. new = [new EXCEPT !.size = 0]
    BY <2>1 DEF Decoders
  <2> QED
    BY <2>1, <2>2, <2>3
<1>5. q.decoder.size <= q.limit
  BY <1>4 DEF Parser
<1>6. q.b = FoldLeft(Process, EmptyBuilder, run.tokens)
  BY <1>2, NothingYet
<1> QED
  BY <1>2, <1>3, <1>4, <1>5, <1>6 DEF Built, all, run

\* The encoding is decided and the buffered units are decoded before the rest.
LEMMA DecisionBuilds ==
  ASSUME NEW q \in Parser, q.b = EmptyBuilder, q.held = <<>>, ~ q.failed, NEW rest \in Seq(RawUnits),
         NEW r, r = ProcessAll(DecideEncoding(q, rest))
  PROVE  /\ r \in Parser /\ r.limit = q.limit /\ r.seen = q.seen /\ r.terminal = q.terminal
         /\ r.buf = <<>> /\ Built(r, Detect(q.buf), AfterBom(q.buf) \o rest)
<1> DEFINE encoding == Detect(q.buf)
           fresh == NewDecoder(encoding)
           decided == [q EXCEPT !.decoder = fresh, !.buf = <<>>]
           block == AfterBom(q.buf)
           mid == DecodeAndProcess(decided, block)
<1>1. encoding \in Encodings
  BY DetectType
<1>2. q.buf \in Seq(RawUnits) /\ block \in Seq(RawUnits)
  BY AfterBomType DEF Parser
<1>3. DecideEncoding(q, rest) = [q |-> decided, blocks |-> <<block>> \o Blocks(rest)]
  BY DEF DecideEncoding, AfterBom
<1> HIDE DEF encoding, block
<1>0. fresh \in Decoders
  BY <1>1, NewDecoderType
<1> HIDE DEF fresh
<1>4. /\ decided \in Parser /\ decided.limit = q.limit /\ decided.seen = q.seen
      /\ decided.terminal = q.terminal /\ decided.buf = <<>> /\ decided.b = EmptyBuilder
      /\ decided.held = <<>> /\ ~ decided.failed /\ decided.decoder = fresh
  <2>1. <<>> \in Seq(RawUnits)
    OBVIOUS
  <2> QED
    BY <1>0, <2>1 DEF Parser
<1> HIDE DEF decided
<1>5. PICK none \in Seq(RawUnits) : none = <<>> /\ Built(decided, encoding, none)
  <2>1. Built(decided, encoding, <<>>)
    BY <1>1, <1>4, NothingBuilt DEF fresh
  <2>2. <<>> \in Seq(RawUnits)
    OBVIOUS
  <2> QED
    BY <2>1, <2>2
<1>6. mid \in Parser /\ SameFeed(mid, decided) /\ Built(mid, encoding, none \o block)
  BY <1>1, <1>2, <1>4, <1>5, BlockBuilds
<1>7. none \o block = block
  BY <1>2, <1>5, ConcatEmptySeq
<1>8. r = ProcessAll([q |-> mid, blocks |-> Blocks(rest)])
  <2> DEFINE later == Blocks(rest)
             one == <<block>>
  <2>1. one \in Seq(Seq(RawUnits)) /\ later \in Seq(Seq(RawUnits))
    BY <1>2, BlocksType
  <2>2. r = Blocking!Folded(decided, one \o later)
    BY <1>3, BlocksFold
  <2>3. Blocking!Folded(decided, one) = mid
    BY FoldLeast, Blocking!FoldOne
  <2> HIDE DEF later, one
  <2>4. Blocking!Folded(decided, one \o later) = Blocking!Folded(Blocking!Folded(decided, one), later)
    BY <2>1, FoldLeast, Blocking!FoldConcat
  <2> QED
    BY <2>2, <2>3, <2>4, BlocksFold DEF later
<1> HIDE DEF mid
<1>9. r \in Parser /\ SameFeed(r, mid) /\ Built(r, encoding, block \o rest)
  BY <1>1, <1>2, <1>6, <1>7, <1>8, BlocksBuild
<1> QED
  BY <1>4, <1>6, <1>9 DEF SameFeed, encoding, block

\* What a parser that still runs made of the units it was fed.
Fed(q, units) ==
  /\ q \in Parser /\ q.seen = Len(units) /\ q.seen <= q.limit /\ ~ q.terminal /\ ~ q.failed
  /\ Encoded(q.decoder) => /\ Len(units) >= PrescanLimit /\ q.buf = <<>>
                           /\ Built(q, Detect(units), AfterBom(units))
  /\ ~ Encoded(q.decoder) => /\ Len(units) < PrescanLimit /\ q.buf = units
                             /\ q.decoder = NoDecoder /\ q.b = EmptyBuilder /\ q.held = <<>>

\* What the loop returns for an error of the parser is justified.
TooMuch(units, limit) ==
  Len(units) > limit \/ SizeOfAll(DecodeAll(units, Detect(units))) > limit

\* What holds of a parser at any time.
Bounded(q) ==
  /\ q \in Parser /\ q.decoder.size <= q.limit /\ Len(q.buf) < PrescanLimit
  /\ Encoded(q.decoder) => q.buf = <<>>

\* The decoded text of the units.
LEMMA AllText ==
  ASSUME NEW units, NEW encoding
  PROVE  DecodeAll(units, encoding) = Decode(NewDecoder(encoding), AfterBom(units)).output
  BY DEF DecodeAll, AfterBom

\* A chunk for a parser that decided the encoding.
LEMMA FeedEncoded ==
  ASSUME NEW q \in Parser, NEW units \in Seq(RawUnits), NEW chunk \in Seq(RawUnits),
         Encoded(q.decoder), q.buf = <<>>, Len(units) >= PrescanLimit,
         Built(q, Detect(units), AfterBom(units)), NEW r, r = FeedActive(q, chunk)
  PROVE  /\ r \in Parser /\ r.limit = q.limit /\ r.seen = q.seen /\ r.terminal = q.terminal
         /\ r.buf = <<>> /\ Built(r, Detect(units \o chunk), AfterBom(units \o chunk))
<1>1. r = ProcessAll([q |-> q, blocks |-> Blocks(chunk)])
  <2>1. SubSeq(chunk, 1, 0) = <<>> /\ SubSeq(chunk, 0 + 1, Len(chunk)) = chunk
    BY SubSeqEmpty, SubSeqFull
  <2>2. [q EXCEPT !.buf = @ \o <<>>] = q
    <3>1. <<>> \o <<>> = <<>>
      OBVIOUS
    <3> QED
      BY <3>1 DEF Parser
  <2>3. FeedActive(q, chunk) = ProcessAll(DecodingWork(q, chunk))
    BY <2>1, <2>2 DEF FeedActive
  <2> QED
    BY <2>3 DEF DecodingWork
<1>2. Detect(units) \in Encodings /\ AfterBom(units) \in Seq(RawUnits)
  BY DetectType, AfterBomType
<1>3. r \in Parser /\ SameFeed(r, q) /\ Built(r, Detect(units), AfterBom(units) \o chunk)
  BY <1>1, <1>2, BlocksBuild
<1>4. Detect(units \o chunk) = Detect(units) /\ AfterBom(units \o chunk) = AfterBom(units) \o chunk
  BY DetectPrefix, AfterBomConcat
<1> QED
  BY <1>3, <1>4 DEF SameFeed

\* A chunk for a parser that waits for enough to decide on the encoding: what it
\* takes is still too little, or it decides and decodes everything.
LEMMA FeedWaiting ==
  ASSUME NEW q \in Parser, NEW units \in Seq(RawUnits), NEW chunk \in Seq(RawUnits),
         ~ Encoded(q.decoder), q.buf = units, Len(units) < PrescanLimit,
         q.b = EmptyBuilder, q.held = <<>>, ~ q.failed, NEW r, r = FeedActive(q, chunk)
  PROVE  /\ r \in Parser /\ r.limit = q.limit /\ r.seen = q.seen /\ r.terminal = q.terminal
         /\ \/ r = [q EXCEPT !.buf = units \o chunk] /\ Len(units \o chunk) < PrescanLimit
            \/ /\ r.buf = <<>> /\ Len(units \o chunk) >= PrescanLimit
               /\ Built(r, Detect(units \o chunk), AfterBom(units \o chunk))
<1> DEFINE m == Len(units)
           n == Len(chunk)
           take == Min({PrescanLimit - m, n})
           taken == SubSeq(chunk, 1, take)
           rest == SubSeq(chunk, take + 1, n)
           buf == units \o taken
           g == [q EXCEPT !.buf = buf]
<1>1. PrescanLimit \in Nat /\ PrescanLimit >= 2 /\ m \in Nat /\ n \in Nat
  BY PrescanLimitAssumption
<1>2. take \in 0..n /\ (take = n \/ take = PrescanLimit - m) /\ take <= PrescanLimit - m
  BY <1>1, MinOfTwo
<1>3. r = ProcessAll(DecodingWork(g, rest))
  BY DEF FeedActive
<1> HIDE DEF take
<1>4. taken \in Seq(RawUnits) /\ rest \in Seq(RawUnits) /\ Len(taken) = take
  <2>1. \A j \in 1..n : chunk[j] \in RawUnits
    OBVIOUS
  <2>2. (\A j \in 1..take : chunk[j] \in RawUnits) /\ \A j \in take + 1 .. n : chunk[j] \in RawUnits
    BY <1>1, <1>2, <2>1
  <2>3. taken \in Seq(RawUnits) /\ Len(taken) = IF 1 <= take THEN take - 1 + 1 ELSE 0
    BY <1>1, <1>2, <2>2, SubSeqProperties
  <2>4. rest \in Seq(RawUnits)
    BY <1>1, <1>2, <2>2, SubSeqProperties
  <2> QED
    BY <1>2, <2>3, <2>4
<1>5. taken \o rest = chunk
  <2>1. 1 \in 1 .. n + 1 /\ take \in 1 - 1 .. n /\ n \in take .. n
    BY <1>1, <1>2
  <2>2. SubSeq(chunk, 1, take) \o SubSeq(chunk, take + 1, n) = SubSeq(chunk, 1, n)
    BY <2>1, ConcatAdjacentSubSeq
  <2>3. SubSeq(chunk, 1, n) = chunk
    BY SubSeqFull
  <2> QED
    BY <2>2, <2>3
<1>6. take = n => taken = chunk
  BY SubSeqFull
<1> HIDE DEF taken, rest
<1>7. buf \in Seq(RawUnits) /\ buf \o rest = units \o chunk /\ Len(buf) = m + take
      /\ Len(units \o chunk) = m + n
  <2>1. buf \in Seq(RawUnits) /\ buf \o rest = units \o (taken \o rest)
    <3>1. taken \in Seq(RawUnits) /\ rest \in Seq(RawUnits)
      BY <1>4
    <3>2. units \o taken \in Seq(RawUnits) /\ (units \o taken) \o rest = units \o (taken \o rest)
      BY <3>1, RawJoin
    <3> QED
      BY <3>2
  <2>2. Len(buf) = m + take
    <3>1. Len(units \o taken) = Len(units) + Len(taken)
      BY <1>4, ConcatProperties
    <3> QED
      BY <1>4, <3>1
  <2> QED
    BY <1>5, <2>1, <2>2
<1>8. take = n => buf = units \o chunk
  BY <1>6
<1> HIDE DEF buf
<1>9. /\ g \in Parser /\ g.limit = q.limit /\ g.seen = q.seen /\ g.terminal = q.terminal
      /\ g.decoder = q.decoder /\ g.b = q.b /\ g.held = q.held /\ g.failed = q.failed /\ g.buf = buf
  BY <1>7 DEF Parser
<1>10. CASE Len(buf) < PrescanLimit
  <2>1. DecodingWork(g, rest) = [q |-> g, blocks |-> <<>>]
    BY <1>9, <1>10 DEF DecodingWork
  <2>2. r = g
    BY <1>3, <2>1, NothingYet
  <2>3. take = n
    BY <1>1, <1>2, <1>7, <1>10
  <2>4. buf = units \o chunk
    BY <1>8, <2>3
  <2> QED
    BY <1>9, <1>10, <2>2, <2>4
<1>11. CASE ~ (Len(buf) < PrescanLimit)
  <2> HIDE DEF g
  <2>1. DecodingWork(g, rest) = DecideEncoding(g, rest)
    BY <1>9, <1>11 DEF DecodingWork
  <2>2. /\ r \in Parser /\ r.limit = g.limit /\ r.seen = g.seen /\ r.terminal = g.terminal
        /\ r.buf = <<>> /\ Built(r, Detect(buf), AfterBom(buf) \o rest)
    BY <1>3, <1>4, <1>9, <2>1, DecisionBuilds
  <2>3. Len(buf) >= PrescanLimit /\ Len(units \o chunk) >= PrescanLimit
    BY <1>1, <1>2, <1>7, <1>11
  <2>4. Detect(buf \o rest) = Detect(buf) /\ AfterBom(buf \o rest) = AfterBom(buf) \o rest
    BY <1>4, <1>7, <2>3, DetectPrefix, AfterBomConcat
  <2>5. Built(r, Detect(buf \o rest), AfterBom(buf \o rest))
    BY <2>2, <2>4
  <2> QED
    BY <1>7, <1>9, <2>2, <2>3, <2>5
<1> QED
  BY <1>10, <1>11

\* One call of feed with what follows the units: the parser goes on as if it had
\* been fed everything at once, or stops because it is too much.
LEMMA FeedFed ==
  ASSUME NEW q, NEW units \in Seq(RawUnits), Fed(q, units),
         NEW chunk \in Seq(RawUnits), chunk # <<>>, NEW r, r = Feed(q, chunk)
  PROVE  /\ Bounded(r) /\ r.limit = q.limit
         /\ r.terminal => TooMuch(units \o chunk, q.limit)
         /\ ~ r.terminal => Fed(r, units \o chunk)
<1> DEFINE all == units \o chunk
           g == [q EXCEPT !.seen = @ + Len(chunk)]
           f == FeedActive(g, chunk)
<1>1. /\ Len(all) = Len(units) + Len(chunk) /\ Len(units) \in Nat /\ Len(chunk) \in Nat
      /\ PrescanLimit \in Nat /\ PrescanLimit >= 2
  BY PrescanLimitAssumption
<1> HIDE DEF all
<1>2. /\ g \in Parser /\ g.limit = q.limit /\ g.seen = Len(all) /\ ~ g.terminal /\ ~ g.failed
      /\ g.decoder = q.decoder /\ g.buf = q.buf /\ g.b = q.b /\ g.held = q.held
  <2>1. q \in Parser /\ q.seen = Len(units) /\ ~ q.terminal /\ ~ q.failed
    BY DEF Fed
  <2>2. q.seen + Len(chunk) \in Nat /\ q.seen + Len(chunk) = Len(all)
    BY <1>1, <2>1
  <2> QED
    BY <2>1, <2>2 DEF Parser
<1>3. r = IF g.seen > g.limit THEN [g EXCEPT !.terminal = TRUE] ELSE EndFeed(f)
  BY DEF Feed, CheckedFeed, Fed
<1>4. Bounded(g)
  <2>1. CASE Encoded(q.decoder)
    <3>1. q.buf = <<>> /\ Built(q, Detect(units), AfterBom(units))
      BY <2>1 DEF Fed
    <3>2. q.decoder.size <= q.limit
      BY <3>1 DEF Built
    <3>3. Len(q.buf) < PrescanLimit
      BY <1>1, <3>1
    <3> QED
      BY <1>2, <3>1, <3>2, <3>3 DEF Bounded
  <2>2. CASE ~ Encoded(q.decoder)
    <3>1. q.buf = units /\ q.decoder = NoDecoder /\ Len(units) < PrescanLimit
      BY <2>2 DEF Fed
    <3>2. q.decoder.size = 0
      BY <3>1 DEF NoDecoder, NewDecoder
    <3>3. q.limit \in Nat
      BY DEF Fed, Parser
    <3> QED
      BY <1>2, <2>2, <3>1, <3>2, <3>3 DEF Bounded
  <2> QED
    BY <2>1, <2>2
<1>5. CASE g.seen > g.limit
  <2>1. r = [g EXCEPT !.terminal = TRUE]
    BY <1>3, <1>5
  <2>2. r \in Parser /\ r.terminal /\ r.limit = g.limit /\ r.decoder = g.decoder /\ r.buf = g.buf
    BY <1>2, <2>1 DEF Parser
  <2>3. TooMuch(all, q.limit)
    BY <1>2, <1>5 DEF TooMuch
  <2> QED
    BY <1>2, <1>4, <2>2, <2>3 DEF Bounded, all
<1>6. CASE ~ (g.seen > g.limit)
  <2>1. r = EndFeed(f)
    BY <1>3, <1>6
  <2>2. /\ f \in Parser /\ f.limit = g.limit /\ f.seen = g.seen /\ f.terminal = g.terminal
        /\ \/ f = [g EXCEPT !.buf = all] /\ Len(all) < PrescanLimit /\ ~ Encoded(g.decoder)
           \/ f.buf = <<>> /\ Len(all) >= PrescanLimit /\ Built(f, Detect(all), AfterBom(all))
    <3>1. CASE Encoded(q.decoder)
      <4>1. /\ q.buf = <<>> /\ Built(q, Detect(units), AfterBom(units)) /\ Len(units) >= PrescanLimit
        BY <3>1 DEF Fed
      <4>2. Built(g, Detect(units), AfterBom(units))
        BY <1>2, <4>1 DEF Built, Fed
      <4> HIDE DEF g
      <4>3. /\ f \in Parser /\ f.limit = g.limit /\ f.seen = g.seen /\ f.terminal = g.terminal
            /\ f.buf = <<>> /\ Built(f, Detect(all), AfterBom(all))
        BY <1>2, <3>1, <4>1, <4>2, FeedEncoded DEF all
      <4>4. Len(all) >= PrescanLimit
        BY <1>1, <4>1
      <4> QED
        BY <4>3, <4>4
    <3>2. CASE ~ Encoded(q.decoder)
      <4>1. q.buf = units /\ q.b = EmptyBuilder /\ q.held = <<>> /\ Len(units) < PrescanLimit
        BY <3>2 DEF Fed
      <4> HIDE DEF g
      <4> QED
        BY <1>2, <3>2, <4>1, FeedWaiting DEF all
    <3> QED
      BY <3>1, <3>2
  <2> HIDE DEF f, g
  <2>3. /\ r \in Parser /\ r.limit = f.limit /\ r.seen = f.seen /\ r.terminal = f.failed
        /\ r.failed = f.failed /\ r.decoder = f.decoder /\ r.buf = f.buf /\ r.b = f.b /\ r.held = f.held
    BY <2>1, <2>2 DEF EndFeed, Parser
  <2>4. r.seen = Len(all) /\ r.seen <= r.limit /\ r.limit = q.limit
    BY <1>2, <1>6, <2>2, <2>3 DEF Parser
  <2>5. CASE f = [g EXCEPT !.buf = all] /\ Len(all) < PrescanLimit /\ ~ Encoded(g.decoder)
    <3>1. f.buf = all /\ f.decoder = g.decoder /\ f.b = g.b /\ f.held = g.held /\ f.failed = g.failed
      BY <1>2, <2>5 DEF Parser
    <3>2. q.decoder = NoDecoder /\ q.b = EmptyBuilder /\ q.held = <<>>
      BY <1>2, <2>5 DEF Fed
    <3>3. Bounded(r)
      BY <1>2, <1>4, <2>3, <2>4, <2>5, <3>1 DEF Bounded
    <3>4. Fed(r, all)
      BY <1>2, <2>3, <2>4, <2>5, <3>1, <3>2 DEF Fed
    <3>5. ~ r.terminal
      BY <1>2, <2>3, <3>1
    <3> QED
      BY <2>4, <3>3, <3>4, <3>5 DEF all
  <2>6. CASE f.buf = <<>> /\ Len(all) >= PrescanLimit /\ Built(f, Detect(all), AfterBom(all))
    <3>1. Built(r, Detect(all), AfterBom(all))
      BY <2>3, <2>6 DEF Built
    <3>2. Encoded(r.decoder)
      BY <3>1, DetectType DEF Built, Encoded
    <3>3. r.decoder.size <= r.limit
      BY <3>1 DEF Built
    <3>4. Len(r.buf) < PrescanLimit /\ r.buf = <<>>
      BY <1>1, <2>3, <2>6
    <3>5. Bounded(r)
      BY <2>3, <3>3, <3>4 DEF Bounded
    <3>6. r.terminal => TooMuch(all, q.limit)
      <4>1. ASSUME r.terminal
            PROVE SizeOfAll(Decode(NewDecoder(Detect(all)), AfterBom(all)).output) > r.limit
        BY <2>3, <3>1, <4>1 DEF Built
      <4> QED
        BY <2>4, <4>1, AllText DEF TooMuch
    <3>7. ~ r.terminal => Fed(r, all)
      BY <2>3, <2>4, <2>6, <3>1, <3>2, <3>4 DEF Fed
    <3> QED
      BY <2>4, <3>5, <3>6, <3>7 DEF all
  <2> QED
    BY <2>2, <2>5, <2>6
<1> QED
  BY <1>5, <1>6

\* Finish: what is buffered or held back is processed, and the document is that
\* of all the units.
LEMMA FinishReturns ==
  ASSUME NEW q, NEW units \in Seq(RawUnits), Fed(q, units), NEW r, r = FinishText(q)
  PROVE  Bounded(r) /\ r.limit = q.limit /\ ResultOf(r) = OneShot(units, q.limit)
<1> DEFINE f == FlushInitial(q)
           encoding == Detect(units)
           text == Decode(NewDecoder(encoding), AfterBom(units)).output
           run == Tokenized(<<>>, text)
           last == TextRun(f.held)
<1>1. /\ f \in Parser /\ f.limit = q.limit /\ f.seen = q.seen /\ f.terminal = q.terminal
      /\ f.buf = <<>> /\ Built(f, encoding, AfterBom(units))
  <2>1. CASE Encoded(q.decoder)
    BY <2>1 DEF FlushInitial, Fed
  <2>2. CASE ~ Encoded(q.decoder)
    <3>1. q \in Parser /\ q.buf = units /\ q.b = EmptyBuilder /\ q.held = <<>> /\ ~ q.failed
      BY <2>2 DEF Fed
    <3>2. PICK none \in Seq(RawUnits) : none = <<>>
      <4>1. <<>> \in Seq(RawUnits)
        OBVIOUS
      <4> QED
        BY <4>1
    <3>3. f = ProcessAll(DecideEncoding(q, none))
      BY <2>2, <3>2 DEF FlushInitial
    <3> HIDE DEF f
    <3>4. /\ f \in Parser /\ f.limit = q.limit /\ f.seen = q.seen /\ f.terminal = q.terminal
          /\ f.buf = <<>> /\ Built(f, Detect(q.buf), AfterBom(q.buf) \o none)
      BY <3>1, <3>3, DecisionBuilds
    <3>5. AfterBom(q.buf) \o none = AfterBom(units)
      BY <3>1, <3>2, AfterBomType, ConcatEmptySeq
    <3> QED
      BY <3>1, <3>4, <3>5
  <2> QED
    BY <2>1, <2>2
<1>2. ~ q.terminal /\ q.seen = Len(units) /\ q.seen <= q.limit
  BY DEF Fed
<1>3. r = [f EXCEPT !.b = FoldLeft(Process, f.b, last), !.held = <<>>]
  BY DEF FinishText, FinishTokenizer, ProcessTokens
<1>4. f.held \in Seq(TextUnits) /\ f.b \in Builders
  BY <1>1 DEF Parser
<1> HIDE DEF f
<1>5. last \in Seq(TreeTokens)
  BY <1>4, TextRunType
<1> DEFINE c == FoldLeft(Process, f.b, last)
<1>6. c \in Builders
  BY <1>4, <1>5, BuildersGrow
<1> HIDE DEF last, c
<1>7. /\ r \in Parser /\ r.limit = f.limit /\ r.buf = f.buf /\ r.decoder = f.decoder
      /\ r.failed = f.failed /\ r.terminal = f.terminal /\ r.b = c
  <2>1. r = [f EXCEPT !.b = c, !.held = <<>>]
    BY <1>3 DEF c
  <2>2. <<>> \in Seq(TextUnits)
    OBVIOUS
  <2> QED
    BY <1>1, <1>6, <2>1, <2>2 DEF Parser
<1>8. Bounded(r)
  <2>1. f.decoder.size <= f.limit
    BY <1>1 DEF Built
  <2>2. Len(r.buf) < PrescanLimit
    BY <1>1, <1>7, PrescanLimitAssumption
  <2> QED
    BY <1>1, <1>7, <2>1, <2>2 DEF Bounded
<1>9. DecodeAll(units, encoding) = text
  BY AllText
<1>10. CASE f.failed
  <2>1. SizeOfAll(text) > f.limit
    BY <1>1, <1>10 DEF Built
  <2>2. OneShot(units, q.limit) = TooLargeError
    BY <1>1, <1>9, <2>1 DEF OneShot
  <2>3. ResultOf(r) = TooLargeError
    BY <1>7, <1>10 DEF ResultOf
  <2> QED
    BY <1>1, <1>7, <1>8, <2>2, <2>3
<1>11. CASE ~ f.failed
  <2>1. /\ f.held = run.held /\ f.b = FoldLeft(Process, EmptyBuilder, run.tokens)
        /\ f.decoder = [Decode(NewDecoder(encoding), AfterBom(units)).decoder EXCEPT !.size = SizeOfAll(text)]
        /\ f.decoder.size <= f.limit
    BY <1>1, <1>11 DEF Built
  <2>2. encoding \in Encodings /\ AfterBom(units) \in Seq(RawUnits)
    BY DetectType, AfterBomType
  <2>3. /\ Decode(NewDecoder(encoding), AfterBom(units)).decoder \in Decoders
        /\ text \in Seq(TextUnits)
    BY <2>2, NewDecoderType, DecodeType DEF DecodedText
  <2>4. f.decoder.size = SizeOfAll(text)
    BY <2>1, <2>3 DEF Decoders
  <2>5. SizeOfAll(text) \in Nat
    BY <2>3, SizeType
  <2>6. run.tokens \in Seq(TreeTokens)
    <3>1. <<>> \in Seq(TextUnits)
      OBVIOUS
    <3>2. run \in Cutting
      BY <2>3, <3>1, TokenizedType
    <3> QED
      BY <3>2 DEF Cutting
  <2> HIDE DEF text
  <2>7. c = FoldLeft(Process, EmptyBuilder, run.tokens \o TextRun(run.held))
    <3> DEFINE tokens == run.tokens
    <3>1. last = TextRun(run.held)
      BY <2>1 DEF last
    <3>2. tokens \in Seq(TreeTokens) /\ c = FoldLeft(Process, FoldLeft(Process, EmptyBuilder, tokens), last)
      BY <2>1, <2>6 DEF c
    <3> HIDE DEF tokens
    <3>3. c = FoldLeft(Process, EmptyBuilder, tokens \o last)
      BY <1>5, <3>2, ProcessConcat
    <3> QED
      BY <3>1, <3>3 DEF tokens
  <2>8. ~ (SizeOfAll(text) > q.limit) /\ ~ (Len(units) > q.limit)
    <3>1. q.limit \in Nat /\ Len(units) \in Nat
      BY DEF Fed, Parser
    <3> QED
      BY <1>1, <1>2, <2>1, <2>4, <2>5, <3>1
  <2>9. OneShot(units, q.limit) = [kind |-> "document", nodes |-> FinishBuilder(c).nodes]
    BY <1>9, <2>7, <2>8 DEF OneShot
  <2>10. ResultOf(r) = [kind |-> "document", nodes |-> FinishBuilder(c).nodes]
    BY <1>1, <1>2, <1>7, <1>11 DEF ResultOf
  <2> QED
    BY <1>1, <1>7, <1>8, <2>9, <2>10
<1> QED
  BY <1>10, <1>11

-----------------------------------------------------------------------------
(***************************************************************************)
(* The read loop.                                                          *)
(***************************************************************************)

\* The bytes read so far, which the parser has been fed.
Read(read) ==
  /\ read \in Seq(RawUnits) /\ source.units = read \o unread
  /\ Len(read) <= source.limit + BufSize
  /\ result = Running => Fed(p, read)

IInv ==
  /\ source \in Sources /\ unread \in Seq(RawUnits)
  /\ Bounded(p) /\ p.limit = source.limit
  /\ \E read : Read(read)

\* The size of the buffer.
LEMMA BufSizeType ==
  ASSUME source \in Sources
  PROVE  BufSize \in Nat /\ BufSize >= 1
<1> DEFINE size == source.bufSize
           most == IF size >= 1 THEN size ELSE 1
<1>1. size \in Nat
  BY SourcesAssumption
<1> HIDE DEF size
<1>2. most \in {1, size} /\ \A x \in {1, size} : most >= x
  BY <1>1
<1>3. \A x \in {1, size} : (\A y \in {1, size} : x >= y) => x = most
  BY <1>1
<1>4. most \in Nat /\ most >= 1
  BY <1>1
<1> HIDE DEF most
<1>5. Max({1, size}) = most
  BY <1>2, <1>3 DEF Max
<1> QED
  BY <1>4, <1>5 DEF BufSize, size

\* A parser that was fed nothing.
LEMMA NewParserFed ==
  ASSUME NEW limit \in Nat, NEW q, q = NewStreamParser(limit)
  PROVE  Bounded(q) /\ q.limit = limit /\ Fed(q, <<>>)
<1> DEFINE new == NoDecoder
<1>1. new \in Decoders /\ ~ Encoded(new) /\ new.size = 0
  <2>1. "none" \in Encodings
    BY DEF Encodings
  <2>2. new \in Decoders
    BY <2>1, NewDecoderType DEF NoDecoder
  <2> QED
    BY <2>2 DEF NoDecoder, NewDecoder, Encoded
<1> HIDE DEF new
<1>2. <<>> \in Seq(TextUnits) /\ <<>> \in Seq(RawUnits) /\ Len(<<>>) = 0
  OBVIOUS
<1>3. /\ q \in Parser /\ q.limit = limit /\ q.b = EmptyBuilder /\ q.held = <<>> /\ q.decoder = new
      /\ q.buf = <<>> /\ q.seen = 0 /\ ~ q.terminal /\ ~ q.failed
  <2>1. q = [limit |-> limit, b |-> EmptyBuilder, held |-> <<>>, decoder |-> new, buf |-> <<>>,
             seen |-> 0, terminal |-> FALSE, failed |-> FALSE]
    BY DEF NewStreamParser, new
  <2> QED
    BY <1>1, <1>2, <2>1, EmptyBuilds DEF Parser
<1>4. Len(q.buf) < PrescanLimit
  BY <1>2, <1>3, PrescanLimitAssumption
<1>5. Bounded(q)
  BY <1>1, <1>3, <1>4 DEF Bounded
<1>6. Fed(q, <<>>)
  BY <1>1, <1>2, <1>3, <1>4 DEF Fed, new
<1> QED
  BY <1>3, <1>5, <1>6

\* What was read, found again in the source.
LEMMA ReadPart ==
  ASSUME NEW whole, NEW all \in Seq(RawUnits), NEW later \in Seq(RawUnits), whole = all \o later
  PROVE  SubSeq(whole, 1, Len(whole) - Len(later)) = all
<1> DEFINE m == Len(all)
<1>1. m \in Nat /\ Len(later) \in Nat /\ Len(whole) = m + Len(later)
  <2>1. Len(all \o later) = Len(all) + Len(later)
    BY ConcatProperties
  <2> QED
    BY <2>1
<1>2. SubSeq(all, 1, m) = all
  BY SubSeqFull
<1>3. SubSeq(whole, 1, m) = all
  <2>1. CASE m = 0
    <3>1. all = <<>>
      BY <2>1
    <3>2. SubSeq(whole, 1, m) = <<>>
      BY <2>1, SubSeqEmpty
    <3> QED
      BY <3>1, <3>2
  <2>2. CASE m # 0
    <3>1. 1 \in 1..m /\ m \in 1..m
      BY <1>1, <2>2
    <3>2. SubSeq(all \o later, 1, m) = SubSeq(all, 1, m)
      BY <3>1, SubSeqOfConcat1
    <3> QED
      BY <1>2, <3>2
  <2> QED
    BY <2>1, <2>2
<1>4. Len(whole) - Len(later) = m
  BY <1>1
<1> QED
  BY <1>3, <1>4

\* The first state.
LEMMA InitRead ==
  ASSUME Init
  PROVE  IInv
<1>1. source \in Sources /\ source.limit \in Nat /\ source.units \in Seq(RawUnits) /\ unread = source.units
  BY SourcesAssumption DEF Init
<1>2. Bounded(p) /\ p.limit = source.limit /\ Fed(p, <<>>)
  BY <1>1, NewParserFed DEF Init
<1>3. Read(<<>>)
  <2>1. <<>> \in Seq(RawUnits) /\ Len(<<>>) = 0
    OBVIOUS
  <2>2. source.units = <<>> \o unread
    BY <1>1, ConcatEmptySeq
  <2>3. 0 <= source.limit + BufSize
    BY <1>1, BufSizeType
  <2> QED
    BY <1>2, <2>1, <2>2, <2>3 DEF Read
<1> QED
  BY <1>1, <1>2, <1>3 DEF IInv

\* A read: the parser is fed what follows the bytes read so far, and an error it
\* returns is that of the bytes read.
LEMMA ReadSomeKeeps ==
  ASSUME IInv, ReadSome
  PROVE  IInv' /\ P!Next
<1>1. PICK read : Read(read)
  BY DEF IInv
<1>2. PICK n \in 1..Min({BufSize, Len(unread)}) :
        unread' = SubSeq(unread, n + 1, Len(unread)) /\ p' = Feed(p, SubSeq(unread, 1, n))
  BY DEF ReadSome
<1> DEFINE chunk == SubSeq(unread, 1, n)
           later == SubSeq(unread, n + 1, Len(unread))
<1>3. /\ result = Running /\ Fed(p, read) /\ source \in Sources /\ unread \in Seq(RawUnits)
      /\ read \in Seq(RawUnits) /\ p.limit = source.limit /\ source' = source
      /\ source.units = read \o unread
  BY <1>1 DEF IInv, Read, ReadSome
<1>4. n \in 1..Len(unread) /\ n <= BufSize /\ BufSize \in Nat /\ Len(unread) \in Nat
  <2>1. BufSize \in Nat /\ Len(unread) \in Nat
    BY <1>3, BufSizeType
  <2>2. Min({BufSize, Len(unread)}) \in Nat /\ Min({BufSize, Len(unread)}) <= BufSize
        /\ Min({BufSize, Len(unread)}) <= Len(unread)
    BY <2>1, MinOfTwo
  <2> QED
    BY <1>2, <2>1, <2>2
<1>5. chunk \in Seq(RawUnits) /\ later \in Seq(RawUnits) /\ Len(chunk) = n
  <2>1. \A j \in 1..Len(unread) : unread[j] \in RawUnits
    BY <1>3
  <2>2. (\A j \in 1..n : unread[j] \in RawUnits) /\ \A j \in n + 1 .. Len(unread) : unread[j] \in RawUnits
    BY <1>4, <2>1
  <2>3. chunk \in Seq(RawUnits) /\ Len(chunk) = IF 1 <= n THEN n - 1 + 1 ELSE 0
    BY <1>4, <2>2, SubSeqProperties
  <2>4. later \in Seq(RawUnits)
    BY <1>4, <2>2, SubSeqProperties
  <2> QED
    BY <1>4, <2>3, <2>4
<1>6. chunk \o later = unread
  <2>1. 1 \in 1 .. Len(unread) + 1 /\ n \in 1 - 1 .. Len(unread) /\ Len(unread) \in n .. Len(unread)
    BY <1>4
  <2>2. SubSeq(unread, 1, n) \o SubSeq(unread, n + 1, Len(unread)) = SubSeq(unread, 1, Len(unread))
    BY <1>3, <2>1, ConcatAdjacentSubSeq
  <2>3. SubSeq(unread, 1, Len(unread)) = unread
    BY <1>3, SubSeqFull
  <2> QED
    BY <2>2, <2>3
<1>7. unread' = later /\ p' = Feed(p, chunk) /\ result' = AfterRead(p')
  BY <1>2 DEF ReadSome
<1> HIDE DEF chunk, later
<1>8. PICK all \in Seq(RawUnits) :
        all = read \o chunk /\ Len(all) = Len(read) + n /\ source.units = all \o later
  <2>1. read \o chunk \in Seq(RawUnits) /\ (read \o chunk) \o later = read \o (chunk \o later)
    BY <1>3, <1>5, RawJoin
  <2>2. Len(read \o chunk) = Len(read) + Len(chunk)
    BY <1>3, <1>5, ConcatProperties
  <2> QED
    BY <1>3, <1>5, <1>6, <2>1, <2>2
<1>9. chunk # <<>>
  <2>1. Len(<<>>) = 0 /\ n # 0
    BY <1>4
  <2> QED
    BY <1>5, <2>1
<1> DEFINE r == p'
<1>10. r = Feed(p, chunk)
  BY <1>7
<1> HIDE DEF r
<1>11. /\ Bounded(r) /\ r.limit = p.limit
       /\ r.terminal => TooMuch(all, p.limit)
       /\ ~ r.terminal => Fed(r, all)
  BY <1>3, <1>5, <1>8, <1>9, <1>10, FeedFed
<1>12. result' = IF r.terminal THEN TooLargeError ELSE Running
  BY <1>7 DEF AfterRead, r
<1>13. result' = Running => ~ r.terminal
  BY <1>12 DEF Running, TooLargeError
<1>14. Len(all) <= source.limit + BufSize
  <2>1. p.limit \in Nat /\ Len(read) \in Nat /\ Len(read) <= p.limit
    BY <1>3 DEF Fed, Parser
  <2> QED
    BY <1>3, <1>4, <1>8, <2>1
<1>15. IInv'
  <2>1. BufSize' = BufSize
    BY <1>3 DEF BufSize
  <2>2. Read(all)'
    BY <1>3, <1>7, <1>8, <1>11, <1>13, <1>14, <2>1 DEF Read, r
  <2>3. (source \in Sources /\ unread \in Seq(RawUnits) /\ Bounded(p) /\ p.limit = source.limit)'
    BY <1>3, <1>5, <1>7, <1>11 DEF r
  <2> QED
    BY <2>2, <2>3 DEF IInv
<1>16. CASE r.terminal
  <2>1. OneShot(all, source.limit) = TooLargeError
    BY <1>3, <1>11, <1>16 DEF TooMuch, OneShot
  <2>2. SubSeq(source.units, 1, Len(source.units) - Len(later)) = all
    BY <1>5, <1>8, ReadPart
  <2>3. P!Refuse
    <3>1. unread' = SubSeq(unread, n + 1, Len(unread))
      BY <1>2
    <3>2. P!Outcome(SubSeq(source.units, 1, Len(source.units) - Len(unread'))) = P!TooLargeError
      BY <1>7, <2>1, <2>2 DEF P!Outcome, P!TooLargeError, TooLargeError
    <3>3. result = P!Running /\ result' = P!TooLargeError
      BY <1>3, <1>12, <1>16 DEF P!Running, P!TooLargeError, Running, TooLargeError
    <3> QED
      BY <1>3, <1>4, <3>1, <3>2, <3>3 DEF P!Refuse
  <2> QED
    BY <1>15, <2>3 DEF P!Next
<1>17. CASE ~ r.terminal
  <2>1. P!TakeBytes
    <3>1. result = P!Running /\ result' = result
      BY <1>3, <1>12, <1>17 DEF P!Running, Running
    <3> QED
      BY <1>2, <1>3, <1>4, <3>1 DEF P!TakeBytes
  <2> QED
    BY <1>15, <2>1 DEF P!Next
<1> QED
  BY <1>16, <1>17

\* The end of the source: what is returned is what parsing it at once returns.
LEMMA ReadEndKeeps ==
  ASSUME IInv, ReadEnd
  PROVE  IInv' /\ P!Next
<1>1. PICK read : Read(read)
  BY DEF IInv
<1>2. /\ result = Running /\ unread = <<>> /\ p' = FinishText(p) /\ result' = ResultOf(p')
      /\ source' = source /\ unread' = unread
  BY DEF ReadEnd
<1>3. /\ read \in Seq(RawUnits) /\ Fed(p, read) /\ source \in Sources /\ p.limit = source.limit
      /\ unread \in Seq(RawUnits)
  BY <1>1, <1>2 DEF IInv, Read
<1>4. source.units = read
  BY <1>1, <1>2, <1>3, ConcatEmptySeq DEF Read
<1> DEFINE r == p'
<1>5. r = FinishText(p)
  BY <1>2
<1> HIDE DEF r
<1>6. Bounded(r) /\ r.limit = p.limit /\ ResultOf(r) = OneShot(read, p.limit)
  BY <1>3, <1>5, FinishReturns
<1>7. result' = OneShot(source.units, source.limit)
  BY <1>2, <1>3, <1>4, <1>6 DEF r
<1>8. result' # Running
  BY <1>7 DEF OneShot, Running, TooLargeError
<1>9. IInv'
  <2>1. Read(read)'
    <3>1. BufSize' = BufSize
      BY <1>2 DEF BufSize
    <3> QED
      BY <1>1, <1>2, <1>8, <3>1 DEF Read
  <2>2. (source \in Sources /\ unread \in Seq(RawUnits) /\ Bounded(p) /\ p.limit = source.limit)'
    BY <1>2, <1>3, <1>6 DEF r
  <2> QED
    BY <2>1, <2>2 DEF IInv
<1>10. P!Return
  <2>1. result = P!Running
    BY <1>2 DEF P!Running, Running
  <2>2. result' = P!Outcome(source.units)
    BY <1>7 DEF P!Outcome
  <2> QED
    BY <1>2, <2>1, <2>2 DEF P!Return
<1> QED
  BY <1>9, <1>10 DEF P!Next

\* A read that fails.
LEMMA ReadFailsKeeps ==
  ASSUME IInv, ReadFails
  PROVE  IInv' /\ P!Next
<1>1. /\ result = Running /\ result' = ReadError /\ source' = source /\ unread' = unread /\ p' = p
  BY DEF ReadFails
<1>2. result' # Running
  BY <1>1 DEF ReadError, Running
<1>3. PICK read : Read(read)
  BY DEF IInv
<1>4. Read(read)'
  <2>1. BufSize' = BufSize
    BY <1>1 DEF BufSize
  <2> QED
    BY <1>1, <1>2, <1>3, <2>1 DEF Read
<1>5. IInv'
  BY <1>1, <1>4 DEF IInv
<1>6. P!SourceFails
  BY <1>1 DEF P!SourceFails, P!Running, P!ReadError, Running, ReadError
<1> QED
  BY <1>5, <1>6 DEF P!Next

\* Every step keeps the invariant, and is one of the abstract parser or changes
\* nothing that it knows.
LEMMA StepKeeps ==
  ASSUME IInv, [Next]_vars
  PROVE  IInv' /\ (P!Next \/ UNCHANGED <<source, unread, result>>)
<1>1. CASE ReadSome
  BY <1>1, ReadSomeKeeps
<1>2. CASE ReadEnd
  BY <1>2, ReadEndKeeps
<1>3. CASE ReadFails
  BY <1>3, ReadFailsKeeps
<1>4. CASE UNCHANGED vars
  <2>1. source' = source /\ unread' = unread /\ result' = result /\ p' = p
    BY <1>4 DEF vars
  <2>2. PICK read : Read(read)
    BY DEF IInv
  <2>3. Read(read)'
    <3>1. BufSize' = BufSize
      BY <2>1 DEF BufSize
    <3> QED
      BY <2>1, <2>2, <3>1 DEF Read
  <2>4. IInv'
    BY <2>1, <2>3 DEF IInv
  <2> QED
    BY <2>1, <2>4
<1> QED
  BY <1>1, <1>2, <1>3, <1>4 DEF Next

\* The parser is always as if it had been fed everything read so far at once.
THEOREM FedAtOnce == Spec => []IInv
<1>1. Init => IInv
  BY InitRead
<1>2. IInv /\ [Next]_vars => IInv'
  BY StepKeeps
<1> QED
  BY <1>1, <1>2, PTL DEF Spec

\* What is buffered stays below the prescan limit and is let go once the encoding
\* is known, the decoded text stays within the input limit, and no more than one
\* buffer is read beyond it: the bounds of DecoderState and of the read loops.
THEOREM Bounds == Spec => []ReadsBounded
<1>1. IInv => ReadsBounded
  <2>1. SUFFICES ASSUME IInv PROVE ReadsBounded
    OBVIOUS
  <2>2. PICK read : Read(read)
    BY <2>1 DEF IInv
  <2>3. Bounded(p) /\ p.limit = source.limit /\ source \in Sources
    BY <2>1 DEF IInv
  <2>4. TypeOK
    <3>1. p \in Parser
      BY <2>3 DEF Bounded
    <3>2. p.decoder.size \in Nat /\ p.limit \in Nat /\ p.terminal \in BOOLEAN
      BY <3>1 DEF Parser, Decoders
    <3> QED
      BY <2>3, <3>2 DEF TypeOK, Bounded
  <2>5. StopsReading
    <3>1. read \in Seq(RawUnits) /\ unread \in Seq(RawUnits) /\ source.units = read \o unread
      BY <2>1, <2>2 DEF IInv, Read
    <3>2. Len(read \o unread) = Len(read) + Len(unread) /\ Len(read) \in Nat /\ Len(unread) \in Nat
      BY <3>1, ConcatProperties
    <3>3. Len(read) <= source.limit + BufSize
      BY <2>2 DEF Read
    <3> QED
      BY <3>1, <3>2, <3>3 DEF StopsReading
  <2> QED
    BY <2>4, <2>5 DEF ReadsBounded
<1> QED
  BY <1>1, FedAtOnce, PTL

\* However a source delivers its bytes, and wherever that cuts them, the read loop
\* returns the document or the error that parsing all of them at once gives: the
\* parser implements module Parse.
THEOREM ParsesAlike == Spec => ImplementsParse
<1>1. Init => P!Init
  BY DEF Init, P!Init, Running, P!Running
<1>2. IInv /\ [Next]_vars => [P!Next]_<<source, unread, result>>
  BY StepKeeps
<1> QED
  BY <1>1, <1>2, FedAtOnce, PTL DEF Spec, ImplementsParse, P!Spec
=============================================================================
