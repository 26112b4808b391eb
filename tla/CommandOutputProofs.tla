--------------------------- MODULE CommandOutputProofs ---------------------------
(***************************************************************************)
(* For every command of any length: a rewrite keeps its words, and keeps   *)
(* them in order, and rewriting what has been rewritten adds nothing more.  *)
(* The words are any at all; Added are those that handlers write.          *)
(*                                                                         *)
(* For every output of any length: what a filter returns holds lines of    *)
(* the output and the lines that the filter writes itself, and no filter    *)
(* writes that all is well of an output that tells of a failure.            *)
(***************************************************************************)
EXTENDS CommandOutput, SequenceTheorems, FiniteSetTheorems, WellFoundedInduction, TLAPS

-----------------------------------------------------------------------------
(* Sequences in sequences.                                                 *)

\* f finds the words of old in new, in the same order.
Places(f, old, new) ==
  /\ f \in [DOMAIN old -> DOMAIN new]
  /\ \A i, j \in DOMAIN old : i < j => f[i] < f[j]
  /\ \A i \in DOMAIN old : new[f[i]] = old[i]
\* new holds the words of old, in order.
Within(old, new) == \E f : Places(f, old, new)

\* A command holds its own words.
LEMMA WithinSelf == ASSUME NEW Word, NEW argv \in Seq(Word) PROVE Within(argv, argv)
<1> DEFINE f == [i \in DOMAIN argv |-> i]
<1>1. Places(f, argv, argv)
  BY DEF Places
<1>2. QED
  BY <1>1 DEF Within

\* Holding the words of a command is transitive.
LEMMA WithinTrans ==
  ASSUME NEW Word, NEW a \in Seq(Word), NEW b \in Seq(Word), NEW c \in Seq(Word),
         Within(a, b), Within(b, c)
  PROVE  Within(a, c)
<1>1. PICK f : Places(f, a, b)
  BY DEF Within
<1>2. PICK g : Places(g, b, c)
  BY DEF Within
<1> DEFINE h == [i \in DOMAIN a |-> g[f[i]]]
<1>3. Places(h, a, c)
  BY <1>1, <1>2 DEF Places
<1>4. QED
  BY <1>3 DEF Within

\* What Put and \o return, element by element.
LEMMA PutIs ==
  ASSUME NEW Word, NEW argv \in Seq(Word), NEW words \in Seq(Word), NEW i \in 1..(Len(argv) + 1)
  PROVE  LET new == Put(argv, i, words)
         IN  /\ new \in Seq(Word)
             /\ Len(new) = Len(argv) + Len(words)
             /\ \A k \in 1..Len(new) :
                  new[k] = IF k < i THEN argv[k]
                           ELSE IF k < i + Len(words) THEN words[k - i + 1]
                           ELSE argv[k - Len(words)]
<1> DEFINE a == SubSeq(argv, 1, i - 1)
           b == SubSeq(argv, i, Len(argv))
           ab == a \o words
<1>1. a \in Seq(Word) /\ Len(a) = i - 1 /\ \A k \in 1..(i - 1) : a[k] = argv[k]
  OBVIOUS
<1>2. /\ b \in Seq(Word) /\ Len(b) = Len(argv) - i + 1
      /\ \A k \in 1..Len(b) : b[k] = argv[k + i - 1]
  OBVIOUS
<1>3. /\ ab \in Seq(Word) /\ Len(ab) = i - 1 + Len(words)
      /\ \A k \in 1..Len(ab) : ab[k] = IF k < i THEN argv[k] ELSE words[k - i + 1]
  BY <1>1
<1> HIDE DEF a, b, ab
<1>4. /\ ab \o b \in Seq(Word)
      /\ Len(ab \o b) = Len(argv) + Len(words)
      /\ \A k \in 1..Len(ab \o b) : (ab \o b)[k] = IF k <= Len(ab) THEN ab[k] ELSE b[k - Len(ab)]
  <2>1. ab \in Seq(Word) /\ b \in Seq(Word)
    BY <1>2, <1>3
  <2>2. /\ ab \o b \in Seq(Word)
        /\ Len(ab \o b) = Len(ab) + Len(b)
        /\ \A k \in 1..(Len(ab) + Len(b)) : (ab \o b)[k] = IF k <= Len(ab) THEN ab[k] ELSE b[k - Len(ab)]
    BY ONLY <2>1, ConcatProperties, Zenon
  <2>3. Len(ab) + Len(b) = Len(argv) + Len(words)
    BY <1>2, <1>3
  <2>4. QED
    BY <2>2, <2>3
<1>5. Put(argv, i, words) = ab \o b
  BY DEF Put, a, b, ab
<1> DEFINE new == Put(argv, i, words)
<1>6. ASSUME NEW k \in 1..Len(new)
      PROVE  new[k] = IF k < i THEN argv[k]
                      ELSE IF k < i + Len(words) THEN words[k - i + 1]
                      ELSE argv[k - Len(words)]
  <2>1. k \in 1..Len(ab \o b) /\ new[k] = IF k <= Len(ab) THEN ab[k] ELSE b[k - Len(ab)]
    BY <1>4, <1>5
  <2>2. CASE k <= Len(ab)
    BY <1>3, <2>1, <2>2
  <2>3. CASE k > Len(ab)
    <3> DEFINE j == k - Len(ab)
    <3>1. Len(words) \in Nat /\ Len(argv) \in Nat
      BY LenProperties, Zenon
    <3>2. Len(new) = Len(argv) + Len(words) /\ new[k] = b[j]
      BY <1>4, <1>5, <2>1, <2>3
    <3>3. j \in 1..Len(b) /\ j + i - 1 = k - Len(words) /\ ~(k < i + Len(words)) /\ ~(k < i)
      BY <1>2, <1>3, <2>3, <3>1, <3>2
    <3>4. b[j] = argv[j + i - 1]
      BY <1>2, <3>3
    <3>5. QED
      BY <3>2, <3>3, <3>4
  <2>4. QED
    BY <1>3, <2>1, <2>2, <2>3
<1>7. QED
  BY <1>4, <1>5, <1>6

\* Appending is putting behind the last word.
LEMMA AppendIsPut ==
  ASSUME NEW Word, NEW argv \in Seq(Word), NEW words \in Seq(Word)
  PROVE  argv \o words = Put(argv, Len(argv) + 1, words)
<1>1. SubSeq(argv, 1, Len(argv)) = argv /\ SubSeq(argv, Len(argv) + 1, Len(argv)) = << >>
  OBVIOUS
<1>2. argv \o words \in Seq(Word)
  BY ConcatProperties, Zenon
<1>3. (argv \o words) \o << >> = argv \o words
  BY <1>2
<1>4. QED
  BY <1>1, <1>3 DEF Put

\* The same, from the places of the parts.
IsPut(new, Word, argv, i, words) ==
  /\ new \in Seq(Word) /\ Len(new) = Len(argv) + Len(words)
  /\ \A k \in 1..(i - 1) : new[k] = argv[k]
  /\ \A k \in i..Len(argv) : new[k + Len(words)] = argv[k]
  /\ \A k \in 1..Len(words) : new[k + i - 1] = words[k]
  /\ \A k \in 1..Len(new) : \/ \E j \in 1..Len(argv) : new[k] = argv[j]
                            \/ \E j \in 1..Len(words) : new[k] = words[j]

\* Words put anywhere leave the others in order: from the parts before and behind the
\* place.
LEMMA PutParts ==
  ASSUME NEW Word, NEW argv \in Seq(Word), NEW words \in Seq(Word), NEW i \in 1..(Len(argv) + 1)
  PROVE  IsPut(Put(argv, i, words), Word, argv, i, words)
<1> DEFINE new == Put(argv, i, words)
<1>1. /\ new \in Seq(Word) /\ Len(new) = Len(argv) + Len(words)
      /\ \A k \in 1..Len(new) : new[k] = IF k < i THEN argv[k]
                                         ELSE IF k < i + Len(words) THEN words[k - i + 1]
                                         ELSE argv[k - Len(words)]
  BY PutIs
<1> HIDE DEF new
<1>2. ASSUME NEW k \in 1..(i - 1) PROVE new[k] = argv[k]
  <2>1. k \in 1..Len(new) /\ k < i
    BY <1>1
  <2>2. QED
    BY <1>1, <2>1
<1>3. ASSUME NEW k \in i..Len(argv) PROVE new[k + Len(words)] = argv[k]
  <2>1. k + Len(words) \in 1..Len(new) /\ ~(k + Len(words) < i + Len(words)) /\ ~(k + Len(words) < i)
    BY <1>1
  <2>2. new[k + Len(words)] = argv[(k + Len(words)) - Len(words)]
    BY <1>1, <2>1
  <2>3. QED
    BY <2>2
<1>4. ASSUME NEW k \in 1..Len(words) PROVE new[k + i - 1] = words[k]
  <2>1. k + i - 1 \in 1..Len(new) /\ ~(k + i - 1 < i) /\ k + i - 1 < i + Len(words)
    BY <1>1
  <2>2. new[k + i - 1] = words[(k + i - 1) - i + 1]
    BY <1>1, <2>1
  <2>3. QED
    BY <2>2
<1>5. ASSUME NEW k \in 1..Len(new)
      PROVE  \/ \E j \in 1..Len(argv) : new[k] = argv[j]
             \/ \E j \in 1..Len(words) : new[k] = words[j]
  <2>1. CASE k < i
    <3>1. k \in 1..Len(argv) /\ new[k] = argv[k]
      BY <1>1, <2>1
    <3>2. QED
      BY <3>1
  <2>2. CASE k >= i /\ k < i + Len(words)
    <3>1. k - i + 1 \in 1..Len(words) /\ new[k] = words[k - i + 1]
      BY <1>1, <2>2
    <3>2. QED
      BY <3>1
  <2>3. CASE k >= i + Len(words)
    <3>1. k - Len(words) \in 1..Len(argv) /\ new[k] = argv[k - Len(words)]
      BY <1>1, <2>3
    <3>2. QED
      BY <3>1
  <2>4. QED
    BY <2>1, <2>2, <2>3
<1>6. QED
  BY <1>1, <1>2, <1>3, <1>4, <1>5 DEF new, IsPut

\* Words put anywhere leave the others in order.
LEMMA PutWithin ==
  ASSUME NEW Word, NEW argv \in Seq(Word), NEW words \in Seq(Word), NEW i \in 1..(Len(argv) + 1)
  PROVE  Within(argv, Put(argv, i, words))
<1> DEFINE new == Put(argv, i, words)
           f == [k \in 1..Len(argv) |-> IF k < i THEN k ELSE k + Len(words)]
<1>1. IsPut(new, Word, argv, i, words)
  BY PutParts
<1> HIDE DEF new
<1>2. DOMAIN argv = 1..Len(argv) /\ DOMAIN new = 1..Len(new) /\ Len(words) \in Nat /\ Len(argv) \in Nat
  BY <1>1 DEF IsPut
<1>3. f \in [1..Len(argv) -> 1..Len(new)]
  BY <1>1, <1>2 DEF IsPut
<1>4. \A j, k \in 1..Len(argv) : j < k => f[j] < f[k]
  BY <1>2
<1>5. ASSUME NEW k \in 1..Len(argv) PROVE new[f[k]] = argv[k]
  <2>1. CASE k < i
    <3>1. k \in 1..(i - 1) /\ f[k] = k
      BY <2>1
    <3>2. QED
      BY <1>1, <3>1 DEF IsPut
  <2>2. CASE ~(k < i)
    <3>1. k \in i..Len(argv) /\ f[k] = k + Len(words)
      BY <2>2
    <3>2. QED
      BY <1>1, <3>1 DEF IsPut
  <2>3. QED
    BY <2>1, <2>2
<1>6. Places(f, argv, new)
  BY <1>2, <1>3, <1>4, <1>5 DEF Places
<1>7. QED
  BY <1>6 DEF Within, new

\* What is given afterwards was given before or is put there.
LEMMA PutGiven ==
  ASSUME NEW Word, NEW argv \in Seq(Word), NEW words \in Seq(Word), NEW i \in 1..(Len(argv) + 1), NEW W
  PROVE  Given(Put(argv, i, words), W) <=> Given(argv, W) \/ Given(words, W)
<1> DEFINE new == Put(argv, i, words)
<1>1. IsPut(new, Word, argv, i, words)
  BY PutParts
<1> HIDE DEF new
<1>2. DOMAIN argv = 1..Len(argv) /\ DOMAIN words = 1..Len(words) /\ DOMAIN new = 1..Len(new)
  BY <1>1 DEF IsPut
<1>3. ASSUME Given(new, W) PROVE Given(argv, W) \/ Given(words, W)
  <2>1. PICK k \in 1..Len(new) : new[k] \in W
    BY <1>2, <1>3 DEF Given
  <2>2. \/ \E j \in 1..Len(argv) : new[k] = argv[j]
        \/ \E j \in 1..Len(words) : new[k] = words[j]
    BY <1>1 DEF IsPut
  <2>3. QED
    BY <1>2, <2>1, <2>2 DEF Given
<1>4. ASSUME Given(argv, W) PROVE Given(new, W)
  <2>1. PICK k \in 1..Len(argv) : argv[k] \in W
    BY <1>2, <1>4 DEF Given
  <2>2. k \in 1..(i - 1) \/ k \in i..Len(argv)
    OBVIOUS
  <2>3. k \in 1..Len(new) /\ k + Len(words) \in 1..Len(new)
    BY <1>1 DEF IsPut
  <2>4. new[k] = argv[k] \/ new[k + Len(words)] = argv[k]
    BY <1>1, <2>2 DEF IsPut
  <2>5. QED
    BY <1>2, <2>1, <2>3, <2>4 DEF Given
<1>5. ASSUME Given(words, W) PROVE Given(new, W)
  <2>1. PICK k \in 1..Len(words) : words[k] \in W
    BY <1>2, <1>5 DEF Given
  <2>2. k + i - 1 \in 1..Len(new) /\ new[k + i - 1] = words[k]
    BY <1>1 DEF IsPut
  <2>3. QED
    BY <1>2, <2>1, <2>2 DEF Given
<1>6. QED
  BY <1>3, <1>4, <1>5 DEF new

\* One word and two.
LEMMA WordsGiven ==
  ASSUME NEW Word, NEW a \in Word, NEW b \in Word, NEW W
  PROVE  /\ <<a>> \in Seq(Word) /\ Len(<<a>>) = 1
         /\ <<a, b>> \in Seq(Word) /\ Len(<<a, b>>) = 2
         /\ Given(<<a>>, W) <=> a \in W
         /\ Given(<<a, b>>, W) <=> (a \in W \/ b \in W)
<1>1. <<a>> \in Seq(Word) /\ Len(<<a>>) = 1 /\ <<a>>[1] = a /\ DOMAIN <<a>> = 1..1
  OBVIOUS
<1>2. /\ <<a, b>> \in Seq(Word) /\ Len(<<a, b>>) = 2 /\ DOMAIN <<a, b>> = 1..2
      /\ <<a, b>>[1] = a /\ <<a, b>>[2] = b
  OBVIOUS
<1>3. Given(<<a>>, W) <=> a \in W
  BY <1>1 DEF Given
<1>4. Given(<<a, b>>, W) <=> (a \in W \/ b \in W)
  BY <1>2 DEF Given
<1>5. QED
  BY <1>1, <1>2, <1>3, <1>4

\* Words appended unless one of `given` is there.
LEMMA UnlessIs ==
  ASSUME NEW Word, NEW argv \in Seq(Word), NEW words \in Seq(Word), NEW W
  PROVE  LET new == Unless(argv, W, words)
         IN  /\ new \in Seq(Word) /\ Len(new) >= Len(argv)
             /\ \A k \in 1..Len(argv) : new[k] = argv[k]
             /\ Within(argv, new)
             /\ \A V : Given(argv, V) => Given(new, V)
             /\ Given(words, W) => Given(new, W)
             /\ new = argv \/ Len(new) = Len(argv) + Len(words)
<1>1. CASE Given(argv, W)
  BY <1>1, WithinSelf DEF Unless
<1>2. CASE ~Given(argv, W)
  <2> DEFINE new == Put(argv, Len(argv) + 1, words)
  <2>1. Unless(argv, W, words) = new
    BY <1>2, AppendIsPut DEF Unless
  <2>2. /\ new \in Seq(Word) /\ Len(new) = Len(argv) + Len(words)
        /\ \A k \in 1..Len(new) : k <= Len(argv) => new[k] = argv[k]
    BY PutIs
  <2>3. Within(argv, new)
    BY PutWithin
  <2>4. \A V : Given(new, V) <=> Given(argv, V) \/ Given(words, V)
    BY PutGiven
  <2> HIDE DEF new
  <2>5. QED
    BY <2>1, <2>2, <2>3, <2>4
<1>3. QED
  BY <1>1, <1>2

\* Once appended, one of `given` is there; and the subcommand is what it was.
LEMMA UnlessTwice ==
  ASSUME NEW Word, NEW argv \in Seq(Word), NEW words \in Seq(Word), NEW W, Given(words, W)
  PROVE  LET new == Unless(argv, W, words)
         IN  Unless(new, W, words) = new
<1> DEFINE new == Unless(argv, W, words)
<1>1. Given(new, W)
  BY UnlessIs
<1> HIDE DEF new
<1>2. Unless(new, W, words) = new
  BY <1>1 DEF Unless
<1>3. QED
  BY <1>2 DEF new

\* The same for one word and for two, of which the first is in `given`.
Appends(new, Word, argv, W, words) ==
  /\ new \in Seq(Word) /\ Within(argv, new)
  /\ Len(new) >= Len(argv) /\ \A k \in 1..Len(argv) : new[k] = argv[k]
  /\ \A V : Given(argv, V) => Given(new, V)
  /\ Given(new, W) /\ Unless(new, W, words) = new

\* One word appended.
LEMMA UnlessOne ==
  ASSUME NEW Word, NEW argv \in Seq(Word), NEW a \in Word, NEW W, a \in W
  PROVE  Appends(Unless(argv, W, <<a>>), Word, argv, W, <<a>>)
<1>1. <<a>> \in Seq(Word) /\ Given(<<a>>, W)
  BY WordsGiven
<1>2. QED
  BY <1>1, UnlessIs, UnlessTwice DEF Appends

\* Two words appended.
LEMMA UnlessTwo ==
  ASSUME NEW Word, NEW argv \in Seq(Word), NEW a \in Word, NEW b \in Word, NEW W, a \in W
  PROVE  Appends(Unless(argv, W, <<a, b>>), Word, argv, W, <<a, b>>)
<1>1. <<a, b>> \in Seq(Word) /\ Given(<<a, b>>, W)
  BY WordsGiven
<1>2. QED
  BY <1>1, UnlessIs, UnlessTwice DEF Appends

\* The words that the handlers add.
Added ==
  {"--oneline", "--graph", "--decorate", "--porcelain", "--message-format", "json", "--tail", "200",
   "--format", "table ...", "-maxdepth", "8", "-json", "--no-heading", "--with-filename", "--null",
   "--json", "--no-coverage", "--no-watch", "run", "--no-progress", "-q", "--format=json",
   "--tb=short", "--output", "--no-pager", "-n", "--tail=200", "--output-format", "concise",
   "-no-color", "--quiet", "--no-color", "-I", "node_modules|...", "--no-print-directory",
   "--output-style=stream", "--reporter=list", "--noEmit"}

\* The words that the handlers add are all in Added.
LEMMA AddedAre ==
  ASSUME NEW Word, Added \subseteq Word
  PROVE  /\ "--oneline" \in Word /\ "--graph" \in Word /\ "--decorate" \in Word /\ "--porcelain" \in Word
         /\ "--message-format" \in Word /\ "json" \in Word /\ "--tail" \in Word /\ "200" \in Word
         /\ "--format" \in Word /\ "table ..." \in Word /\ "-maxdepth" \in Word /\ "8" \in Word
         /\ "-json" \in Word /\ "--no-heading" \in Word /\ "--with-filename" \in Word /\ "--null" \in Word
         /\ "--json" \in Word /\ "--no-coverage" \in Word /\ "--no-watch" \in Word /\ "run" \in Word
         /\ "--no-progress" \in Word /\ "-q" \in Word /\ "--format=json" \in Word /\ "--tb=short" \in Word
         /\ "--output" \in Word /\ "--no-pager" \in Word /\ "-n" \in Word /\ "--tail=200" \in Word
         /\ "--output-format" \in Word /\ "concise" \in Word /\ "-no-color" \in Word /\ "--quiet" \in Word
         /\ "--no-color" \in Word /\ "-I" \in Word /\ "node_modules|..." \in Word /\ "--no-print-directory" \in Word
         /\ "--output-style=stream" \in Word /\ "--reporter=list" \in Word /\ "--noEmit" \in Word
  BY DEF Added

\* A rewrite of argv that is sound and not repeated.
Good(new, Word, argv, again) == new \in Seq(Word) /\ Within(argv, new) /\ again = new

\* The handlers that append words, whatever the command.
LEMMA AppendingHandlers ==
  ASSUME NEW Word, Added \subseteq Word, NEW argv \in Seq(Word)
  PROVE  /\ Good(TreeRewrite(argv), Word, argv, TreeRewrite(TreeRewrite(argv)))
         /\ Good(MakeRewrite(argv), Word, argv, MakeRewrite(MakeRewrite(argv)))
         /\ Good(MypyRewrite(argv), Word, argv, MypyRewrite(MypyRewrite(argv)))
         /\ Good(NxRewrite(argv), Word, argv, NxRewrite(NxRewrite(argv)))
         /\ Good(PlaywrightRewrite(argv), Word, argv, PlaywrightRewrite(PlaywrightRewrite(argv)))
         /\ Good(RspecRewrite(argv), Word, argv, RspecRewrite(RspecRewrite(argv)))
         /\ Good(RubocopRewrite(argv), Word, argv, RubocopRewrite(RubocopRewrite(argv)))
         /\ Good(TscRewrite(argv), Word, argv, TscRewrite(TscRewrite(argv)))
         /\ Good(WgetRewrite(argv), Word, argv, WgetRewrite(WgetRewrite(argv)))
<1>1. Good(TreeRewrite(argv), Word, argv, TreeRewrite(TreeRewrite(argv)))
  <2>1. "-I" \in Word /\ "node_modules|..." \in Word
    BY AddedAre
  <2>2. QED
    BY <2>1, UnlessTwo DEF TreeRewrite, Appends, Good
<1>2. Good(MakeRewrite(argv), Word, argv, MakeRewrite(MakeRewrite(argv)))
  <2>1. "--no-print-directory" \in Word
    BY AddedAre
  <2>2. QED
    BY <2>1, UnlessOne DEF MakeRewrite, Appends, Good
<1>3. Good(MypyRewrite(argv), Word, argv, MypyRewrite(MypyRewrite(argv)))
  <2>1. "--no-color" \in Word
    BY AddedAre
  <2>2. QED
    BY <2>1, UnlessOne DEF MypyRewrite, Appends, Good
<1>4. Good(NxRewrite(argv), Word, argv, NxRewrite(NxRewrite(argv)))
  <2>1. "--output-style=stream" \in Word
    BY AddedAre
  <2>2. QED
    BY <2>1, UnlessOne DEF NxRewrite, Appends, Good
<1>5. Good(PlaywrightRewrite(argv), Word, argv, PlaywrightRewrite(PlaywrightRewrite(argv)))
  <2>1. "--reporter=list" \in Word
    BY AddedAre
  <2>2. QED
    BY <2>1, UnlessOne DEF PlaywrightRewrite, Appends, Good
<1>6. Good(RspecRewrite(argv), Word, argv, RspecRewrite(RspecRewrite(argv)))
  <2>1. "--format" \in Word /\ "json" \in Word
    BY AddedAre
  <2>2. QED
    BY <2>1, UnlessTwo DEF RspecRewrite, Appends, Good
<1>7. Good(RubocopRewrite(argv), Word, argv, RubocopRewrite(RubocopRewrite(argv)))
  <2>1. "--format" \in Word /\ "json" \in Word
    BY AddedAre
  <2>2. QED
    BY <2>1, UnlessTwo DEF RubocopRewrite, Appends, Good
<1>8. Good(TscRewrite(argv), Word, argv, TscRewrite(TscRewrite(argv)))
  <2>1. "--noEmit" \in Word
    BY AddedAre
  <2>2. QED
    BY <2>1, UnlessOne DEF TscRewrite, Appends, Good
<1>9. Good(WgetRewrite(argv), Word, argv, WgetRewrite(WgetRewrite(argv)))
  <2>1. "--quiet" \in Word
    BY AddedAre
  <2>2. QED
    BY <2>1, UnlessOne DEF WgetRewrite, Appends, Good
<1>10. QED
  BY <1>1, <1>2, <1>3, <1>4, <1>5, <1>6, <1>7, <1>8, <1>9

\* What follows the program is the same after words are appended, if anything does.
LEMMA SubStays ==
  ASSUME NEW Word, NEW argv \in Seq(Word), NEW new, NEW W, NEW words,
         Appends(new, Word, argv, W, words), Sub(argv) # ""
  PROVE  Sub(new) = Sub(argv)
<1>1. Len(argv) >= 2
  BY DEF Sub
<1>2. /\ new \in Seq(Word) /\ Len(new) >= Len(argv)
      /\ \A k \in 1..Len(argv) : new[k] = argv[k]
  BY DEF Appends
<1>3. Len(argv) \in Nat /\ Len(new) \in Nat
  BY <1>2, LenProperties, Zenon
<1>4. 2 \in 1..Len(argv) /\ Len(new) >= 2
  BY ONLY <1>1, <1>2, <1>3
<1>5. new[2] = argv[2]
  BY <1>2, <1>4
<1>6. QED
  BY <1>1, <1>4, <1>5 DEF Sub

\* The handlers that append words to some subcommands.
LEMMA SubcommandHandlers ==
  ASSUME NEW Word, Added \subseteq Word, NEW argv \in Seq(Word)
  PROVE  /\ Good(KubectlRewrite(argv), Word, argv, KubectlRewrite(KubectlRewrite(argv)))
         /\ Good(RuffRewrite(argv), Word, argv, RuffRewrite(RuffRewrite(argv)))
         /\ Good(TerraformRewrite(argv), Word, argv, TerraformRewrite(TerraformRewrite(argv)))
         /\ Good(BrewRewrite(argv), Word, argv, BrewRewrite(BrewRewrite(argv)))
         /\ Good(HelmRewrite(argv), Word, argv, HelmRewrite(HelmRewrite(argv)))
<1>1. Good(KubectlRewrite(argv), Word, argv, KubectlRewrite(KubectlRewrite(argv)))
  <2> DEFINE new == Unless(argv, {"--tail", "--tail=5", "--tail=200"}, <<"--tail=200">>)
  <2>1. "--tail=200" \in Word
    BY AddedAre
  <2>2. Appends(new, Word, argv, {"--tail", "--tail=5", "--tail=200"}, <<"--tail=200">>)
    BY <2>1, UnlessOne
  <2>3. Sub(argv) # "" => Sub(new) = Sub(argv)
    BY <2>2, SubStays
  <2> HIDE DEF new
  <2>4. CASE KubectlRewrite(argv) = argv
    BY <2>4, WithinSelf DEF Good
  <2>5. CASE KubectlRewrite(argv) = new /\ KubectlRewrite(new) = new
    BY <2>2, <2>5 DEF Good, Appends
  <2>6. KubectlRewrite(argv) = argv \/ (KubectlRewrite(argv) = new /\ KubectlRewrite(new) = new)
    BY <2>2, <2>3 DEF KubectlRewrite, Appends, new
  <2>7. QED
    BY <2>4, <2>5, <2>6
<1>2. Good(RuffRewrite(argv), Word, argv, RuffRewrite(RuffRewrite(argv)))
  <2> DEFINE new == Unless(argv, {"--output-format"}, <<"--output-format", "concise">>)
  <2>1. "--output-format" \in Word /\ "concise" \in Word
    BY AddedAre
  <2>2. Appends(new, Word, argv, {"--output-format"}, <<"--output-format", "concise">>)
    BY <2>1, UnlessTwo
  <2>3. Sub(argv) # "" => Sub(new) = Sub(argv)
    BY <2>2, SubStays
  <2> HIDE DEF new
  <2>4. CASE RuffRewrite(argv) = argv
    BY <2>4, WithinSelf DEF Good
  <2>5. CASE RuffRewrite(argv) = new /\ RuffRewrite(new) = new
    BY <2>2, <2>5 DEF Good, Appends
  <2>6. RuffRewrite(argv) = argv \/ (RuffRewrite(argv) = new /\ RuffRewrite(new) = new)
    BY <2>2, <2>3 DEF RuffRewrite, Appends, new
  <2>7. QED
    BY <2>4, <2>5, <2>6
<1>3. Good(TerraformRewrite(argv), Word, argv, TerraformRewrite(TerraformRewrite(argv)))
  <2> DEFINE new == Unless(argv, {"-no-color", "--no-color"}, <<"-no-color">>)
  <2>1. "-no-color" \in Word
    BY AddedAre
  <2>2. Appends(new, Word, argv, {"-no-color", "--no-color"}, <<"-no-color">>)
    BY <2>1, UnlessOne
  <2>3. Sub(argv) # "" => Sub(new) = Sub(argv)
    BY <2>2, SubStays
  <2> HIDE DEF new
  <2>4. CASE TerraformRewrite(argv) = argv
    BY <2>4, WithinSelf DEF Good
  <2>5. CASE TerraformRewrite(argv) = new /\ TerraformRewrite(new) = new
    BY <2>2, <2>5 DEF Good, Appends
  <2>6. TerraformRewrite(argv) = argv \/ (TerraformRewrite(argv) = new /\ TerraformRewrite(new) = new)
    BY <2>2, <2>3 DEF TerraformRewrite, Appends, new
  <2>7. QED
    BY <2>4, <2>5, <2>6
<1>4. Good(BrewRewrite(argv), Word, argv, BrewRewrite(BrewRewrite(argv)))
  <2> DEFINE new == Unless(argv, {"--quiet", "-q"}, <<"--quiet">>)
  <2>1. "--quiet" \in Word
    BY AddedAre
  <2>2. Appends(new, Word, argv, {"--quiet", "-q"}, <<"--quiet">>)
    BY <2>1, UnlessOne
  <2>3. Sub(argv) # "" => Sub(new) = Sub(argv)
    BY <2>2, SubStays
  <2> HIDE DEF new
  <2>4. CASE BrewRewrite(argv) = argv
    BY <2>4, WithinSelf DEF Good
  <2>5. CASE BrewRewrite(argv) = new /\ BrewRewrite(new) = new
    BY <2>2, <2>5 DEF Good, Appends
  <2>6. BrewRewrite(argv) = argv \/ (BrewRewrite(argv) = new /\ BrewRewrite(new) = new)
    BY <2>2, <2>3 DEF BrewRewrite, Appends, new
  <2>7. QED
    BY <2>4, <2>5, <2>6
<1>5. Good(HelmRewrite(argv), Word, argv, HelmRewrite(HelmRewrite(argv)))
  <2> DEFINE new == Unless(argv, {"--no-color"}, <<"--no-color">>)
  <2>1. "--no-color" \in Word
    BY AddedAre
  <2>2. Appends(new, Word, argv, {"--no-color"}, <<"--no-color">>)
    BY <2>1, UnlessOne
  <2>3. Sub(argv) # "" => Sub(new) = Sub(argv)
    BY <2>2, SubStays
  <2> HIDE DEF new
  <2>4. CASE HelmRewrite(argv) = argv
    BY <2>4, WithinSelf DEF Good
  <2>5. CASE HelmRewrite(argv) = new /\ HelmRewrite(new) = new
    BY <2>2, <2>5 DEF Good, Appends
  <2>6. HelmRewrite(argv) = argv \/ (HelmRewrite(argv) = new /\ HelmRewrite(new) = new)
    BY <2>2, <2>3 DEF HelmRewrite, Appends, new
  <2>7. QED
    BY <2>4, <2>5, <2>6
<1>6. QED
  BY <1>1, <1>2, <1>3, <1>4, <1>5

\* The handlers that append several words, each unless it or its like is there.
LEMMA ChainHandlers ==
  ASSUME NEW Word, Added \subseteq Word, NEW argv \in Seq(Word)
  PROVE  /\ Good(GrepRewrite(argv), Word, argv, GrepRewrite(GrepRewrite(argv)))
         /\ Good(JestRewrite(argv), Word, argv, JestRewrite(JestRewrite(argv)))
         /\ Good(PytestRewrite(argv), Word, argv, PytestRewrite(PytestRewrite(argv)))
         /\ Good(JournalctlRewrite(argv), Word, argv, JournalctlRewrite(JournalctlRewrite(argv)))
<1>1. Good(GrepRewrite(argv), Word, argv, GrepRewrite(GrepRewrite(argv)))
  <2>1. "--no-heading" \in Word /\ "--with-filename" \in Word /\ "--null" \in Word
    BY AddedAre
  <2> DEFINE n1 == Unless(argv, {"--no-heading", "--heading"}, <<"--no-heading">>)
  <2>2. Appends(n1, Word, argv, {"--no-heading", "--heading"}, <<"--no-heading">>)
    BY <2>1, UnlessOne
  <2> HIDE DEF n1
  <2> DEFINE n2 == Unless(n1, {"--with-filename", "-H", "--no-filename", "-h"}, <<"--with-filename">>)
  <2>3. Appends(n2, Word, n1, {"--with-filename", "-H", "--no-filename", "-h"}, <<"--with-filename">>)
    <3>1. n1 \in Seq(Word)
      BY <2>2 DEF Appends
    <3>2. QED
      BY <2>1, <3>1, UnlessOne
  <2> HIDE DEF n2
  <2> DEFINE n3 == Unless(n2, {"--null", "-Z"}, <<"--null">>)
  <2>4. Appends(n3, Word, n2, {"--null", "-Z"}, <<"--null">>)
    <3>1. n2 \in Seq(Word)
      BY <2>3 DEF Appends
    <3>2. QED
      BY <2>1, <3>1, UnlessOne
  <2> HIDE DEF n3
  <2>5. n3 \in Seq(Word) /\ Within(argv, n3)
    BY <2>2, <2>3, <2>4, WithinTrans DEF Appends
  <2>6. Given(n3, {"--no-heading", "--heading"}) /\ Given(n3, {"--with-filename", "-H", "--no-filename", "-h"}) /\ Given(n3, {"--null", "-Z"})
    BY <2>2, <2>3, <2>4 DEF Appends
  <2>7. GrepRewrite(argv) = n3
    BY DEF GrepRewrite, n1, n2, n3
  <2>8. GrepRewrite(n3) = n3
    BY <2>6 DEF GrepRewrite, Unless
  <2>9. QED
    BY <2>5, <2>7, <2>8 DEF Good
<1>2. Good(JestRewrite(argv), Word, argv, JestRewrite(JestRewrite(argv)))
  <2>1. "--json" \in Word /\ "--no-coverage" \in Word /\ "--no-watch" \in Word
    BY AddedAre
  <2> DEFINE n1 == Unless(argv, {"--json"}, <<"--json">>)
  <2>2. Appends(n1, Word, argv, {"--json"}, <<"--json">>)
    BY <2>1, UnlessOne
  <2> HIDE DEF n1
  <2> DEFINE n2 == Unless(n1, {"--no-coverage", "--coverage"}, <<"--no-coverage">>)
  <2>3. Appends(n2, Word, n1, {"--no-coverage", "--coverage"}, <<"--no-coverage">>)
    <3>1. n1 \in Seq(Word)
      BY <2>2 DEF Appends
    <3>2. QED
      BY <2>1, <3>1, UnlessOne
  <2> HIDE DEF n2
  <2> DEFINE n3 == Unless(n2, {"--no-watch", "--watchAll=false"}, <<"--no-watch">>)
  <2>4. Appends(n3, Word, n2, {"--no-watch", "--watchAll=false"}, <<"--no-watch">>)
    <3>1. n2 \in Seq(Word)
      BY <2>3 DEF Appends
    <3>2. QED
      BY <2>1, <3>1, UnlessOne
  <2> HIDE DEF n3
  <2>5. n3 \in Seq(Word) /\ Within(argv, n3)
    BY <2>2, <2>3, <2>4, WithinTrans DEF Appends
  <2>6. Given(n3, {"--json"}) /\ Given(n3, {"--no-coverage", "--coverage"}) /\ Given(n3, {"--no-watch", "--watchAll=false"})
    BY <2>2, <2>3, <2>4 DEF Appends
  <2>7. JestRewrite(argv) = n3
    BY DEF JestRewrite, n1, n2, n3
  <2>8. JestRewrite(n3) = n3
    BY <2>6 DEF JestRewrite, Unless
  <2>9. QED
    BY <2>5, <2>7, <2>8 DEF Good
<1>3. Good(PytestRewrite(argv), Word, argv, PytestRewrite(PytestRewrite(argv)))
  <2>1. "-q" \in Word /\ "--tb=short" \in Word
    BY AddedAre
  <2> DEFINE n1 == Unless(argv, {"-v", "-s", "-q"}, <<"-q">>)
  <2>2. Appends(n1, Word, argv, {"-v", "-s", "-q"}, <<"-q">>)
    BY <2>1, UnlessOne
  <2> HIDE DEF n1
  <2> DEFINE n2 == Unless(n1, {"--tb=short", "--tb=long"}, <<"--tb=short">>)
  <2>3. Appends(n2, Word, n1, {"--tb=short", "--tb=long"}, <<"--tb=short">>)
    <3>1. n1 \in Seq(Word)
      BY <2>2 DEF Appends
    <3>2. QED
      BY <2>1, <3>1, UnlessOne
  <2> HIDE DEF n2
  <2>4. n2 \in Seq(Word) /\ Within(argv, n2)
    BY <2>2, <2>3, WithinTrans DEF Appends
  <2>5. Given(n2, {"-v", "-s", "-q"}) /\ Given(n2, {"--tb=short", "--tb=long"})
    BY <2>2, <2>3 DEF Appends
  <2>6. PytestRewrite(argv) = n2
    BY DEF PytestRewrite, n1, n2
  <2>7. PytestRewrite(n2) = n2
    BY <2>5 DEF PytestRewrite, Unless
  <2>8. QED
    BY <2>4, <2>6, <2>7 DEF Good
<1>4. Good(JournalctlRewrite(argv), Word, argv, JournalctlRewrite(JournalctlRewrite(argv)))
  <2>1. "--no-pager" \in Word /\ "-n" \in Word /\ "200" \in Word
    BY AddedAre
  <2> DEFINE n1 == Unless(argv, {"--no-pager"}, <<"--no-pager">>)
  <2>2. Appends(n1, Word, argv, {"--no-pager"}, <<"--no-pager">>)
    BY <2>1, UnlessOne
  <2> HIDE DEF n1
  <2> DEFINE n2 == Unless(n1, {"-n", "--lines=5"}, <<"-n", "200">>)
  <2>3. Appends(n2, Word, n1, {"-n", "--lines=5"}, <<"-n", "200">>)
    <3>1. n1 \in Seq(Word)
      BY <2>2 DEF Appends
    <3>2. QED
      BY <2>1, <3>1, UnlessTwo
  <2> HIDE DEF n2
  <2>4. n2 \in Seq(Word) /\ Within(argv, n2)
    BY <2>2, <2>3, WithinTrans DEF Appends
  <2>5. Given(n2, {"--no-pager"}) /\ Given(n2, {"-n", "--lines=5"})
    BY <2>2, <2>3 DEF Appends
  <2>6. JournalctlRewrite(argv) = n2
    BY DEF JournalctlRewrite, n1, n2
  <2>7. JournalctlRewrite(n2) = n2
    BY <2>5 DEF JournalctlRewrite, Unless
  <2>8. QED
    BY <2>4, <2>6, <2>7 DEF Good
<1>5. QED
  BY <1>1, <1>2, <1>3, <1>4

\* Put finds its place: the least of any.
LEMMA Least ==
  ASSUME NEW n \in Nat, NEW S, S \subseteq 1..n, S # {}
  PROVE  \E i \in S : \A j \in S : i <= j
<1>1. S \subseteq Nat
  OBVIOUS
<1>2. PICK i \in S : \A j \in S : ~ (<<j, i>> \in OpToRel(<, Nat))
  BY <1>1, NatLessThanWellFounded, WFMin, Zenon
<1>3. \A j \in S : ~ (j < i)
  BY <1>1, <1>2 DEF OpToRel
<1>4. QED
  BY <1>1, <1>3

\* What putting words in gives: the first of them is of W.
Puts(new, Word, argv, i, W) ==
  /\ new \in Seq(Word) /\ Within(argv, new)
  /\ \A V : Given(argv, V) => Given(new, V)
  /\ Given(new, W)
  /\ i >= 3 => Sub(new) = Sub(argv)

\* Words put behind the subcommand leave it what it was.
LEMMA PutSub ==
  ASSUME NEW Word, NEW argv \in Seq(Word), NEW words \in Seq(Word), NEW i \in 1..(Len(argv) + 1),
         i >= 3
  PROVE  Sub(Put(argv, i, words)) = Sub(argv)
<1> DEFINE new == Put(argv, i, words)
<1>1. IsPut(new, Word, argv, i, words)
  BY PutParts
<1> HIDE DEF new
<1>2. Len(argv) \in Nat /\ Len(words) \in Nat
  BY LenProperties, Zenon
<1>3. 2 \in 1..(i - 1) /\ Len(argv) >= 2
  BY <1>2
<1>4. new[2] = argv[2] /\ Len(new) >= 2
  BY <1>1, <1>2, <1>3 DEF IsPut
<1>5. QED
  BY <1>3, <1>4 DEF Sub, new

\* One word put in.
LEMMA PutOne ==
  ASSUME NEW Word, NEW argv \in Seq(Word), NEW a \in Word, NEW W, a \in W, NEW i \in 1..(Len(argv) + 1)
  PROVE  Puts(Put(argv, i, <<a>>), Word, argv, i, W)
<1>1. <<a>> \in Seq(Word) /\ Given(<<a>>, W)
  BY WordsGiven
<1>2. Put(argv, i, <<a>>) \in Seq(Word)
  BY <1>1, PutParts DEF IsPut
<1>3. QED
  BY <1>1, <1>2, PutWithin, PutGiven, PutSub DEF Puts

\* Two words put in.
LEMMA PutTwo ==
  ASSUME NEW Word, NEW argv \in Seq(Word), NEW a \in Word, NEW b \in Word, NEW W, a \in W,
         NEW i \in 1..(Len(argv) + 1)
  PROVE  Puts(Put(argv, i, <<a, b>>), Word, argv, i, W)
<1>1. <<a, b>> \in Seq(Word) /\ Given(<<a, b>>, W)
  BY WordsGiven
<1>2. Put(argv, i, <<a, b>>) \in Seq(Word)
  BY <1>1, PutParts DEF IsPut
<1>3. QED
  BY <1>1, <1>2, PutWithin, PutGiven, PutSub DEF Puts

\* find's words come after its first path, or at the end.
LEMMA FindHandler ==
  ASSUME NEW Word, Added \subseteq Word, NEW argv \in Seq(Word)
  PROVE  Good(FindRewrite(argv), Word, argv, FindRewrite(FindRewrite(argv)))
<1> DEFINE W == {"-maxdepth", "-mindepth"}
           put == Put(argv, 3, <<"-maxdepth", "8">>)
           new == Unless(argv, W, <<"-maxdepth", "8">>)
<1>1. "-maxdepth" \in Word /\ "8" \in Word
  BY AddedAre
<1>2. Len(argv) >= 2 => Puts(put, Word, argv, 3, W)
  <2>1. Len(argv) \in Nat
    BY LenProperties, Zenon
  <2>2. Len(argv) >= 2 => 3 \in 1..(Len(argv) + 1)
    BY <2>1
  <2>3. QED
    BY <1>1, <2>2, PutTwo
<1>3. Appends(new, Word, argv, W, <<"-maxdepth", "8">>)
  BY <1>1, UnlessTwo
<1>4. CASE Given(argv, W)
  BY <1>4, WithinSelf DEF FindRewrite, Good
<1>5. CASE ~Given(argv, W) /\ Len(argv) >= 2
  <2>1. FindRewrite(argv) = put
    BY <1>5 DEF FindRewrite
  <2> HIDE DEF put
  <2>2. FindRewrite(put) = put
    BY <1>2, <1>5 DEF FindRewrite, Puts
  <2>3. QED
    BY <1>2, <1>5, <2>1, <2>2 DEF Good, Puts
<1>6. CASE ~Given(argv, W) /\ ~(Len(argv) >= 2)
  <2>1. FindRewrite(argv) = new
    BY <1>6 DEF FindRewrite, Unless
  <2> HIDE DEF new
  <2>2. FindRewrite(new) = new
    BY <1>3, <1>6 DEF FindRewrite, Appends
  <2>3. QED
    BY <1>3, <2>1, <2>2 DEF Good, Appends
<1>7. QED
  BY <1>4, <1>5, <1>6

\* go test's word comes after the subcommand.
LEMMA GoHandler ==
  ASSUME NEW Word, Added \subseteq Word, NEW argv \in Seq(Word)
  PROVE  Good(GoRewrite(argv), Word, argv, GoRewrite(GoRewrite(argv)))
<1> DEFINE W == {"-json"}
           new == Put(argv, 3, <<"-json">>)
<1>1. "-json" \in Word
  BY AddedAre
<1>2. Sub(argv) = "test" => Puts(new, Word, argv, 3, W)
  <2>1. Len(argv) \in Nat
    BY LenProperties, Zenon
  <2>2. Sub(argv) = "test" => 3 \in 1..(Len(argv) + 1)
    BY <2>1 DEF Sub
  <2>3. QED
    BY <1>1, <2>2, PutOne
<1>3. CASE GoRewrite(argv) = argv
  BY <1>3, WithinSelf DEF Good
<1>4. CASE GoRewrite(argv) # argv
  <2>1. GoRewrite(argv) = new /\ Sub(argv) = "test"
    BY <1>4 DEF GoRewrite
  <2> HIDE DEF new
  <2>2. GoRewrite(new) = new
    BY <1>2, <2>1 DEF GoRewrite, Puts
  <2>3. QED
    BY <1>2, <2>1, <2>2 DEF Good, Puts
<1>5. QED
  BY <1>3, <1>4

\* cargo's words come before the first "--".
LEMMA CargoHandler ==
  ASSUME NEW Word, Added \subseteq Word, NEW argv \in Seq(Word)
  PROVE  Good(CargoRewrite(argv), Word, argv, CargoRewrite(CargoRewrite(argv)))
<1> DEFINE ends == {i \in DOMAIN argv : argv[i] = "--"}
           at == IF ends = {} THEN Len(argv) + 1 ELSE CHOOSE i \in ends : \A j \in ends : i <= j
           new == Put(argv, at, <<"--message-format", "json">>)
<1>1. "--message-format" \in Word /\ "json" \in Word
  BY AddedAre
<1>2. Len(argv) \in Nat /\ DOMAIN argv = 1..Len(argv)
  BY LenProperties, Zenon
<1>3. at \in 1..(Len(argv) + 1)
  <2>1. CASE ends = {}
    BY <1>2, <2>1
  <2>2. CASE ends # {}
    <3>1. ends \subseteq 1..Len(argv)
      BY <1>2
    <3>2. \E i \in ends : \A j \in ends : i <= j
      BY ONLY <1>2, <2>2, <3>1, Least
    <3>3. at \in ends
      BY <2>2, <3>2, Zenon
    <3>4. QED
      BY <1>2, <3>1, <3>3
  <2>3. QED
    BY <2>1, <2>2
<1> HIDE DEF at
<1>4. Puts(new, Word, argv, at, MessageFormat)
  BY <1>1, <1>3, PutTwo DEF MessageFormat
<1>5. CASE CargoRewrite(argv) = argv
  BY <1>5, WithinSelf DEF Good
<1>6. CASE CargoRewrite(argv) # argv
  <2>1. CargoRewrite(argv) = new
    BY <1>6 DEF CargoRewrite, at
  <2> HIDE DEF new
  <2>2. CargoRewrite(new) = new
    BY <1>4 DEF CargoRewrite, Puts
  <2>3. QED
    BY <1>4, <2>1, <2>2 DEF Good, Puts
<1>7. QED
  BY <1>5, <1>6

\* docker's words come after logs, or at the end.
LEMMA DockerHandler ==
  ASSUME NEW Word, Added \subseteq Word, NEW argv \in Seq(Word)
  PROVE  Good(DockerRewrite(argv), Word, argv, DockerRewrite(DockerRewrite(argv)))
<1> DEFINE put == Put(argv, 3, <<"--tail", "200">>)
           new == Unless(argv, {"--format"}, <<"--format", "table ...">>)
<1>1. "--tail" \in Word /\ "200" \in Word /\ "--format" \in Word /\ "table ..." \in Word
  BY AddedAre
<1>2. Sub(argv) = "logs" => Puts(put, Word, argv, 3, {"--tail"})
  <2>1. Len(argv) \in Nat
    BY LenProperties, Zenon
  <2>2. Sub(argv) = "logs" => 3 \in 1..(Len(argv) + 1)
    BY <2>1 DEF Sub
  <2>3. QED
    BY <1>1, <2>2, PutTwo
<1>3. Appends(new, Word, argv, {"--format"}, <<"--format", "table ...">>)
  BY <1>1, UnlessTwo
<1>4. Sub(argv) # "" => Sub(new) = Sub(argv)
  BY <1>3, SubStays
<1>5. CASE DockerRewrite(argv) = argv
  BY <1>5, WithinSelf DEF Good
<1>6. CASE DockerRewrite(argv) # argv /\ Sub(argv) = "logs"
  <2>1. DockerRewrite(argv) = put
    BY <1>6 DEF DockerRewrite
  <2> HIDE DEF put
  <2>2. DockerRewrite(put) = put
    BY <1>2, <1>6 DEF DockerRewrite, Puts
  <2>3. QED
    BY <1>2, <1>6, <2>1, <2>2 DEF Good, Puts
<1>7. CASE DockerRewrite(argv) # argv /\ Sub(argv) # "logs"
  <2>1. DockerRewrite(argv) = new /\ Sub(argv) \in {"ps", "images"}
    BY <1>7 DEF DockerRewrite
  <2> HIDE DEF new
  <2>2. DockerRewrite(new) = new
    BY <1>3, <1>4, <2>1 DEF DockerRewrite, Appends
  <2>3. QED
    BY <1>3, <2>1, <2>2 DEF Good, Appends
<1>8. QED
  BY <1>5, <1>6, <1>7

\* npm gets run before a script's name, or a word at the end.
LEMMA NpmHandler ==
  ASSUME NEW Word, Added \subseteq Word, NEW argv \in Seq(Word)
  PROVE  Good(NpmRewrite(argv), Word, argv, NpmRewrite(NpmRewrite(argv)))
<1> DEFINE put == Put(argv, 2, <<"run">>)
           new == Unless(argv, {"--no-progress"}, <<"--no-progress">>)
<1>1. "run" \in Word /\ "--no-progress" \in Word
  BY AddedAre
<1>2. Sub(argv) # "" => Puts(put, Word, argv, 2, {"run"}) /\ Sub(put) = "run"
  <2>1. Len(argv) \in Nat
    BY LenProperties, Zenon
  <2>2. SUFFICES ASSUME Sub(argv) # "" PROVE Puts(put, Word, argv, 2, {"run"}) /\ Sub(put) = "run"
    OBVIOUS
  <2>3. Len(argv) >= 2 /\ 2 \in 1..(Len(argv) + 1)
    <3>1. Len(argv) >= 2
      BY <2>2 DEF Sub
    <3>2. QED
      BY <2>1, <3>1
  <2>4. Puts(put, Word, argv, 2, {"run"})
    BY <1>1, <2>3, PutOne
  <2>5. <<"run">> \in Seq(Word) /\ Len(<<"run">>) = 1 /\ <<"run">>[1] = "run"
    BY <1>1, WordsGiven
  <2>6. IsPut(put, Word, argv, 2, <<"run">>)
    BY <2>3, <2>5, PutParts
  <2>7. Len(put) >= 2 /\ put[2] = "run"
    <3>1. put[1 + 2 - 1] = "run"
      BY <2>5, <2>6 DEF IsPut
    <3>2. Len(put) >= 2
      BY <2>1, <2>3, <2>5, <2>6 DEF IsPut
    <3>3. QED
      BY <3>1, <3>2
  <2>8. QED
    BY <2>4, <2>7 DEF Sub
<1>3. Appends(new, Word, argv, {"--no-progress"}, <<"--no-progress">>)
  BY <1>1, UnlessOne
<1>4. Sub(argv) # "" => Sub(new) = Sub(argv)
  BY <1>3, SubStays
<1>5. CASE NpmRewrite(argv) = argv
  BY <1>5, WithinSelf DEF Good
<1>6. CASE NpmRewrite(argv) # argv /\ Sub(argv) # "" /\ Sub(argv) \notin NpmBuiltins
  <2>1. NpmRewrite(argv) = put
    BY <1>6 DEF NpmRewrite
  <2> HIDE DEF put
  <2>2. NpmRewrite(put) = put
    BY <1>2, <1>6 DEF NpmRewrite, NpmBuiltins
  <2>3. QED
    BY <1>2, <1>6, <2>1, <2>2 DEF Good, Puts
<1>7. CASE NpmRewrite(argv) # argv /\ ~(Sub(argv) # "" /\ Sub(argv) \notin NpmBuiltins)
  <2>1. NpmRewrite(argv) = new /\ Sub(argv) \in {"install", "i", "add", "ci"}
    BY <1>7 DEF NpmRewrite
  <2> HIDE DEF new
  <2>2. NpmRewrite(new) = new
    BY <1>3, <1>4, <2>1 DEF NpmRewrite, NpmBuiltins, Appends
  <2>3. QED
    BY <1>3, <2>1, <2>2 DEF Good, Appends
<1>8. QED
  BY <1>5, <1>6, <1>7

\* pip's words depend on the subcommand.
LEMMA PipHandler ==
  ASSUME NEW Word, Added \subseteq Word, NEW argv \in Seq(Word)
  PROVE  Good(PipRewrite(argv), Word, argv, PipRewrite(PipRewrite(argv)))
<1> DEFINE quiet == Unless(argv, {"-q", "--quiet"}, <<"-q">>)
           json == Unless(argv, {"--format=json"}, <<"--format=json">>)
<1>1. "-q" \in Word /\ "--format=json" \in Word
  BY AddedAre
<1>2. Appends(quiet, Word, argv, {"-q", "--quiet"}, <<"-q">>)
  BY <1>1, UnlessOne
<1>3. Appends(json, Word, argv, {"--format=json"}, <<"--format=json">>)
  BY <1>1, UnlessOne
<1>4. Sub(argv) # "" => Sub(quiet) = Sub(argv) /\ Sub(json) = Sub(argv)
  BY <1>2, <1>3, SubStays
<1>5. CASE Sub(argv) \in {"install", "add"}
  <2>1. PipRewrite(argv) = quiet
    BY <1>5 DEF PipRewrite
  <2> HIDE DEF quiet
  <2>2. PipRewrite(quiet) = quiet
    BY <1>2, <1>4, <1>5 DEF PipRewrite, Appends
  <2>3. QED
    BY <1>2, <2>1, <2>2 DEF Good, Appends
<1>6. CASE Sub(argv) \in {"list", "outdated"}
  <2>1. PipRewrite(argv) = json
    BY <1>6 DEF PipRewrite
  <2> HIDE DEF json
  <2>2. PipRewrite(json) = json
    BY <1>3, <1>4, <1>6 DEF PipRewrite, Appends
  <2>3. QED
    BY <1>3, <2>1, <2>2 DEF Good, Appends
<1>7. CASE Sub(argv) \notin {"install", "add", "list", "outdated"}
  <2>1. PipRewrite(argv) = argv
    BY <1>7 DEF PipRewrite
  <2>2. QED
    BY <2>1, WithinSelf DEF Good
<1>8. QED
  BY <1>5, <1>6, <1>7

\* aws's words come at the end, and then an action is given.
LEMMA AwsHandler ==
  ASSUME NEW Word, Added \subseteq Word, NEW argv \in Seq(Word)
  PROVE  Good(AwsRewrite(argv), Word, argv, AwsRewrite(AwsRewrite(argv)))
<1> DEFINE W == {"--output"}
           new == Unless(argv, W, <<"--output", "json">>)
<1>1. "--output" \in Word /\ "json" \in Word
  BY AddedAre
<1>2. Appends(new, Word, argv, W, <<"--output", "json">>)
  BY <1>1, UnlessTwo
<1>3. CASE AwsRewrite(argv) = argv
  BY <1>3, WithinSelf DEF Good
<1>4. CASE AwsRewrite(argv) # argv
  <2>1. AwsRewrite(argv) = new
    BY <1>4 DEF AwsRewrite
  <2> HIDE DEF new
  <2>2. AwsRewrite(new) = new
    BY <1>2 DEF AwsRewrite, Appends
  <2>3. QED
    BY <1>2, <2>1, <2>2 DEF Good, Appends
<1>5. QED
  BY <1>3, <1>4

-----------------------------------------------------------------------------
(* git's subcommand.  The function that says which words are free, that is *)
(* no value of an option, is defined from left to right.                   *)

\* f says of each of the first n words whether it is free, being no option's value.
FreeFor(f, a, n) == f = [i \in 1..n |-> i = 1 \/ ~(f[i - 1] /\ a[i - 1] \in ValueOptions)]
\* Which words of a are free.
Free(a) == CHOOSE f : FreeFor(f, a, Len(a))

\* There is such an f for every command.
LEMMA FreeExists == ASSUME NEW a, NEW n \in Nat PROVE \E f : FreeFor(f, a, n)
<1> DEFINE S == {m \in 1..n : ~ \E f : FreeFor(f, a, m)}
<1>1. \E f : FreeFor(f, a, 0)
  <2>1. FreeFor([i \in 1..0 |-> TRUE], a, 0)
    BY DEF FreeFor
  <2>2. QED
    BY <2>1
<1>2. CASE S = {}
  BY <1>1, <1>2
<1>3. CASE S # {}
  <2>1. PICK i \in S : \A j \in S : i <= j
    BY ONLY <1>3, n \in Nat, Least
  <2>2. i \in 1..n /\ i - 1 \in 0..n /\ i - 1 \notin S
    BY <2>1
  <2>3. PICK f : FreeFor(f, a, i - 1)
    BY <1>1, <2>2
  <2> DEFINE g == [k \in 1..i |-> IF k = i THEN i = 1 \/ ~(f[i - 1] /\ a[i - 1] \in ValueOptions) ELSE f[k]]
  <2>4. \A k \in 1..(i - 1) : f[k] = (k = 1 \/ ~(f[k - 1] /\ a[k - 1] \in ValueOptions)) /\ g[k] = f[k]
    BY <2>2, <2>3 DEF FreeFor
  <2>5. ASSUME NEW k \in 1..i
        PROVE  g[k] = (k = 1 \/ ~(g[k - 1] /\ a[k - 1] \in ValueOptions))
    <3>1. CASE k = 1
      <4>1. CASE i = 1
        BY <3>1, <4>1
      <4>2. CASE i # 1
        <5>1. 1 \in 1..(i - 1)
          BY <2>2, <4>2
        <5>2. f[1] = TRUE /\ g[1] = f[1]
          BY <2>4, <5>1
        <5>3. QED
          BY <3>1, <5>2
      <4>3. QED
        BY <4>1, <4>2
    <3>2. CASE k # 1 /\ k = i
      <4>1. k - 1 \in 1..(i - 1)
        BY <2>2, <3>2
      <4>2. g[k - 1] = f[k - 1]
        BY <2>4, <4>1
      <4>3. QED
        BY <3>2, <4>2
    <3>3. CASE k # 1 /\ k # i
      <4>1. k \in 1..(i - 1) /\ k - 1 \in 1..(i - 1)
        BY <2>2, <3>3
      <4>2. QED
        BY <2>4, <4>1
    <3>4. QED
      BY <3>1, <3>2, <3>3
  <2>6. FreeFor(g, a, i)
    BY <2>5 DEF FreeFor
  <2>7. QED
    BY <2>1, <2>6
<1>4. QED
  BY <1>2, <1>3

\* And Free is one.
LEMMA FreeIs ==
  ASSUME NEW Word, NEW a \in Seq(Word)
  PROVE  \A i \in 1..Len(a) : Free(a)[i] = (i = 1 \/ ~(Free(a)[i - 1] /\ a[i - 1] \in ValueOptions))
<1>1. Len(a) \in Nat
  BY LenProperties, Zenon
<1>2. FreeFor(Free(a), a, Len(a))
  BY <1>1, FreeExists, Zenon DEF Free
<1>3. QED
  BY <1>2 DEF FreeFor

\* The words that may be the subcommand, and where it is.
Subs(a) == {i \in 2..Len(a) : Free(a)[i] /\ a[i] \notin ValueOptions \cup GlobalOptions}

\* Where git's subcommand is: the first free word that is no option.
LEMMA GitSubcmdAtIs ==
  ASSUME NEW a
  PROVE  GitSubcmdAt(a) = IF Subs(a) = {} THEN 0 ELSE CHOOSE i \in Subs(a) : \A j \in Subs(a) : i <= j
  BY DEF GitSubcmdAt, Subs, Free, FreeFor

\* The words before a place decide whether it is free.
LEMMA FreeAgrees ==
  ASSUME NEW Word, NEW a \in Seq(Word), NEW b \in Seq(Word), NEW m \in Nat,
         m <= Len(a), m <= Len(b), \A i \in 1..m : a[i] = b[i]
  PROVE  \A i \in 1..m : Free(a)[i] = Free(b)[i]
<1> DEFINE S == {i \in 1..m : Free(a)[i] # Free(b)[i]}
<1>1. CASE S = {}
  BY <1>1
<1>2. CASE S # {}
  <2>1. PICK i \in S : \A j \in S : i <= j
    BY ONLY <1>2, m \in Nat, Least
  <2>2. /\ i \in 1..Len(a) /\ i \in 1..Len(b) /\ Free(a)[i] # Free(b)[i]
        /\ i # 1 => i - 1 \in 1..m /\ i - 1 \notin S
    BY <2>1, LenProperties
  <2>3. /\ Free(a)[i] = (i = 1 \/ ~(Free(a)[i - 1] /\ a[i - 1] \in ValueOptions))
        /\ Free(b)[i] = (i = 1 \/ ~(Free(b)[i - 1] /\ b[i - 1] \in ValueOptions))
    BY <2>2, FreeIs
  <2>4. CASE i = 1
    BY <2>2, <2>3, <2>4
  <2>5. CASE i # 1
    BY <2>2, <2>3, <2>5
  <2>6. QED
    BY <2>4, <2>5
<1>3. QED
  BY <1>1, <1>2

\* git's first word after which words are put: the subcommand, or one like it before.
First(a, sub) == CHOOSE i \in 1..Len(a) : a[i] = sub /\ \A j \in 1..(i - 1) : a[j] # sub

\* The place that git's words go to is behind the program, and within the command.
LEMMA GitPlaces ==
  ASSUME NEW Word, NEW a \in Seq(Word), Subs(a) # {}
  PROVE  LET at    == GitSubcmdAt(a)
             first == First(a, a[at])
         IN  /\ at \in Subs(a) /\ at \in 2..Len(a) /\ \A j \in Subs(a) : at <= j
             /\ first \in 1..at /\ a[first] = a[at]
<1> DEFINE at == GitSubcmdAt(a)
           S == {i \in 1..Len(a) : a[i] = a[at]}
<1>1. Len(a) \in Nat
  BY LenProperties, Zenon
<1>2. Subs(a) # {} /\ Subs(a) \subseteq 1..Len(a) /\ Subs(a) \subseteq 2..Len(a)
  BY <1>1 DEF Subs
<1>3. \E i \in Subs(a) : \A j \in Subs(a) : i <= j
  BY ONLY <1>1, <1>2, Least
<1>4. at \in Subs(a) /\ \A j \in Subs(a) : at <= j
  BY <1>2, <1>3, GitSubcmdAtIs, Zenon
<1>5. at \in 2..Len(a)
  BY <1>2, <1>4
<1> HIDE DEF at
<1>6. at \in S /\ S \subseteq 1..Len(a) /\ S # {}
  BY <1>1, <1>5
<1>7. PICK i \in S : \A j \in S : i <= j
  BY ONLY <1>1, <1>6, Least
<1>8. i \in 1..Len(a) /\ a[i] = a[at] /\ \A j \in 1..(i - 1) : a[j] # a[at]
  BY <1>7
<1>9. /\ First(a, a[at]) \in 1..Len(a) /\ a[First(a, a[at])] = a[at]
      /\ \A j \in 1..(First(a, a[at]) - 1) : a[j] # a[at]
  BY ONLY <1>8, Zenon DEF First
<1>10. First(a, a[at]) <= at
  BY <1>1, <1>5, <1>9
<1>11. QED
  BY <1>4, <1>5, <1>9, <1>10 DEF at

\* After words are put behind it, the subcommand is what it was or the first of them.
LEMMA GitSubAgain ==
  ASSUME NEW Word, NEW argv \in Seq(Word), NEW words \in Seq(Word), Len(words) >= 1,
         words[1] \notin ValueOptions \cup GlobalOptions,
         Subs(argv) # {}, argv[GitSubcmdAt(argv)] \notin ValueOptions
  PROVE  LET at  == GitSubcmdAt(argv)
             new == Put(argv, First(argv, argv[at]) + 1, words)
         IN  /\ new \in Seq(Word) /\ Subs(new) # {}
             /\ new[GitSubcmdAt(new)] \in {argv[at], words[1]}
<1> DEFINE at == GitSubcmdAt(argv)
           first == First(argv, argv[at])
           new == Put(argv, first + 1, words)
<1>1. /\ at \in Subs(argv) /\ at \in 2..Len(argv) /\ \A j \in Subs(argv) : at <= j
      /\ first \in 1..at /\ argv[first] = argv[at]
  BY GitPlaces
<1>2. argv[at] \notin ValueOptions
  OBVIOUS
<1> HIDE DEF at, first
<1>3. Len(argv) \in Nat /\ Len(words) \in Nat
  BY LenProperties, Zenon
<1>4. first + 1 \in 1..(Len(argv) + 1) /\ first \in Nat /\ first <= Len(argv)
  BY <1>1, <1>3
<1>5. IsPut(new, Word, argv, first + 1, words)
  BY <1>4, PutParts
<1> HIDE DEF new
<1>6. /\ new \in Seq(Word) /\ Len(new) = Len(argv) + Len(words) /\ new[first + 1] = words[1]
      /\ \A k \in 1..first : new[k] = argv[k]
  <2>1. new[1 + (first + 1) - 1] = words[1]
    BY <1>3, <1>5 DEF IsPut
  <2>2. 1 + (first + 1) - 1 = first + 1 /\ (first + 1) - 1 = first
    BY <1>4
  <2>3. QED
    BY <1>5, <2>1, <2>2 DEF IsPut
<1>7. \A k \in 1..first : Free(new)[k] = Free(argv)[k]
  <2>1. first <= Len(new)
    BY <1>3, <1>4, <1>6
  <2>2. QED
    BY ONLY <1>4, <1>6, <2>1, argv \in Seq(Word), FreeAgrees
<1>8. \A k \in Subs(new) : k <= first => k \in Subs(argv)
  BY <1>4, <1>6, <1>7 DEF Subs
<1>9. \A k \in Subs(new) : k \in 2..Len(new)
  BY DEF Subs
<1>10. Len(new) \in Nat /\ at \in Nat
  BY <1>1, <1>3, <1>6
<1>11. ASSUME first = at PROVE Subs(new) # {} /\ new[GitSubcmdAt(new)] = argv[at]
  <2>1. at \in Subs(new)
    BY <1>1, <1>3, <1>6, <1>7, <1>11 DEF Subs
  <2>2. GitSubcmdAt(new) \in Subs(new) /\ GitSubcmdAt(new) <= at
    BY <1>6, <2>1, GitPlaces
  <2>3. GitSubcmdAt(new) \in Nat
    BY <1>9, <1>10, <2>2
  <2>4. GitSubcmdAt(new) \in Subs(argv)
    BY <1>8, <1>11, <2>2
  <2>5. at <= GitSubcmdAt(new)
    BY <1>1, <2>4
  <2>6. GitSubcmdAt(new) = at
    BY <1>10, <2>2, <2>3, <2>5
  <2>7. first \in 1..first
    BY <1>1
  <2>8. QED
    BY <1>6, <1>11, <2>1, <2>6, <2>7
<1>12. ASSUME first # at PROVE Subs(new) # {} /\ new[GitSubcmdAt(new)] = words[1]
  <2>1. Len(new) >= first + 1
    BY <1>3, <1>4, <1>6
  <2>2. first + 1 \in 2..Len(new) /\ first + 1 \in 1..Len(new) /\ first + 1 # 1 /\ (first + 1) - 1 = first
    BY <1>1, <1>4, <1>10, <2>1
  <2>3. Free(new)[first + 1] = (first + 1 = 1 \/ ~(Free(new)[(first + 1) - 1] /\ new[(first + 1) - 1] \in ValueOptions))
    BY <1>6, <2>2, FreeIs
  <2>4. new[first] \notin ValueOptions
    BY <1>1, <1>2, <1>4, <1>6
  <2>5. Free(new)[first + 1] = TRUE
    BY <2>2, <2>3, <2>4
  <2>6. first + 1 \in Subs(new)
    BY <1>6, <2>2, <2>5 DEF Subs
  <2>7. /\ GitSubcmdAt(new) \in Subs(new) /\ GitSubcmdAt(new) <= first + 1
    BY <1>6, <2>6, GitPlaces
  <2>8. GitSubcmdAt(new) \in Nat
    BY <1>9, <1>10, <2>7
  <2>9. ~(GitSubcmdAt(new) <= first)
    <3>1. SUFFICES ASSUME GitSubcmdAt(new) <= first PROVE FALSE
      OBVIOUS
    <3>2. GitSubcmdAt(new) \in Subs(argv)
      BY <1>8, <2>7, <3>1
    <3>3. at <= GitSubcmdAt(new)
      BY <1>1, <3>2
    <3>4. QED
      BY <1>1, <1>4, <1>10, <1>12, <2>8, <3>1, <3>3
  <2>10. GitSubcmdAt(new) = first + 1
    BY <1>4, <2>7, <2>8, <2>9
  <2>11. QED
    BY <1>6, <2>6, <2>10
<1>13. new \in Seq(Word) /\ Subs(new) # {} /\ new[GitSubcmdAt(new)] \in {argv[at], words[1]}
  BY <1>6, <1>11, <1>12
<1>14. QED
  BY <1>13 DEF new, first, at

\* The words git log gets.
LogWords(a) ==
  LET new(words, flag) == IF Given(a, {flag}) THEN words ELSE words \o <<flag>>
      shape == IF Given(a, {"-5"}) THEN << >> ELSE new(new(<< >>, "--graph"), "--decorate")
  IN  new(<< >>, "--oneline") \o shape

\* git's subcommand.
GitSub(a) == IF GitSubcmdAt(a) = 0 THEN "" ELSE a[GitSubcmdAt(a)]

\* What git's handler puts in, and where.
LEMMA GitRewriteIs ==
  ASSUME NEW a
  PROVE  GitRewrite(a) =
           CASE GitSub(a) = "log" -> Put(a, First(a, GitSub(a)) + 1, LogWords(a))
             [] GitSub(a) = "status" -> IF Given(a, {"--porcelain", "--short", "-s"}) THEN a
                                        ELSE Put(a, First(a, GitSub(a)) + 1, <<"--porcelain">>)
             [] OTHER -> a
  BY DEF GitRewrite, First, LogWords, GitSub

\* What is given by words written after each other is given by one of them.
LEMMA ConcatGiven ==
  ASSUME NEW Word, NEW a \in Seq(Word), NEW b \in Seq(Word), NEW V
  PROVE  Given(a \o b, V) <=> Given(a, V) \/ Given(b, V)
<1>1. Len(a) + 1 \in 1..(Len(a) + 1)
  <2>1. Len(a) \in Nat
    BY LenProperties, Zenon
  <2>2. QED
    BY <2>1
<1>2. a \o b = Put(a, Len(a) + 1, b)
  BY AppendIsPut
<1>3. Given(Put(a, Len(a) + 1, b), V) <=> Given(a, V) \/ Given(b, V)
  BY <1>1, PutGiven
<1>4. QED
  BY <1>2, <1>3

\* A word more is put in unless its like is there.
LEMMA OneMore ==
  ASSUME NEW W, NEW words \in Seq(W), NEW flag \in W
  PROVE  LET more == words \o <<flag>>
         IN  more \in Seq(W) /\ \A V : Given(more, V) <=> Given(words, V) \/ flag \in V
<1>1. <<flag>> \in Seq(W) /\ \A V : Given(<<flag>>, V) <=> flag \in V
  BY WordsGiven
<1>2. words \o <<flag>> \in Seq(W)
  BY <1>1, ConcatProperties, Zenon
<1>3. \A V : Given(words \o <<flag>>, V) <=> Given(words, V) \/ Given(<<flag>>, V)
  BY <1>1, ConcatGiven
<1>4. QED
  BY <1>1, <1>2, <1>3

\* Putting no words in changes nothing.
LEMMA PutNothing ==
  ASSUME NEW Word, NEW a \in Seq(Word), NEW i \in 1..(Len(a) + 1)
  PROVE  Put(a, i, << >>) = a
<1> DEFINE new == Put(a, i, << >>)
<1>1. << >> \in Seq(Word) /\ Len(<< >>) = 0
  OBVIOUS
<1>2. /\ new \in Seq(Word) /\ Len(new) = Len(a) + Len(<< >>)
      /\ \A k \in 1..(i - 1) : new[k] = a[k]
      /\ \A k \in i..Len(a) : new[k + Len(<< >>)] = a[k]
  <2>1. IsPut(new, Word, a, i, << >>)
    BY <1>1, PutParts
  <2>2. QED
    BY <2>1 DEF IsPut
<1> HIDE DEF new
<1>3. Len(a) \in Nat /\ Len(new) = Len(a)
  BY <1>1, <1>2, LenProperties
<1>4. \A k \in 1..Len(a) : new[k] = a[k]
  BY <1>1, <1>2, <1>3
<1>5. new = a
  BY <1>2, <1>3, <1>4, SeqEqual
<1>6. QED
  BY <1>5 DEF new

\* flag is in the command or among the words that are added.
Mentioned(a, words, flag) == Given(a, {flag}) \/ Given(words, {flag})

\* These words are among those that handlers add, and with them each of the flags is
\* given.
LEMMA LogWordsAre ==
  ASSUME NEW Word, Added \subseteq Word, NEW a
  PROVE  LET words == LogWords(a)
         IN  /\ words \in Seq(Word)
             /\ Len(words) >= 1 => words[1] \in {"--oneline", "--graph", "--decorate"}
             /\ Mentioned(a, words, "--oneline")
             /\ Given(a, {"-5"}) \/ (Mentioned(a, words, "--graph") /\ Mentioned(a, words, "--decorate"))
<1> DEFINE W == {"--oneline", "--graph", "--decorate"}
           o == IF Given(a, {"--oneline"}) THEN << >> ELSE << >> \o <<"--oneline">>
           g == IF Given(a, {"--graph"}) THEN << >> ELSE << >> \o <<"--graph">>
           d == IF Given(a, {"--decorate"}) THEN g ELSE g \o <<"--decorate">>
           s == IF Given(a, {"-5"}) THEN << >> ELSE d
<1>1. LogWords(a) = o \o s
  BY DEF LogWords
<1>2. "--oneline" \in W /\ "--graph" \in W /\ "--decorate" \in W
  OBVIOUS
<1>3. o \in Seq(W) /\ (Given(a, {"--oneline"}) \/ Given(o, {"--oneline"}))
  <2>1. << >> \in Seq(W)
    OBVIOUS
  <2>2. /\ << >> \o <<"--oneline">> \in Seq(W)
        /\ Given(<< >> \o <<"--oneline">>, {"--oneline"})
    BY ONLY <1>2, <2>1, OneMore
  <2>3. QED
    BY ONLY <2>1, <2>2
<1>4. g \in Seq(W) /\ (Given(a, {"--graph"}) \/ Given(g, {"--graph"}))
  <2>1. << >> \in Seq(W)
    OBVIOUS
  <2>2. /\ << >> \o <<"--graph">> \in Seq(W)
        /\ Given(<< >> \o <<"--graph">>, {"--graph"})
    BY ONLY <1>2, <2>1, OneMore
  <2>3. QED
    BY ONLY <2>1, <2>2
<1> HIDE DEF o, g
<1>5. /\ d \in Seq(W) /\ (Given(a, {"--decorate"}) \/ Given(d, {"--decorate"}))
      /\ Given(a, {"--graph"}) \/ Given(d, {"--graph"})
  <2>1. /\ g \o <<"--decorate">> \in Seq(W)
        /\ \A V : Given(g \o <<"--decorate">>, V) <=> Given(g, V) \/ "--decorate" \in V
    BY ONLY <1>2, <1>4, OneMore
  <2>2. QED
    BY ONLY <1>4, <2>1
<1> HIDE DEF d
<1>6. /\ s \in Seq(W)
      /\ Given(a, {"-5"}) \/ (Mentioned(a, s, "--graph") /\ Mentioned(a, s, "--decorate"))
  BY <1>5 DEF Mentioned
<1> HIDE DEF s
<1> DEFINE words == o \o s
<1>7. words \in Seq(W) /\ \A V : Given(words, V) <=> Given(o, V) \/ Given(s, V)
  BY <1>3, <1>6, ConcatProperties, ConcatGiven
<1> HIDE DEF words
<1>8. Len(words) >= 1 => words[1] \in W
  BY <1>7
<1>9. words \in Seq(Word)
  <2>1. W \subseteq Word
    <3>1. "--oneline" \in Word /\ "--graph" \in Word /\ "--decorate" \in Word
      BY AddedAre
    <3>2. QED
      BY <3>1
  <2> HIDE DEF W
  <2>2. QED
    BY <1>7, <2>1
<1>10. /\ Mentioned(a, words, "--oneline")
       /\ Given(a, {"-5"}) \/ (Mentioned(a, words, "--graph") /\ Mentioned(a, words, "--decorate"))
  BY <1>3, <1>6, <1>7 DEF Mentioned
<1>11. LogWords(a) = words
  BY <1>1 DEF words
<1>12. QED
  BY <1>8, <1>9, <1>10, <1>11

\* Nothing is added to a git log that has it all.
LEMMA LogNothing ==
  ASSUME NEW a, Given(a, {"--oneline"}),
         Given(a, {"-5"}) \/ (Given(a, {"--graph"}) /\ Given(a, {"--decorate"}))
  PROVE  LogWords(a) = << >>
<1>1. << >> \o << >> = << >>
  OBVIOUS
<1>2. QED
  BY <1>1 DEF LogWords

\* git's words come behind its subcommand, or behind the first word like it.
LEMMA GitHandler ==
  ASSUME NEW Word, Added \subseteq Word, NEW argv \in Seq(Word)
  PROVE  Good(GitRewrite(argv), Word, argv, GitRewrite(GitRewrite(argv)))
<1> DEFINE at == GitSubcmdAt(argv)
           place == First(argv, GitSub(argv)) + 1
<1>1. Len(argv) \in Nat
  BY LenProperties, Zenon
<1>2. CASE GitSub(argv) \notin {"log", "status"}
  BY <1>2, WithinSelf, GitRewriteIs DEF Good
<1>3. ASSUME GitSub(argv) \in {"log", "status"}
      PROVE  /\ Subs(argv) # {} /\ GitSub(argv) = argv[at] /\ argv[at] \notin ValueOptions
             /\ place \in 1..(Len(argv) + 1) /\ First(argv, argv[at]) + 1 = place
  <2>1. at # 0 /\ GitSub(argv) = argv[at]
    BY <1>3 DEF GitSub
  <2>2. Subs(argv) # {}
    BY <2>1, GitSubcmdAtIs
  <2>3. argv[at] \notin ValueOptions
    BY <1>3, <2>1 DEF ValueOptions
  <2>4. First(argv, argv[at]) \in 1..at /\ at \in 2..Len(argv)
    BY <2>2, GitPlaces
  <2>5. QED
    BY <1>1, <2>1, <2>2, <2>3, <2>4
<1>4. ASSUME NEW words \in Seq(Word), Len(words) >= 1,
             words[1] \in {"--oneline", "--graph", "--decorate", "--porcelain"},
             GitSub(argv) \in {"log", "status"}
      PROVE  LET new == Put(argv, place, words)
             IN  /\ new \in Seq(Word) /\ Within(argv, new)
                 /\ \A V : Given(new, V) <=> Given(argv, V) \/ Given(words, V)
                 /\ GitSub(new) \in {GitSub(argv), words[1]}
                 /\ GitSub(new) = GitSub(argv) => First(new, GitSub(new)) + 1 \in 1..(Len(new) + 1)
  <2> DEFINE new == Put(argv, place, words)
  <2>1. words[1] \notin ValueOptions \cup GlobalOptions
    BY <1>4 DEF ValueOptions, GlobalOptions
  <2>2. new \in Seq(Word) /\ Subs(new) # {} /\ new[GitSubcmdAt(new)] \in {argv[at], words[1]}
    BY <1>3, <1>4, <2>1, GitSubAgain
  <2>3. Within(argv, new) /\ \A V : Given(new, V) <=> Given(argv, V) \/ Given(words, V)
    BY <1>3, <1>4, PutWithin, PutGiven
  <2> HIDE DEF new
  <2>4. GitSubcmdAt(new) \in 2..Len(new) /\ First(new, new[GitSubcmdAt(new)]) \in 1..GitSubcmdAt(new)
    BY <2>2, GitPlaces
  <2>5. Len(new) \in Nat
    BY <2>2, LenProperties, Zenon
  <2>6. GitSub(new) = new[GitSubcmdAt(new)]
    <3>1. GitSubcmdAt(new) # 0
      BY <2>4, <2>5
    <3>2. QED
      BY <3>1 DEF GitSub
  <2>7. First(new, GitSub(new)) + 1 \in 1..(Len(new) + 1)
    BY <2>4, <2>5, <2>6
  <2>8. QED
    BY <1>3, <1>4, <2>2, <2>3, <2>6, <2>7 DEF new
<1>5. CASE GitSub(argv) = "status"
  <2> DEFINE words == <<"--porcelain">>
             new == Put(argv, place, words)
  <2>1. CASE Given(argv, {"--porcelain", "--short", "-s"})
    BY <1>5, <2>1, WithinSelf, GitRewriteIs DEF Good
  <2>2. CASE ~Given(argv, {"--porcelain", "--short", "-s"})
    <3>1. GitRewrite(argv) = new
      BY <1>5, <2>2, GitRewriteIs
    <3>2. "--porcelain" \in Word
      BY AddedAre
    <3>3. /\ words \in Seq(Word) /\ Len(words) >= 1 /\ words[1] = "--porcelain"
          /\ Given(words, {"--porcelain", "--short", "-s"})
      <4>1. "--porcelain" \in {"--porcelain", "--short", "-s"}
        OBVIOUS
      <4>2. \A w \in Word : /\ <<w>> \in Seq(Word) /\ Len(<<w>>) = 1
                            /\ \A V : Given(<<w>>, V) <=> w \in V
        BY WordsGiven
      <4> HIDE DEF new
      <4>5. words \in Seq(Word) /\ Len(words) = 1 /\ Given(words, {"--porcelain", "--short", "-s"})
        BY <3>2, <4>1, <4>2
      <4>3. words[1] = "--porcelain"
        OBVIOUS
      <4>4. QED
        BY <4>5, <4>3
    <3>4. /\ new \in Seq(Word) /\ Within(argv, new)
          /\ Given(new, {"--porcelain", "--short", "-s"})
          /\ GitSub(new) \in {"status", "--porcelain"}
      BY <1>4, <1>5, <3>3
    <3> HIDE DEF new
    <3>5. GitRewrite(new) = new
      BY <3>4, GitRewriteIs
    <3>6. QED
      BY <3>1, <3>4, <3>5 DEF Good
  <2>3. QED
    BY <2>1, <2>2
<1>6. CASE GitSub(argv) = "log"
  <2> DEFINE words == LogWords(argv)
             new == Put(argv, place, words)
  <2>1. GitRewrite(argv) = new
    BY <1>6, GitRewriteIs
  <2>2. /\ words \in Seq(Word)
        /\ Len(words) >= 1 => words[1] \in {"--oneline", "--graph", "--decorate"}
        /\ Mentioned(argv, words, "--oneline")
        /\ Given(argv, {"-5"}) \/ (Mentioned(argv, words, "--graph") /\ Mentioned(argv, words, "--decorate"))
    BY LogWordsAre
  <2> HIDE DEF words
  <2>3. CASE words = << >>
    <3>1. new = argv
      BY <1>3, <1>6, <2>3, PutNothing
    <3>2. QED
      BY <2>1, <3>1, WithinSelf DEF Good
  <2>4. CASE words # << >>
    <3>1. Len(words) >= 1
      BY <2>2, <2>4, EmptySeq, LenProperties
    <3>2. /\ new \in Seq(Word) /\ Within(argv, new)
          /\ \A V : Given(new, V) <=> Given(argv, V) \/ Given(words, V)
          /\ GitSub(new) \in {"log", words[1]}
          /\ GitSub(new) = "log" => First(new, GitSub(new)) + 1 \in 1..(Len(new) + 1)
      BY <1>4, <1>6, <2>2, <3>1
    <3> HIDE DEF new
    <3>3. LogWords(new) = << >>
      BY <2>2, <3>2, LogNothing DEF Mentioned
    <3>4. CASE GitSub(new) = "log"
      BY <2>1, <3>2, <3>3, <3>4, GitRewriteIs, PutNothing DEF Good
    <3>5. CASE GitSub(new) # "log"
      <4>1. GitSub(new) \in {"--oneline", "--graph", "--decorate"}
        BY <2>2, <3>1, <3>2, <3>5
      <4>2. GitRewrite(new) = new
        BY <4>1, GitRewriteIs
      <4>3. QED
        BY <2>1, <3>2, <4>2 DEF Good
    <3>6. QED
      BY <3>4, <3>5
  <2>5. QED
    BY <2>3, <2>4
<1>7. QED
  BY <1>2, <1>5, <1>6

\* A handler's rewrite, whichever it is.
LEMMA HandlerGood ==
  ASSUME NEW Word, Added \subseteq Word, NEW argv \in Seq(Word), NEW handler, handler # "vitest"
  PROVE  Good(RewriteArgs(handler, argv), Word, argv,
              RewriteArgs(handler, RewriteArgs(handler, argv)))
<1> DEFINE handled == {"git", "cargo", "docker", "find", "go", "grep", "jest", "npm", "pip", "pytest",
                       "aws", "journalctl", "kubectl", "ruff", "terraform", "brew", "helm", "tree",
                       "make", "mypy", "nx", "playwright", "rspec", "rubocop", "tsc", "wget"}
<1>1. CASE handler = "git"
  <2>1. \A a : RewriteArgs(handler, a) = GitRewrite(a)
    BY <1>1 DEF RewriteArgs
  <2>2. QED
    BY <2>1, GitHandler
<1>2. CASE handler = "cargo"
  <2>1. \A a : RewriteArgs(handler, a) = CargoRewrite(a)
    BY <1>2 DEF RewriteArgs
  <2>2. QED
    BY <2>1, CargoHandler
<1>3. CASE handler = "docker"
  <2>1. \A a : RewriteArgs(handler, a) = DockerRewrite(a)
    BY <1>3 DEF RewriteArgs
  <2>2. QED
    BY <2>1, DockerHandler
<1>4. CASE handler = "find"
  <2>1. \A a : RewriteArgs(handler, a) = FindRewrite(a)
    BY <1>4 DEF RewriteArgs
  <2>2. QED
    BY <2>1, FindHandler
<1>5. CASE handler = "go"
  <2>1. \A a : RewriteArgs(handler, a) = GoRewrite(a)
    BY <1>5 DEF RewriteArgs
  <2>2. QED
    BY <2>1, GoHandler
<1>6. CASE handler = "grep"
  <2>1. \A a : RewriteArgs(handler, a) = GrepRewrite(a)
    BY <1>6 DEF RewriteArgs
  <2>2. QED
    BY <2>1, ChainHandlers
<1>7. CASE handler = "jest"
  <2>1. \A a : RewriteArgs(handler, a) = JestRewrite(a)
    BY <1>7 DEF RewriteArgs
  <2>2. QED
    BY <2>1, ChainHandlers
<1>8. CASE handler = "pytest"
  <2>1. \A a : RewriteArgs(handler, a) = PytestRewrite(a)
    BY <1>8 DEF RewriteArgs
  <2>2. QED
    BY <2>1, ChainHandlers
<1>9. CASE handler = "journalctl"
  <2>1. \A a : RewriteArgs(handler, a) = JournalctlRewrite(a)
    BY <1>9 DEF RewriteArgs
  <2>2. QED
    BY <2>1, ChainHandlers
<1>10. CASE handler = "npm"
  <2>1. \A a : RewriteArgs(handler, a) = NpmRewrite(a)
    BY <1>10 DEF RewriteArgs
  <2>2. QED
    BY <2>1, NpmHandler
<1>11. CASE handler = "pip"
  <2>1. \A a : RewriteArgs(handler, a) = PipRewrite(a)
    BY <1>11 DEF RewriteArgs
  <2>2. QED
    BY <2>1, PipHandler
<1>12. CASE handler = "aws"
  <2>1. \A a : RewriteArgs(handler, a) = AwsRewrite(a)
    BY <1>12 DEF RewriteArgs
  <2>2. QED
    BY <2>1, AwsHandler
<1>13. CASE handler = "kubectl"
  <2>1. \A a : RewriteArgs(handler, a) = KubectlRewrite(a)
    BY <1>13 DEF RewriteArgs
  <2>2. QED
    BY <2>1, SubcommandHandlers
<1>14. CASE handler = "ruff"
  <2>1. \A a : RewriteArgs(handler, a) = RuffRewrite(a)
    BY <1>14 DEF RewriteArgs
  <2>2. QED
    BY <2>1, SubcommandHandlers
<1>15. CASE handler = "terraform"
  <2>1. \A a : RewriteArgs(handler, a) = TerraformRewrite(a)
    BY <1>15 DEF RewriteArgs
  <2>2. QED
    BY <2>1, SubcommandHandlers
<1>16. CASE handler = "brew"
  <2>1. \A a : RewriteArgs(handler, a) = BrewRewrite(a)
    BY <1>16 DEF RewriteArgs
  <2>2. QED
    BY <2>1, SubcommandHandlers
<1>17. CASE handler = "helm"
  <2>1. \A a : RewriteArgs(handler, a) = HelmRewrite(a)
    BY <1>17 DEF RewriteArgs
  <2>2. QED
    BY <2>1, SubcommandHandlers
<1>18. CASE handler = "tree"
  <2>1. \A a : RewriteArgs(handler, a) = TreeRewrite(a)
    BY <1>18 DEF RewriteArgs
  <2>2. QED
    BY <2>1, AppendingHandlers
<1>19. CASE handler = "make"
  <2>1. \A a : RewriteArgs(handler, a) = MakeRewrite(a)
    BY <1>19 DEF RewriteArgs
  <2>2. QED
    BY <2>1, AppendingHandlers
<1>20. CASE handler = "mypy"
  <2>1. \A a : RewriteArgs(handler, a) = MypyRewrite(a)
    BY <1>20 DEF RewriteArgs
  <2>2. QED
    BY <2>1, AppendingHandlers
<1>21. CASE handler = "nx"
  <2>1. \A a : RewriteArgs(handler, a) = NxRewrite(a)
    BY <1>21 DEF RewriteArgs
  <2>2. QED
    BY <2>1, AppendingHandlers
<1>22. CASE handler = "playwright"
  <2>1. \A a : RewriteArgs(handler, a) = PlaywrightRewrite(a)
    BY <1>22 DEF RewriteArgs
  <2>2. QED
    BY <2>1, AppendingHandlers
<1>23. CASE handler = "rspec"
  <2>1. \A a : RewriteArgs(handler, a) = RspecRewrite(a)
    BY <1>23 DEF RewriteArgs
  <2>2. QED
    BY <2>1, AppendingHandlers
<1>24. CASE handler = "rubocop"
  <2>1. \A a : RewriteArgs(handler, a) = RubocopRewrite(a)
    BY <1>24 DEF RewriteArgs
  <2>2. QED
    BY <2>1, AppendingHandlers
<1>25. CASE handler = "tsc"
  <2>1. \A a : RewriteArgs(handler, a) = TscRewrite(a)
    BY <1>25 DEF RewriteArgs
  <2>2. QED
    BY <2>1, AppendingHandlers
<1>26. CASE handler = "wget"
  <2>1. \A a : RewriteArgs(handler, a) = WgetRewrite(a)
    BY <1>26 DEF RewriteArgs
  <2>2. QED
    BY <2>1, AppendingHandlers
<1>27. CASE handler \notin handled
  <2>1. \A a : RewriteArgs(handler, a) = a
    BY <1>27 DEF RewriteArgs
  <2>2. QED
    BY <2>1, WithinSelf DEF Good
<1>28. QED
  BY <1>1, <1>2, <1>3, <1>4, <1>5, <1>6, <1>7, <1>8, <1>9, <1>10, <1>11, <1>12, <1>13, <1>14,
     <1>15, <1>16, <1>17, <1>18, <1>19, <1>20, <1>21, <1>22, <1>23, <1>24, <1>25, <1>26, <1>27

(***************************************************************************)
(* Whatever the command and its length, a rewrite keeps every word that was   *)
(* typed, in the order it was typed: a handler puts words in, at the end or   *)
(* behind a subcommand, a path or the first word like the subcommand, and     *)
(* takes none out (rewrite_args of the handlers).  vitest's is left out: it    *)
(* replaces a reporter of the user's.                                        *)
(***************************************************************************)
THEOREM RewritesKeepWords ==
  ASSUME NEW Word, NEW argv \in Seq(Word), NEW handler, handler # "vitest"
  PROVE  Within(argv, RewriteArgs(handler, argv))
<1> DEFINE words == Word \cup Added
<1>1. argv \in Seq(words) /\ Added \subseteq words
  OBVIOUS
<1> HIDE DEF words
<1>2. QED
  BY <1>1, HandlerGood DEF Good

(***************************************************************************)
(* What has been rewritten is rewritten to itself.  The hook before a        *)
(* command rewrites the words (rewrite.rs) and `panda run`, which the shell   *)
(* then runs, rewrites what it was given once more (run.rs): no flag comes    *)
(* twice.  The tests "should not add a second --tail" of docker.rs and its    *)
(* like each try one command.                                                *)
(***************************************************************************)
THEOREM RewritesOnce ==
  ASSUME NEW Word, NEW argv \in Seq(Word), NEW handler, handler # "vitest"
  PROVE  RewriteArgs(handler, RewriteArgs(handler, argv)) = RewriteArgs(handler, argv)
<1> DEFINE words == Word \cup Added
<1>1. argv \in Seq(words) /\ Added \subseteq words
  OBVIOUS
<1> HIDE DEF words
<1>2. QED
  BY <1>1, HandlerGood DEF Good

-----------------------------------------------------------------------------
\* Loops over the lines of an output, lines in order, and what filters build of both.

\* A loop: start, and for each i the function F[i] of what came before.
Loop(f, start, F, n) == f = [i \in 0..n |-> IF i = 0 THEN start ELSE F[i][f[i - 1]]]

\* There is such a loop for every start and step.
LEMMA LoopExists ==
  ASSUME NEW n \in Nat, NEW F, NEW start
  PROVE  \E f : Loop(f, start, F, n)
<1> DEFINE S == {m \in 1..n : ~ \E f : Loop(f, start, F, m)}
<1>1. \E f : Loop(f, start, F, 0)
  <2>1. Loop([i \in 0..0 |-> start], start, F, 0)
    BY DEF Loop
  <2>2. QED
    BY <2>1
<1>2. CASE S = {}
  BY <1>1, <1>2
<1>3. CASE S # {}
  <2>1. PICK m \in S : \A j \in S : m <= j
    BY ONLY <1>3, n \in Nat, Least
  <2>2. m \in 1..n /\ m - 1 \in 0..n /\ m - 1 \notin S
    BY <2>1
  <2>3. PICK f : Loop(f, start, F, m - 1)
    BY <1>1, <2>2
  <2> DEFINE g == [i \in 0..m |-> IF i = m THEN F[m][f[m - 1]] ELSE f[i]]
  <2>4. \A i \in 0..(m - 1) : f[i] = (IF i = 0 THEN start ELSE F[i][f[i - 1]]) /\ g[i] = f[i]
    BY <2>2, <2>3 DEF Loop
  <2>5. ASSUME NEW i \in 0..m
        PROVE  g[i] = IF i = 0 THEN start ELSE F[i][g[i - 1]]
    <3>1. CASE i = m
      <4>1. m - 1 \in 0..(m - 1) /\ m # 0
        BY <2>2
      <4>2. g[m - 1] = f[m - 1]
        BY <2>4, <4>1
      <4>3. g[m] = F[m][f[m - 1]]
        BY <2>2
      <4>4. QED
        BY <3>1, <4>1, <4>2, <4>3
    <3>2. CASE i # m
      <4>1. i \in 0..(m - 1) /\ (i # 0 => i - 1 \in 0..(m - 1))
        BY <2>2, <3>2
      <4>2. QED
        BY <2>4, <4>1
    <3>3. QED
      BY <3>1, <3>2
  <2>6. Loop(g, start, F, m)
    BY <2>5 DEF Loop
  <2>7. QED
    BY <2>1, <2>6
<1>4. QED
  BY <1>2, <1>3

\* What holds at the start and after each step holds at the end.
LEMMA LoopKeeps ==
  ASSUME NEW n \in Nat, NEW I, NEW h, h[0] \in I[0],
         \A i \in 1..n : h[i - 1] \in I[i - 1] => h[i] \in I[i]
  PROVE  \A i \in 0..n : h[i] \in I[i]
<1> DEFINE S == {m \in 1..n : h[m] \notin I[m]}
<1>1. CASE S = {}
  BY <1>1
<1>2. CASE S # {}
  <2>1. PICK m \in S : \A j \in S : m <= j
    BY ONLY <1>2, n \in Nat, Least
  <2>2. m \in 1..n /\ m - 1 \in 0..n /\ m - 1 \notin S
    BY <2>1
  <2>3. h[m - 1] \in I[m - 1]
    BY <2>2
  <2>4. QED
    BY <2>1, <2>2, <2>3
<1>3. QED
  BY <1>1, <1>2

\* The sequences of entries that show lines of an output of n lines and write
\* notes with the names N.
Entries(N, n) == ({"line"} \X (1..n)) \cup (N \X Int)
Outputs(N, n) == Seq(Entries(N, n))

\* A loop whose steps stay in a set has its values there.
LEMMA LoopIn ==
  ASSUME NEW n \in Nat, NEW X, NEW start \in X, NEW F, \A i \in 1..n : \A x \in X : F[i][x] \in X
  PROVE  \E f : Loop(f, start, F, n) /\ \A i \in 0..n : f[i] \in X
<1>1. PICK f : Loop(f, start, F, n)
  BY LoopExists
<1> DEFINE I == [i \in 0..n |-> X]
<1>2. /\ f[0] \in I[0]
      /\ \A i \in 1..n : f[i - 1] \in I[i - 1] => f[i] \in I[i]
  BY <1>1 DEF Loop
<1>3. \A i \in 0..n : f[i] \in I[i]
  <2> HIDE DEF I
  <2>1. QED
    BY <1>2, LoopKeeps
<1>4. QED
  BY <1>1, <1>3

\* The lines of S in order: all of them, and no other.
LEMMA InOrderIs ==
  ASSUME NEW S, NEW Kind, NEW t \in Seq(Kind)
  PROVE  /\ InOrder(S, t) \in Seq(1..Len(t))
         /\ \A j \in 1..Len(InOrder(S, t)) : InOrder(S, t)[j] \in S
         /\ \A i \in S \cap (1..Len(t)) : \E j \in 1..Len(InOrder(S, t)) : InOrder(S, t)[j] = i
<1>1. Len(t) \in Nat
  BY LenProperties, Zenon
<1> DEFINE n == Len(t)
           X == Seq(1..n)
           F == [i \in 1..n |-> [s \in X |-> IF i \in S THEN Append(s, i) ELSE s]]
           e(f) == [i \in 0..Len(t) |-> IF i = 0 THEN <<>> ELSE IF i \in S THEN Append(f[i - 1], i) ELSE f[i - 1]]
           Q == CHOOSE f : f = e(f)
<1>2. \E f : f = e(f)
  <2>1. <<>> \in X /\ \A i \in 1..n : \A x \in X : F[i][x] \in X
    <3>1. \A i \in 1..n : \A x \in X : Append(x, i) \in X
      OBVIOUS
    <3>2. <<>> \in X
      OBVIOUS
    <3> HIDE DEF X
    <3>3. QED
      BY <3>1, <3>2
  <2>2. PICK f : Loop(f, <<>>, F, n) /\ \A i \in 0..n : f[i] \in X
    <3> HIDE DEF X, F
    <3>1. QED
      BY <1>1, <2>1, LoopIn
  <2>3. f = e(f)
    <3>1. f = [i \in 0..n |-> IF i = 0 THEN <<>> ELSE F[i][f[i - 1]]]
      BY <2>2 DEF Loop
    <3>2. ASSUME NEW i \in 0..n, i # 0
          PROVE  F[i][f[i - 1]] = IF i \in S THEN Append(f[i - 1], i) ELSE f[i - 1]
      <4>1. i \in 1..n /\ i - 1 \in 0..n
        BY <1>1, <3>2
      <4>2. f[i - 1] \in X
        BY <2>2, <4>1
      <4> HIDE DEF X
      <4>3. QED
        BY <4>1, <4>2
    <3> HIDE DEF F
    <3>3. QED
      BY <3>1, <3>2
  <2>4. QED
    BY <2>3
<1>3. Q = e(Q)
  BY <1>2
<1>4. InOrder(S, t) = Q[n]
  BY DEF InOrder, Scan
<1> HIDE DEF Q
<1> DEFINE Holds(i) == {s \in X : /\ \A j \in 1..Len(s) : s[j] \in S
                                 /\ \A k \in S \cap (1..i) : \E j \in 1..Len(s) : s[j] = k}
           I == [i \in 0..n |-> Holds(i)]
<1>5. Q[0] \in Holds(0)
  BY <1>1, <1>3
<1>6. ASSUME NEW i \in 1..n, Q[i - 1] \in Holds(i - 1)
      PROVE  Q[i] \in Holds(i)
  <2> DEFINE s == Q[i - 1]
  <2>1. Q[i] = IF i \in S THEN Append(s, i) ELSE s
    <3>1. i \in 0..Len(t) /\ i # 0
      BY <1>1
    <3>2. QED
      BY <1>3, <3>1
  <2>2. s \in X /\ (\A j \in 1..Len(s) : s[j] \in S) /\ \A k \in S \cap (1..(i - 1)) : \E j \in 1..Len(s) : s[j] = k
    BY <1>6
  <2> HIDE DEF s
  <2>3. CASE i \in S
    <3>1. /\ Append(s, i) \in X /\ Len(s) \in Nat /\ Len(Append(s, i)) = Len(s) + 1
          /\ Append(s, i)[Len(s) + 1] = i
          /\ \A j \in 1..Len(s) : Append(s, i)[j] = s[j]
      BY <2>2
    <3>2. \A j \in 1..(Len(s) + 1) : Append(s, i)[j] \in S
      BY <2>2, <2>3, <3>1
    <3>3. \A k \in S \cap (1..i) : \E j \in 1..(Len(s) + 1) : Append(s, i)[j] = k
      <4>1. TAKE k \in S \cap (1..i)
      <4>2. CASE k = i
        BY <3>1, <4>2
      <4>3. CASE k # i
        <5>1. k \in S \cap (1..(i - 1))
          BY <1>1, <4>3
        <5>2. PICK j \in 1..Len(s) : s[j] = k
          BY <2>2, <5>1
        <5>3. QED
          BY <3>1, <5>2
      <4>4. QED
        BY <4>2, <4>3
    <3>4. QED
      BY <2>1, <2>3, <3>1, <3>2, <3>3
  <2>4. CASE i \notin S
    <3>1. S \cap (1..i) = S \cap (1..(i - 1))
      BY <1>1, <2>4
    <3>2. QED
      BY <2>1, <2>2, <2>4, <3>1
  <2>5. QED
    BY <2>3, <2>4
<1>7. \A i \in 0..n : Q[i] \in I[i]
  <2>1. /\ Q[0] \in I[0]
        /\ \A i \in 1..n : Q[i - 1] \in I[i - 1] => Q[i] \in I[i]
    <3>1. \A i \in 1..n : i \in 0..n /\ i - 1 \in 0..n
      BY <1>1
    <3> HIDE DEF Holds
    <3>2. I[0] = Holds(0) /\ \A i \in 1..n : I[i] = Holds(i) /\ I[i - 1] = Holds(i - 1)
      BY <1>1, <3>1
    <3> HIDE DEF I
    <3>3. QED
      BY <1>5, <1>6, <3>2
  <2> HIDE DEF I
  <2>2. QED
    BY <1>1, <2>1, LoopKeeps
<1>8. Q[n] \in Holds(n)
  BY <1>1, <1>7
<1>9. QED
  BY <1>4, <1>8
\* The smaller and the larger of two numbers, as the handlers take them.
LEMMA MinMax ==
  ASSUME NEW a \in Int, NEW b \in Int
  PROVE  /\ Min({a, b}) = IF a <= b THEN a ELSE b
         /\ Max({a, b}) = IF a >= b THEN a ELSE b
<1>1. \E x \in {a, b} : \A y \in {a, b} : x <= y
  OBVIOUS
<1>2. \E x \in {a, b} : \A y \in {a, b} : x >= y
  OBVIOUS
<1>3. Min({a, b}) \in {a, b} /\ \A y \in {a, b} : Min({a, b}) <= y
  BY <1>1 DEF Min
<1>4. Max({a, b}) \in {a, b} /\ \A y \in {a, b} : Max({a, b}) >= y
  BY <1>2 DEF Max
<1>5. QED
  BY <1>3, <1>4

\* The lines of the kinds K: none exactly when there is none.
LEMMA AtIs ==
  ASSUME NEW Kind, NEW t \in Seq(Kind), NEW K
  PROVE  /\ At(t, K) \in Seq(1..Len(t))
         /\ At(t, K) # <<>> <=> Has(t, K)
         /\ \A j \in 1..Len(At(t, K)) : t[At(t, K)[j]] \in K
         /\ \A i \in 1..Len(t) : t[i] \in K => \E j \in 1..Len(At(t, K)) : At(t, K)[j] = i
<1> DEFINE S == {i \in DOMAIN t : t[i] \in K}
           w == At(t, K)
<1>1. DOMAIN t = 1..Len(t)
  BY LenProperties, Zenon
<1>2. w = InOrder(S, t)
  BY DEF At, Where
<1>3. /\ w \in Seq(1..Len(t))
      /\ \A j \in 1..Len(w) : w[j] \in S
      /\ \A i \in S \cap (1..Len(t)) : \E j \in 1..Len(w) : w[j] = i
  <2> HIDE DEF S
  <2>1. QED
    BY <1>2, InOrderIs
<1> HIDE DEF w
<1>4. Len(w) \in Nat /\ (w # <<>> <=> Len(w) # 0)
  BY <1>3
<1>5. w # <<>> => Has(t, K)
  BY <1>3, <1>4 DEF Has
<1>6. Has(t, K) => w # <<>>
  <2>1. SUFFICES ASSUME NEW i \in DOMAIN t, t[i] \in K  PROVE w # <<>>
    BY DEF Has
  <2>2. PICK j \in 1..Len(w) : w[j] = i
    BY <1>1, <1>3, <2>1
  <2>3. QED
    BY <1>4, <2>2
<1>7. QED
  <2>1. \A i \in 1..Len(t) : t[i] \in K => i \in S \cap (1..Len(t))
    BY <1>1
  <2>2. \A j \in 1..Len(w) : t[w[j]] \in K
    BY <1>3
  <2> HIDE DEF S
  <2>3. \A i \in 1..Len(t) : t[i] \in K => \E j \in 1..Len(w) : w[j] = i
    BY <1>3, <2>1
  <2>4. QED
    BY <1>3, <1>5, <1>6, <2>2, <2>3 DEF w

\* The first n elements of s and the last n.
LEMMA TakeIs ==
  ASSUME NEW X, NEW s \in Seq(X), NEW n \in Nat
  PROVE  /\ Take(s, n) \in Seq(X)
         /\ Len(Take(s, n)) = IF n <= Len(s) THEN n ELSE Len(s)
         /\ \A j \in 1..Len(Take(s, n)) : Take(s, n)[j] = s[j]
         /\ n > 0 => (Take(s, n) # <<>> <=> s # <<>>)
<1>1. Len(s) \in Nat /\ \A i \in 1..Len(s) : s[i] \in X
  BY LenProperties, ElementOfSeq
<1> DEFINE m == Min({n, Len(s)})
<1>2. m = IF n <= Len(s) THEN n ELSE Len(s)
  BY <1>1, MinMax
<1> HIDE DEF m
<1>3. m \in Nat /\ 1 \in Int /\ \A i \in 1..m : s[i] \in X
  <2>1. m \in Nat /\ m <= Len(s)
    BY <1>1, <1>2
  <2>2. QED
    BY <1>1, <2>1
<1>4. /\ SubSeq(s, 1, m) \in Seq(X)
      /\ Len(SubSeq(s, 1, m)) = IF 1 <= m THEN m - 1 + 1 ELSE 0
      /\ \A i \in 1..(m - 1 + 1) : SubSeq(s, 1, m)[i] = s[1 + i - 1]
  BY <1>3, SubSeqProperties
<1> DEFINE q == Take(s, n)
<1>5. q = SubSeq(s, 1, m)
  BY DEF Take, m
<1>6. q \in Seq(X) /\ Len(q) = m /\ \A j \in 1..Len(q) : q[j] = s[j]
  BY <1>3, <1>4, <1>5
<1> HIDE DEF q
<1>7. n > 0 => (q # <<>> <=> s # <<>>)
  BY <1>1, <1>2, <1>6
<1>8. QED
  BY <1>2, <1>6, <1>7 DEF q

\* The last n elements of s: none exactly when s is empty.
LEMMA FinalIs ==
  ASSUME NEW X, NEW s \in Seq(X), NEW n \in Nat
  PROVE  /\ Final(s, n) \in Seq(X)
         /\ Len(Final(s, n)) = IF n <= Len(s) THEN n ELSE Len(s)
         /\ \A j \in 1..Len(Final(s, n)) : Final(s, n)[j] = s[Len(s) - Len(Final(s, n)) + j]
         /\ n > 0 => (Final(s, n) # <<>> <=> s # <<>>)
<1>1. Len(s) \in Nat /\ \A i \in 1..Len(s) : s[i] \in X
  BY LenProperties, ElementOfSeq
<1> DEFINE m == Max({1, Len(s) - n + 1})
<1>2. m = IF 1 >= Len(s) - n + 1 THEN 1 ELSE Len(s) - n + 1
  <2>1. 1 \in Int /\ Len(s) - n + 1 \in Int
    BY <1>1
  <2>2. QED
    BY <2>1, MinMax
<1>3. m \in Nat /\ m >= 1 /\ m <= Len(s) + 1 /\ \A i \in m..Len(s) : s[i] \in X
  <2> HIDE DEF m
  <2>1. m \in Nat /\ m >= 1 /\ m <= Len(s) + 1
    BY <1>1, <1>2
  <2>2. QED
    BY <1>1, <2>1
<1> DEFINE q == Final(s, n)
<1>4. q = SubSeq(s, m, Len(s))
  BY DEF Final
<1>5. m \in Int /\ Len(s) \in Int
  BY <1>1, <1>3
<1>6. Len(s) - m + 1 = IF n <= Len(s) THEN n ELSE Len(s)
  BY <1>1, <1>2
<1> HIDE DEF m, q
<1>7. /\ q \in Seq(X)
      /\ Len(q) = IF m <= Len(s) THEN Len(s) - m + 1 ELSE 0
      /\ \A i \in 1..(Len(s) - m + 1) : q[i] = s[m + i - 1]
  BY <1>3, <1>4, <1>5, SubSeqProperties
<1>8. Len(q) = Len(s) - m + 1
  BY <1>1, <1>3, <1>7
<1>9. \A j \in 1..Len(q) : q[j] = s[Len(s) - Len(q) + j]
  BY <1>1, <1>3, <1>7, <1>8
<1>10. n > 0 => (q # <<>> <=> s # <<>>)
  BY <1>1, <1>6, <1>7, <1>8
<1>11. QED
  BY <1>6, <1>7, <1>8, <1>9, <1>10 DEF q

\* The pieces a filter's output is built of.
LEMMA NoteIs ==
  ASSUME NEW N, NEW n, NEW what \in N, NEW k \in Int
  PROVE  Note(what, k) \in Outputs(N, n) /\ Len(Note(what, k)) = 1 /\ Note(what, k)[1] = <<what, k>>
BY DEF Note, Outputs, Entries

\* Lines of rows: none exactly when there are no rows.
LEMMA LinesIs ==
  ASSUME NEW N, NEW n \in Nat, NEW s \in Seq(1..n)
  PROVE  /\ Lines(s) \in Outputs(N, n)
         /\ Len(Lines(s)) = Len(s)
         /\ \A j \in 1..Len(s) : Lines(s)[j] = <<"line", s[j]>>
         /\ Lines(s) # <<>> <=> s # <<>>
<1>1. Len(s) \in Nat /\ DOMAIN s = 1..Len(s) /\ \A j \in 1..Len(s) : s[j] \in 1..n
  BY LenProperties, ElementOfSeq
<1>2. Lines(s) = [j \in 1..Len(s) |-> <<"line", s[j]>>]
  BY <1>1 DEF Lines, Line
<1>3. \A j \in 1..Len(s) : <<"line", s[j]>> \in Entries(N, n)
  BY <1>1 DEF Entries
<1>4. Lines(s) \in Outputs(N, n) /\ Len(Lines(s)) = Len(s)
  BY <1>1, <1>2, <1>3 DEF Outputs
<1>5. QED
  BY <1>1, <1>2, <1>4

\* An output shown whole, which is nothing only for an empty one.
LEMMA WholeIs ==
  ASSUME NEW N, NEW Kind, NEW t \in Seq(Kind)
  PROVE  /\ Whole(t) \in Outputs(N, Len(t))
         /\ Len(Whole(t)) = Len(t)
         /\ \A i \in 1..Len(t) : Whole(t)[i] = <<"line", i>>
<1>1. Len(t) \in Nat /\ DOMAIN t = 1..Len(t)
  BY LenProperties
<1>2. Whole(t) = [i \in 1..Len(t) |-> <<"line", i>>]
  BY <1>1 DEF Whole, Line
<1>3. \A i \in 1..Len(t) : <<"line", i>> \in Entries(N, Len(t))
  BY <1>1 DEF Entries
<1>4. Whole(t) \in Outputs(N, Len(t)) /\ Len(Whole(t)) = Len(t)
  BY <1>1, <1>2, <1>3 DEF Outputs
<1>5. QED
  BY <1>1, <1>2, <1>4

\* Outputs written after each other: nothing exactly when both are.
LEMMA JoinIs ==
  ASSUME NEW N, NEW n, NEW a \in Outputs(N, n), NEW b \in Outputs(N, n)
  PROVE  a \o b \in Outputs(N, n) /\ (a \o b # <<>> <=> a # <<>> \/ b # <<>>)
BY DEF Outputs

\* Nothing is an output.
LEMMA SilentIs ==
  ASSUME NEW N, NEW n
  PROVE  <<>> \in Outputs(N, n)
BY DEF Outputs

\* A count is written when it is above 0.
LEMMA CountedIs ==
  ASSUME NEW N, NEW n, NEW what \in N, NEW k \in Int
  PROVE  Counted(what, k) \in Outputs(N, n) /\ (Counted(what, k) # <<>> <=> k > 0)
<1>1. CASE k > 0
  <2>1. Counted(what, k) = Note(what, k)
    BY <1>1 DEF Counted
  <2>2. QED
    BY <1>1, <2>1, NoteIs
<1>2. CASE ~(k > 0)
  BY <1>2, SilentIs DEF Counted
<1>3. QED
  BY <1>1, <1>2

\* The first limit of the rows and a note on the others.
LEMMA CappedIs ==
  ASSUME NEW N, NEW n \in Nat, NEW s \in Seq(1..n), NEW k \in Nat \ {0}, NEW what \in N
  PROVE  /\ More(s, k, what) \in Outputs(N, n)
         /\ Capped(s, k, what) \in Outputs(N, n)
         /\ Capped(s, k, what) # <<>> <=> s # <<>>
<1>1. Len(s) \in Nat /\ (s # <<>> <=> Len(s) # 0)
  OBVIOUS
<1>2. More(s, k, what) \in Outputs(N, n) /\ (More(s, k, what) # <<>> => s # <<>>)
  <2>1. CASE Len(s) > k
    <3>1. More(s, k, what) = Note(what, Len(s) - k) /\ Len(s) - k \in Int
      BY <1>1, <2>1 DEF More
    <3>2. QED
      BY <1>1, <2>1, <3>1, NoteIs
  <2>2. CASE ~(Len(s) > k)
    BY <2>2, SilentIs DEF More
  <2>3. QED
    BY <2>1, <2>2
<1>3. Take(s, k) \in Seq(1..n) /\ (Take(s, k) # <<>> <=> s # <<>>)
  BY TakeIs
<1>4. Lines(Take(s, k)) \in Outputs(N, n) /\ (Lines(Take(s, k)) # <<>> <=> s # <<>>)
  BY <1>3, LinesIs
<1>5. QED
  BY <1>2, <1>4, JoinIs DEF Capped

\* The whole output in place of nothing.
LEMMA OrWholeIs ==
  ASSUME NEW N, NEW Kind, NEW t \in Seq(Kind), NEW o \in Outputs(N, Len(t))
  PROVE  OrWhole(o, t) \in Outputs(N, Len(t))
<1>1. CASE o = <<>>
  <2>1. OrWhole(o, t) = Whole(t)
    BY <1>1 DEF OrWhole
  <2>2. QED
    BY <2>1, WholeIs
<1>2. CASE o # <<>>
  BY <1>2 DEF OrWhole
<1>3. QED
  BY <1>1, <1>2

\* The first lines of the kinds K.
LEMMA FirstOfIs ==
  ASSUME NEW Kind, NEW t \in Seq(Kind), NEW K
  PROVE  /\ FirstOf(t, K) \in Seq(1..Len(t))
         /\ Has(t, K) => FirstOf(t, K) # <<>>
         /\ \A j \in 1..Len(FirstOf(t, K)) : t[FirstOf(t, K)[j]] \in K
<1> DEFINE S == {i \in DOMAIN t : t[i] \in K /\ \A j \in 1..(i - 1) : t[j] # t[i]}
           w == FirstOf(t, K)
<1>1. DOMAIN t = 1..Len(t) /\ Len(t) \in Nat
  BY LenProperties, Zenon
<1>2. w = InOrder(S, t)
  BY DEF FirstOf, Where
<1>3. /\ w \in Seq(1..Len(t))
      /\ \A j \in 1..Len(w) : w[j] \in S
      /\ \A i \in S \cap (1..Len(t)) : \E j \in 1..Len(w) : w[j] = i
  <2> HIDE DEF S
  <2>1. QED
    BY <1>2, InOrderIs
<1>4. Has(t, K) => S # {}
  <2>1. SUFFICES ASSUME Has(t, K)  PROVE S # {}
    OBVIOUS
  <2> DEFINE T == {i \in 1..Len(t) : t[i] \in K}
  <2>2. T # {} /\ T \subseteq 1..Len(t)
    BY <1>1, <2>1 DEF Has
  <2>3. PICK i \in T : \A j \in T : i <= j
    <3> HIDE DEF T
    <3>1. QED
      BY <1>1, <2>2, Least
  <2>4. \A j \in 1..(i - 1) : j \in 1..Len(t) /\ j \notin T
    BY <1>1, <2>3
  <2>5. i \in S
    BY <1>1, <2>3, <2>4
  <2>6. QED
    BY <2>5
<1>5. S \subseteq 1..Len(t) /\ \A i \in S : t[i] \in K
  BY <1>1
<1> HIDE DEF w, S
<1>6. Has(t, K) => w # <<>>
  <2>1. SUFFICES ASSUME Has(t, K)  PROVE w # <<>>
    OBVIOUS
  <2>2. PICK i \in S : TRUE
    BY <1>4, <2>1
  <2>3. PICK j \in 1..Len(w) : w[j] = i
    BY <1>3, <1>5, <2>2
  <2>4. QED
    BY <2>3
<1>7. QED
  BY <1>3, <1>5, <1>6 DEF w

\* The elements of s that Only picks: those at the places in S.
LEMMA ChosenIs ==
  ASSUME NEW X, NEW s \in Seq(X), NEW S
  PROVE  /\ [j \in DOMAIN InOrder(S, s) |-> s[InOrder(S, s)[j]]] \in Seq(X)
         /\ \A i \in S \cap (1..Len(s)) : \E j \in DOMAIN InOrder(S, s) : InOrder(S, s)[j] = i
         /\ \A j \in DOMAIN InOrder(S, s) : InOrder(S, s)[j] \in S \cap (1..Len(s))
<1> DEFINE w == InOrder(S, s)
<1>1. /\ w \in Seq(1..Len(s))
      /\ \A j \in 1..Len(w) : w[j] \in S
      /\ \A i \in S \cap (1..Len(s)) : \E j \in 1..Len(w) : w[j] = i
  BY InOrderIs
<1> HIDE DEF w
<1>2. DOMAIN w = 1..Len(w) /\ Len(w) \in Nat /\ \A j \in 1..Len(w) : w[j] \in 1..Len(s)
  BY <1>1, LenProperties, ElementOfSeq
<1>3. \A i \in 1..Len(s) : s[i] \in X
  BY ElementOfSeq
<1>4. [j \in DOMAIN w |-> s[w[j]]] \in Seq(X)
  BY <1>2, <1>3
<1>5. QED
  BY <1>1, <1>2, <1>4 DEF w

\* What is written after each other is what each of the parts is.
LEMMA FlattenIn ==
  ASSUME NEW X, NEW ss \in Seq(Seq(X))
  PROVE  FlattenSeq(ss) \in Seq(X)
<1>1. Len(ss) \in Nat /\ \A i \in 1..Len(ss) : ss[i] \in Seq(X)
  BY LenProperties, ElementOfSeq
<1> DEFINE n == Len(ss)
           Y == Seq(X)
           F == [i \in 1..n |-> [x \in Y |-> IF i = 1 THEN ss[i] ELSE x \o ss[i]]]
           e(f) == [i \in 1..Len(ss) |-> IF i = 1 THEN ss[i] ELSE f[i - 1] \o ss[i]]
           Q == CHOOSE f : f = e(f)
<1>2. CASE n = 0
  <2>1. FlattenSeq(ss) = ss /\ ss = <<>>
    BY <1>1, <1>2 DEF FlattenSeq
  <2>2. QED
    BY <2>1
<1>3. CASE n # 0
  <2>1. <<>> \in Y /\ \A i \in 1..n : \A x \in Y : F[i][x] \in Y
    <3>1. \A i \in 1..n : \A x \in Y : x \o ss[i] \in Y /\ ss[i] \in Y
      BY <1>1
    <3>2. <<>> \in Y
      OBVIOUS
    <3> HIDE DEF Y
    <3>3. QED
      BY <3>1, <3>2
  <2>2. PICK g : Loop(g, <<>>, F, n) /\ \A i \in 0..n : g[i] \in Y
    <3> HIDE DEF Y, F
    <3>1. QED
      BY <1>1, <2>1, LoopIn
  <2> DEFINE f == [i \in 1..n |-> g[i]]
  <2>3. \A i \in 1..n : g[i] = F[i][g[i - 1]] /\ g[i] \in Y /\ g[i - 1] \in Y
    <3> HIDE DEF Y, F
    <3>1. \A i \in 1..n : i \in 0..n /\ i - 1 \in 0..n /\ i # 0
      BY <1>1
    <3>2. QED
      BY <2>2, <3>1 DEF Loop
  <2>4. \A i \in 1..n : g[i] = IF i = 1 THEN ss[i] ELSE g[i - 1] \o ss[i]
    <3> HIDE DEF Y
    <3>1. QED
      BY <2>3
  <2>5. f = e(f)
    <3>1. \A i \in 1..n : i # 1 => i - 1 \in 1..n
      BY <1>1
    <3>2. \A i \in 1..n : f[i] = IF i = 1 THEN ss[i] ELSE f[i - 1] \o ss[i]
      BY <2>4, <3>1
    <3>3. QED
      BY <3>2
  <2>6. Q = e(Q)
    <3>1. \E h : h = e(h)
      BY <2>5
    <3>2. QED
      BY <3>1
  <2>7. FlattenSeq(ss) = Q[n]
    BY <1>3 DEF FlattenSeq
  <2> HIDE DEF Q
  <2> DEFINE I == [i \in 0..n |-> Y]
             h == [i \in 0..n |-> IF i = 0 THEN <<>> ELSE Q[i]]
  <2>8. \A i \in 1..n : Q[i] = IF i = 1 THEN ss[i] ELSE Q[i - 1] \o ss[i]
    BY <2>6
  <2>9. h[0] \in I[0] /\ \A i \in 1..n : h[i - 1] \in I[i - 1] => h[i] \in I[i]
    <3>1. h[0] \in I[0]
      BY <1>1
    <3>2. ASSUME NEW i \in 1..n, h[i - 1] \in I[i - 1]
          PROVE  h[i] \in I[i]
      <4>1. i \in 0..n /\ i - 1 \in 0..n /\ i # 0
        BY <1>1
      <4>2. CASE i = 1
        <5>1. Q[i] = ss[i] /\ ss[i] \in Y
          BY <1>1, <2>8, <4>2
        <5>2. QED
          BY <4>1, <5>1
      <4>3. CASE i # 1
        <5>1. i - 1 # 0
          BY <1>1, <4>1, <4>3
        <5>2. Q[i] = Q[i - 1] \o ss[i] /\ ss[i] \in Y
          BY <1>1, <2>8, <4>3
        <5>3. Q[i - 1] \in Y
          BY <3>2, <4>1, <5>1
        <5>4. Q[i] \in Y
          BY <5>2, <5>3
        <5> HIDE DEF Y
        <5>5. QED
          BY <4>1, <5>4
      <4>4. QED
        BY <4>2, <4>3
    <3>3. QED
      BY <3>1, <3>2
  <2>10. \A i \in 0..n : h[i] \in I[i]
    <3> HIDE DEF h, I
    <3>1. QED
      BY <1>1, <2>9, LoopKeeps
  <2>11. n \in 0..n /\ h[n] = Q[n]
    BY <1>1, <1>3
  <2>12. Q[n] \in Y
    BY <2>10, <2>11
  <2>13. QED
    BY <2>7, <2>12
<1>4. QED
  BY <1>2, <1>3

\* The sizes at which filters cut, and the sequences of numbers of lines of t.
Limits == Nat \ {0}
-----------------------------------------------------------------------------
\* What a filter builds of an output of any length.

\* Sequences of numbers of lines.
Rows(t) == Seq(1..Len(t))

\* What a filter picks of an output: lines of it.
Picks(t) ==
  /\ \A S : InOrder(S, t) \in Rows(t)
  /\ \A S : \A i \in S : i \in DOMAIN t => InOrder(S, t) # <<>>
  /\ \A K : At(t, K) \in Rows(t) /\ FirstOf(t, K) \in Rows(t)
  /\ \A K : Has(t, K) => FirstOf(t, K) # <<>>
  /\ \A K : \A j \in DOMAIN At(t, K) : t[At(t, K)[j]] \in K
  /\ \A K : \A j \in DOMAIN FirstOf(t, K) : t[FirstOf(t, K)[j]] \in K
  /\ Filled(t) \in Rows(t) /\ Every(t) \in Rows(t) /\ \A i \in DOMAIN t : Every(t) # <<>>
\* A cut leaves rows, and none exactly when there were none.
Cuts(t) ==
  \A s \in Rows(t) : \A k \in Limits :
    /\ Take(s, k) \in Rows(t) /\ (Take(s, k) # <<>> <=> s # <<>>)
    /\ Final(s, k) \in Rows(t) /\ (Final(s, k) # <<>> <=> s # <<>>)
    /\ \A j \in DOMAIN Take(s, k) : j \in DOMAIN s /\ Take(s, k)[j] = s[j]
\* The elements of s at the places in S, and s without its first.
Chosen(S, s) == [j \in DOMAIN InOrder(S, s) |-> s[InOrder(S, s)[j]]]
\* What is chosen of rows is rows of theirs.
ChosenIn(t) ==
  \A s \in Rows(t) :
    /\ \A S : Chosen(S, s) \in Rows(t)
    /\ \A S : \A i \in S : i \in DOMAIN s => Chosen(S, s) # <<>>
    /\ \A S : \A j \in DOMAIN Chosen(S, s) : \E i \in S : i \in DOMAIN s /\ Chosen(S, s)[j] = s[i]
    /\ s # <<>> => Tail(s) \in Rows(t)
    /\ \A j \in DOMAIN s : j # 1 => \E k \in DOMAIN Tail(s) : Tail(s)[k] = s[j]
    /\ \A j \in DOMAIN s : s[j] \in DOMAIN t
\* Every line of S is among the lines in order.
Complete(t) ==
  \A S : \A i \in S : i \in DOMAIN t => \E j \in DOMAIN InOrder(S, t) : InOrder(S, t)[j] = i
\* Counting lines gives numbers.
Counts(t) ==
  /\ \A K, L : Len(At(t, K)) + Len(At(t, L)) \in Int
  /\ \A s, r \in Rows(t) : Len(s) - Len(r) \in Int
  /\ \A i \in DOMAIN t : \A S : S \subseteq 1..(i - 1) /\ S # {} => Max(S) \in Int
\* Rows after rows are rows.
Chains(t) == \A s, r \in Rows(t) : s \o r \in Rows(t) /\ (s \o r # <<>> <=> s # <<>> \/ r # <<>>)

\* What is in a set O of outputs in which the notes have the names N.
AtIn(O, t) ==
  \A K : /\ Lines(At(t, K)) \in O
         /\ Lines(At(t, K)) # <<>> <=> Has(t, K)
         /\ At(t, K) # <<>> <=> Has(t, K)
         /\ Len(At(t, K)) \in Int
         /\ Has(t, K) => Len(At(t, K)) > 0
\* The first k lines of the kinds K.
TakeIn(O, t) ==
  \A K : \A k \in Limits :
       /\ Lines(Take(At(t, K), k)) \in O
       /\ Lines(Take(At(t, K), k)) # <<>> <=> Has(t, K)
       /\ Take(At(t, K), k) # <<>> <=> Has(t, K)
       /\ Len(Take(At(t, K), k)) \in Int
       /\ Has(t, K) => Len(Take(At(t, K), k)) > 0
\* The last k lines of the kinds K.
FinalIn(O, t) ==
  \A K : \A k \in Limits :
       /\ Lines(Final(At(t, K), k)) \in O
       /\ Lines(Final(At(t, K), k)) # <<>> <=> Has(t, K)
       /\ Final(At(t, K), k) # <<>> <=> Has(t, K)
\* The first k lines of the kinds K, and a note on the others.
CappedIn(O, N, t) ==
  \A K : \A k \in Limits : \A what \in N : Capped(At(t, K), k, what) \in O
\* An output and one line more.
AppendIn(O, t) == \A a \in O : \A i \in DOMAIN t : Append(a, Line(i)) \in O /\ Append(a, Line(i)) # <<>>
\* Lines of any rows.
LinesIn(O, t) ==
  /\ \A s \in Rows(t) : Lines(s) \in O /\ (Lines(s) # <<>> <=> s # <<>>) /\ Len(s) \in Int
  /\ \A i \in DOMAIN t : <<Line(i)>> \in O
\* The first k of any rows and a note on the others, or the note alone.
MoreIn(O, N, t) == \A s \in Rows(t) : \A k \in Limits : \A what \in N : Capped(s, k, what) \in O /\ More(s, k, what) \in O
\* A note of a name of N, written always or when its count is above 0.
NoteIn(O, N) ==
  \A what \in N : \A k \in Int : /\ Note(what, k) \in O /\ Note(what, k) # <<>>
                                 /\ Counted(what, k) \in O /\ (k > 0 => Counted(what, k) # <<>>)
\* Outputs after each other.
JoinIn(O) == \A a, b \in O : a \o b \in O /\ (a \o b # <<>> <=> a # <<>> \/ b # <<>>)
\* Nothing, the whole output, and the whole output in place of nothing.
WholeIn(O, t) == <<>> \in O /\ Whole(t) \in O /\ \A a \in O : OrWhole(a, t) \in O
\* A sequence of outputs after each other.
FlatIn(O, t) ==
  /\ \A ss \in Seq(O) : FlattenSeq(ss) \in O
  /\ \A s \in Rows(t) : \A f \in [DOMAIN s -> O] : FlattenSeq(f) \in O
  /\ \A m \in Nat : \A f \in [1..m -> O] : FlattenSeq(f) \in O
\* A note for each of a sequence of rows.
TallyIn(O, N, t) == \A s \in Rows(t) : \A f \in [DOMAIN s -> N \X Int] : f \in O /\ (f # <<>> <=> s # <<>>)
\* The sizes that filters cut at.
Sizes == 1 \in Limits /\ 2 \in Limits /\ 3 \in Limits /\ 5 \in Limits /\ 8 \in Limits /\ 10 \in Limits /\ 15 \in Limits /\ 20 \in Limits /\ 30 \in Limits /\ 40 \in Limits /\ 0 \in Int
\* O holds whatever a filter builds of the lines of t and of notes with names of N.
Writes(O, N, t) ==
  /\ Picks(t) /\ Cuts(t) /\ ChosenIn(t) /\ Complete(t) /\ Counts(t) /\ Chains(t)
  /\ AtIn(O, t) /\ TakeIn(O, t) /\ FinalIn(O, t) /\ CappedIn(O, N, t)
  /\ AppendIn(O, t) /\ LinesIn(O, t) /\ MoreIn(O, N, t) /\ NoteIn(O, N) /\ JoinIn(O) /\ WholeIn(O, t)
  /\ FlatIn(O, t) /\ TallyIn(O, N, t) /\ Sizes

\* The outputs of lines of t and notes of N are such a set.
LEMMA Written ==
  ASSUME NEW N, NEW Kind, NEW t \in Seq(Kind)
  PROVE  Writes(Outputs(N, Len(t)), N, t)
<1> DEFINE n == Len(t)
           O == Outputs(N, n)
<1>0. n \in Nat /\ DOMAIN t = 1..n /\ Rows(t) = Seq(1..n)
  BY LenProperties, Zenon DEF Rows
<1>1. \A S : /\ InOrder(S, t) \in Seq(1..n)
             /\ \A i \in S \cap (1..n) : \E j \in 1..Len(InOrder(S, t)) : InOrder(S, t)[j] = i
  BY InOrderIs
<1>2. \A K : /\ At(t, K) \in Seq(1..n)
             /\ At(t, K) # <<>> <=> Has(t, K)
             /\ \A j \in 1..Len(At(t, K)) : t[At(t, K)[j]] \in K
  BY AtIs
<1>3. \A K : /\ FirstOf(t, K) \in Seq(1..n)
             /\ Has(t, K) => FirstOf(t, K) # <<>>
             /\ \A j \in 1..Len(FirstOf(t, K)) : t[FirstOf(t, K)[j]] \in K
  BY FirstOfIs
<1>4. Filled(t) \in Seq(1..n) /\ Every(t) \in Seq(1..n) /\ \A i \in DOMAIN t : Every(t) # <<>>
  <2>1. Filled(t) \in Seq(1..n)
    BY <1>1 DEF Filled, Where
  <2>2. Every(t) \in Seq(1..n) /\ Len(Every(t)) = n
    BY <1>0 DEF Every
  <2>3. QED
    BY <1>0, <2>1, <2>2
<1>5. WholeIn(O, t)
  BY WholeIs, OrWholeIs, SilentIs DEF WholeIn
<1> HIDE DEF n
<1>6. \A s \in Seq(1..n) : DOMAIN s = 1..Len(s) /\ Len(s) \in Nat /\ (s # <<>> <=> Len(s) # 0)
  <2>1. TAKE s \in Seq(1..n)
  <2>2. QED
    BY EmptySeq, LenProperties
<1>7. \A s \in Seq(1..n) : \A k \in Limits :
        /\ Take(s, k) \in Seq(1..n) /\ (Take(s, k) # <<>> <=> s # <<>>)
        /\ Final(s, k) \in Seq(1..n) /\ (Final(s, k) # <<>> <=> s # <<>>)
        /\ \A j \in DOMAIN Take(s, k) : j \in DOMAIN s /\ Take(s, k)[j] = s[j]
  <2>1. TAKE s \in Seq(1..n)
  <2>0. TAKE k \in Limits
  <2>2. k \in Nat /\ k > 0
    BY DEF Limits
  <2>3. /\ Take(s, k) \in Seq(1..n) /\ (Take(s, k) # <<>> <=> s # <<>>)
        /\ Len(Take(s, k)) = IF k <= Len(s) THEN k ELSE Len(s)
        /\ \A j \in 1..Len(Take(s, k)) : Take(s, k)[j] = s[j]
    BY <2>2, TakeIs
  <2>4. Final(s, k) \in Seq(1..n) /\ (Final(s, k) # <<>> <=> s # <<>>)
    BY <2>2, FinalIs
  <2>5. DOMAIN Take(s, k) = 1..Len(Take(s, k)) /\ Len(Take(s, k)) \in Nat /\ DOMAIN s = 1..Len(s) /\ Len(s) \in Nat
    BY <1>6, <2>3
  <2>6. \A j \in DOMAIN Take(s, k) : j \in DOMAIN s
    BY <2>2, <2>3, <2>5
  <2>7. QED
    BY <2>3, <2>4, <2>5, <2>6
<1>8. Picks(t)
  <2>1. \A S : \A i \in S : i \in DOMAIN t => InOrder(S, t) # <<>>
    <3>1. TAKE S
    <3>2. TAKE i \in S
    <3>3. HAVE i \in DOMAIN t
    <3>4. PICK j \in 1..Len(InOrder(S, t)) : InOrder(S, t)[j] = i
      BY <1>0, <1>1, <3>2, <3>3
    <3>5. InOrder(S, t) \in Seq(1..n)
      BY <1>1
    <3>6. QED
      BY <1>6, <3>4, <3>5
  <2>2. (\A K : \A j \in DOMAIN At(t, K) : t[At(t, K)[j]] \in K) /\ \A K : \A j \in DOMAIN FirstOf(t, K) : t[FirstOf(t, K)[j]] \in K
    BY <1>2, <1>3, <1>6
  <2>3. QED
    BY <1>0, <1>1, <1>2, <1>3, <1>4, <2>1, <2>2 DEF Picks
<1>9. Cuts(t)
  BY <1>0, <1>7 DEF Cuts
<1>10. Chains(t)
  BY <1>0 DEF Chains
<1>11. \A s \in Seq(1..n) : Lines(s) \in O /\ (Lines(s) # <<>> <=> s # <<>>) /\ Len(s) \in Int
  BY <1>0, <1>6, LinesIs
<1>12. \A s \in Seq(1..n) : \A k \in Limits : \A what \in N : Capped(s, k, what) \in O /\ More(s, k, what) \in O
  BY <1>0, CappedIs DEF Limits
<1>13. \A what \in N : \A k \in Int : /\ Note(what, k) \in O /\ Note(what, k) # <<>>
                                 /\ Counted(what, k) \in O /\ (k > 0 => Counted(what, k) # <<>>)
  <2>1. TAKE what \in N
  <2>0. TAKE k \in Int
  <2>2. Note(what, k) \in O /\ Counted(what, k) \in O /\ (k > 0 => Counted(what, k) # <<>>)
    BY NoteIs, CountedIs
  <2>3. Note(what, k) # <<>>
    BY DEF Note
  <2>4. QED
    BY <2>2, <2>3
<1>14. JoinIn(O)
  BY JoinIs DEF JoinIn
<1>15. AtIn(O, t)
  BY <1>2, <1>6, <1>11 DEF AtIn
<1>16. TakeIn(O, t)
  <2>1. \A K : \A k \in Limits : Take(At(t, K), k) \in Seq(1..n) /\ (Take(At(t, K), k) # <<>> <=> Has(t, K))
    BY <1>2, <1>7
  <2>2. QED
    BY <1>6, <1>11, <2>1 DEF TakeIn
<1>17. FinalIn(O, t)
  <2>1. \A K : \A k \in Limits : Final(At(t, K), k) \in Seq(1..n) /\ (Final(At(t, K), k) # <<>> <=> Has(t, K))
    BY <1>2, <1>7
  <2>2. QED
    BY <1>11, <2>1 DEF FinalIn
<1>18. CappedIn(O, N, t)
  BY <1>2, <1>12 DEF CappedIn
<1>19. FlatIn(O, t)
  <2>1. \A ss \in Seq(O) : FlattenSeq(ss) \in O
    BY FlattenIn DEF Outputs
  <2> HIDE DEF O
  <2>2. \A m \in Nat : \A f \in [1..m -> O] : f \in Seq(O)
    OBVIOUS
  <2>3. \A m \in Nat : \A f \in [1..m -> O] : FlattenSeq(f) \in O
    BY <2>1, <2>2, Zenon
  <2>4. \A s \in Seq(1..n) : \A f \in [DOMAIN s -> O] : FlattenSeq(f) \in O
    <3>1. TAKE s \in Seq(1..n)
    <3>2. DOMAIN s = 1..Len(s) /\ Len(s) \in Nat
      BY <1>6
    <3>3. QED
      BY <2>3, <3>2, Zenon
  <2>5. QED
    BY <1>0, <2>1, <2>3, <2>4 DEF FlatIn
<1>20. TallyIn(O, N, t)
  <2>1. ASSUME NEW s \in Seq(1..n), NEW f \in [DOMAIN s -> N \X Int]
        PROVE  f \in O /\ (f # <<>> <=> s # <<>>)
    <3>1. DOMAIN s = 1..Len(s) /\ Len(s) \in Nat /\ (s # <<>> <=> Len(s) # 0)
      BY <1>6
    <3>2. f \in Seq(N \X Int) /\ Len(f) = Len(s)
      BY <3>1
    <3>3. f \in O
      <4>1. N \X Int \subseteq Entries(N, n)
        BY DEF Entries
      <4>2. \A j \in 1..Len(s) : f[j] \in Entries(N, n)
        BY <3>1, <4>1
      <4> HIDE DEF Entries
      <4>3. QED
        BY <3>1, <4>2 DEF Outputs
    <3>4. QED
      BY <3>1, <3>2, <3>3
  <2>2. QED
    BY <1>0, <2>1 DEF TallyIn
<1>21. Sizes
  BY DEF Sizes, Limits
<1>22. ChosenIn(t)
  <2>1. ASSUME NEW s \in Seq(1..n), NEW S
        PROVE  /\ Chosen(S, s) \in Seq(1..n)
               /\ \A i \in S : i \in DOMAIN s => Chosen(S, s) # <<>>
               /\ \A j \in DOMAIN Chosen(S, s) : \E i \in S : i \in DOMAIN s /\ Chosen(S, s)[j] = s[i]
    <3>1. /\ Chosen(S, s) \in Seq(1..n) /\ DOMAIN Chosen(S, s) = DOMAIN InOrder(S, s)
          /\ \A i \in S \cap (1..Len(s)) : \E j \in DOMAIN InOrder(S, s) : InOrder(S, s)[j] = i
          /\ \A j \in DOMAIN InOrder(S, s) : InOrder(S, s)[j] \in S \cap (1..Len(s)) /\ Chosen(S, s)[j] = s[InOrder(S, s)[j]]
      BY ChosenIs DEF Chosen
    <3>2. DOMAIN s = 1..Len(s)
      BY <1>6
    <3>3. \A i \in S : i \in DOMAIN s => \E j : j \in DOMAIN Chosen(S, s)
      BY <3>1, <3>2, Zenon
    <3>4. \A j : j \in DOMAIN Chosen(S, s) => Chosen(S, s) # <<>>
      BY <3>1, <1>6
    <3>5. \A j \in DOMAIN Chosen(S, s) : \E i \in S : i \in DOMAIN s /\ Chosen(S, s)[j] = s[i]
      BY <3>1, <3>2, Zenon
    <3>6. QED
      BY <3>1, <3>3, <3>4, <3>5, Zenon
  <2>2. ASSUME NEW s \in Seq(1..n)
        PROVE  /\ s # <<>> => Tail(s) \in Seq(1..n)
               /\ \A j \in DOMAIN s : j # 1 => \E k \in DOMAIN Tail(s) : Tail(s)[k] = s[j]
               /\ \A j \in DOMAIN s : s[j] \in 1..n
    <3>1. DOMAIN s = 1..Len(s) /\ Len(s) \in Nat /\ (s # <<>> <=> Len(s) # 0)
      BY <1>6
    <3>2. \A j \in DOMAIN s : s[j] \in 1..n
      BY <3>1, ElementOfSeq, Zenon
    <3>3. s # <<>> => Tail(s) \in Seq(1..n)
      OBVIOUS
    <3>4. ASSUME NEW j \in 1..Len(s), j # 1
          PROVE  \E k \in DOMAIN Tail(s) : Tail(s)[k] = s[j]
      <4>1. s # <<>> /\ j - 1 \in 1..(Len(s) - 1) /\ j - 1 + 1 = j
        BY <3>1, <3>4
      <4>2. Len(Tail(s)) = Len(s) - 1 /\ Tail(s) \in Seq(1..n) /\ \A k \in 1..(Len(s) - 1) : Tail(s)[k] = s[k + 1]
        BY <3>1, <4>1
      <4>3. DOMAIN Tail(s) = 1..(Len(s) - 1)
        BY <1>6, <4>2
      <4>4. Tail(s)[j - 1] = s[j]
        BY <4>1, <4>2
      <4>5. QED
        BY <4>1, <4>3, <4>4
    <3>5. QED
      BY <3>1, <3>2, <3>3, <3>4
  <2>3. QED
    <3>1. ASSUME NEW s \in Rows(t)
          PROVE  /\ \A S : Chosen(S, s) \in Rows(t)
                 /\ \A S : \A i \in S : i \in DOMAIN s => Chosen(S, s) # <<>>
                 /\ \A S : \A j \in DOMAIN Chosen(S, s) : \E i \in S : i \in DOMAIN s /\ Chosen(S, s)[j] = s[i]
      <4>1. s \in Seq(1..n)
        BY <1>0, Zenon
      <4>2. ASSUME NEW S
            PROVE  /\ Chosen(S, s) \in Rows(t)
                   /\ \A i \in S : i \in DOMAIN s => Chosen(S, s) # <<>>
                   /\ \A j \in DOMAIN Chosen(S, s) : \E i \in S : i \in DOMAIN s /\ Chosen(S, s)[j] = s[i]
        <5>1. Chosen(S, s) \in Rows(t)
          BY <1>0, <2>1, <4>1, Zenon
        <5>2. \A i \in S : i \in DOMAIN s => Chosen(S, s) # <<>>
          BY <2>1, <4>1, Zenon
        <5>3. \A j \in DOMAIN Chosen(S, s) : \E i \in S : i \in DOMAIN s /\ Chosen(S, s)[j] = s[i]
          BY <2>1, <4>1
        <5>4. QED
          BY <5>1, <5>2, <5>3
      <4>3. QED
        BY <4>2, Zenon
    <3>2. ASSUME NEW s \in Rows(t)
          PROVE  /\ s # <<>> => Tail(s) \in Rows(t)
                 /\ \A j \in DOMAIN s : j # 1 => \E k \in DOMAIN Tail(s) : Tail(s)[k] = s[j]
                 /\ \A j \in DOMAIN s : s[j] \in DOMAIN t
      <4>1. s \in Seq(1..n)
        BY <1>0, Zenon
      <4>2. QED
        BY <1>0, <2>2, <4>1, Zenon
    <3>3. QED
      BY <3>1, <3>2, Zenon DEF ChosenIn
<1>23. Counts(t)
  <2>1. \A K : Len(At(t, K)) \in Nat
    BY <1>2, <1>6
  <2>2. \A i \in DOMAIN t : \A S : S \subseteq 1..(i - 1) /\ S # {} => Max(S) \in Int
    <3>1. TAKE i \in DOMAIN t
    <3>2. TAKE S
    <3>3. HAVE S \subseteq 1..(i - 1) /\ S # {}
    <3>4. i \in Nat /\ S \subseteq Int
      BY <1>0, <3>3
    <3> DEFINE R == {i - x : x \in S}
    <3>5. R \subseteq 1..i /\ R # {}
      <4>1. \A x \in S : i - x \in 1..i
        BY <3>3, <3>4
      <4>2. QED
        BY <3>3, <4>1, Zenon
    <3>6. PICK r \in R : \A j \in R : r <= j
      <4> HIDE DEF R
      <4>1. QED
        BY <3>4, <3>5, Least
    <3>7. PICK x \in S : r = i - x
      BY <3>6
    <3>8. \A y \in S : x >= y
      <4>1. TAKE y \in S
      <4>2. i - y \in R
        OBVIOUS
      <4>3. r <= i - y
        BY <3>6, <4>2
      <4>4. x \in Int /\ y \in Int
        BY <3>4
      <4>5. QED
        BY <3>4, <3>7, <4>3, <4>4
    <3>9. Max(S) \in S
      BY <3>8 DEF Max
    <3>10. QED
      BY <3>4, <3>9
  <2>3. \A s, r \in Seq(1..n) : Len(s) - Len(r) \in Int
    BY <1>6
  <2>4. QED
    BY <1>0, <2>1, <2>2, <2>3 DEF Counts
<1>24. \A i \in 1..n : <<Line(i)>> \in O
  BY DEF Outputs, Entries, Line
<1>26. Complete(t)
  <2>1. \A S : \A i \in S : i \in DOMAIN t => \E j \in DOMAIN InOrder(S, t) : InOrder(S, t)[j] = i
    <3>1. TAKE S
    <3>2. TAKE i \in S
    <3>3. HAVE i \in DOMAIN t
    <3>4. PICK j \in 1..Len(InOrder(S, t)) : InOrder(S, t)[j] = i
      BY <1>0, <1>1, <3>2, <3>3
    <3>5. InOrder(S, t) \in Seq(1..n)
      BY <1>1
    <3>6. QED
      BY <1>6, <3>4, <3>5
  <2>2. QED
    BY <2>1, Zenon DEF Complete
<1>27. AppendIn(O, t)
  <2>1. \A i \in 1..n : Line(i) \in Entries(N, n)
    BY DEF Entries, Line
  <2> HIDE DEF Entries
  <2>2. \A a \in Seq(Entries(N, n)) : \A x \in Entries(N, n) : Append(a, x) \in Seq(Entries(N, n)) /\ Append(a, x) # <<>>
    BY AppendProperties, Zenon
  <2>3. O = Seq(Entries(N, n))
    BY DEF Outputs
  <2>4. QED
    BY <1>0, <2>1, <2>2, <2>3, Zenon DEF AppendIn
<1>25. QED
  BY <1>26, <1>27, <1>0, <1>5, <1>8, <1>9, <1>10, <1>11, <1>12, <1>13, <1>14, <1>15, <1>16, <1>17, <1>18, <1>19, <1>20, <1>21, <1>22, <1>23, <1>24,
     Zenon DEF Writes, LinesIn, MoreIn, NoteIn, n

\* Two and three outputs after each other.
LEMMA Joins ==
  ASSUME NEW O, NEW N, NEW t, Writes(O, N, t)
  PROVE  /\ \A a, b \in O : a \o b \in O /\ (a \o b # <<>> <=> a # <<>> \/ b # <<>>)
         /\ \A a, b, c \in O : a \o b \o c \in O
BY DEF Writes, JoinIn

-----------------------------------------------------------------------------
\* The filters, each given a line that tells of a failure: O is closed under what
\* filters build (Writes), and has the names N for its notes. That what a filter writes
\* is in O says that a success it might write is none of it, when N names none.

\* What the filter of next lint writes of a failure.
LEMMA NextLintSays ==
  ASSUME NEW O, NEW N, NEW t, Writes(O, N, t), "lint warnings" \in N, Has(t, {"Error:", "Warning:"})
  PROVE  NextLint(t) \in O
<1> DEFINE s == Lines(At(t, {"Error:"}))
           k == Len(Take(At(t, {"Warning:"}), 10))
<1>1. Has(t, {"Error:"}) \/ Has(t, {"Warning:"})
  BY Zenon DEF Has
<1>2. s \in O /\ Counted("lint warnings", k) \in O
  BY Zenon DEF Writes, AtIn, TakeIn, NoteIn, Sizes
<1>3. s # <<>> \/ Counted("lint warnings", k) # <<>>
  BY <1>1, Zenon DEF Writes, AtIn, TakeIn, NoteIn, Sizes
<1>4. NextLint(t) = OrNote(s \o Counted("lint warnings", k), "No lint errors found.")
  BY Zenon DEF NextLint
<1> HIDE DEF s, k
<1>5. s \o Counted("lint warnings", k) \in O /\ s \o Counted("lint warnings", k) # <<>>
  BY <1>2, <1>3, Joins, Zenon
<1>6. QED
  BY <1>4, <1>5, Zenon DEF OrNote

\* What the filter of make writes of a failure.
LEMMA MakeSays ==
  ASSUME NEW O, NEW N, NEW t, Writes(O, N, t), Has(t, MakeErrors)
  PROVE  Make(t) \in O
BY Zenon DEF Make, Where, Writes, Picks, LinesIn, WholeIn

\* What the filter of ruff check writes of a failure.
LEMMA RuffCheckSays ==
  ASSUME NEW O, NEW N, NEW t, Writes(O, N, t), {"E501", "F401", "and more"} \subseteq N, Has(t, {"E501", "F401", "text"}), ~Has(t, {"All checks passed."})
  PROVE  RuffCheck(t) \in O
<1> DEFINE group(c) == IF Has(t, {c})
                  THEN Note(c, Len(At(t, {c}))) \o Capped(At(t, {c}), 3, "and more") ELSE <<>>
<1>1. ~ \A i \in DOMAIN t : t[i] = ""
  BY Zenon DEF Has
<1>2. group("E501") \in O /\ group("F401") \in O
  BY Zenon DEF Writes, AtIn, NoteIn, CappedIn, Sizes, JoinIn, WholeIn
<1>3. Lines(At(t, {"text"}) \o At(t, {"Found 2 errors"})) \in O
  BY Zenon DEF Writes, Picks, Chains, LinesIn
<1>4. RuffCheck(t) = group("E501") \o group("F401") \o Lines(At(t, {"text"}) \o At(t, {"Found 2 errors"}))
  BY <1>1, Zenon DEF RuffCheck
<1> HIDE DEF group
<1>5. \A x, y, z \in O : x \o y \o z \in O
  BY Joins, Zenon
<1>6. QED
  BY <1>2, <1>3, <1>4, <1>5, Zenon

\* What the filter of rubocop writes of a failure.
LEMMA RubocopSays ==
  ASSUME NEW O, NEW N, NEW t, Writes(O, N, t), {"more convention/style offenses", "offenses"} \subseteq N, Has(t, {"{error}", "{warning}", "{convention}"})
  PROVE  Rubocop(t) \in O
<1> DEFINE all == At(t, {"{error}", "{warning}", "{convention}"})
      a == Lines(Take(At(t, {"{error}"}), 10) \o Take(At(t, {"{warning}"}), 10))
      b == Capped(At(t, {"{convention}"}), 5, "more convention/style offenses")
<1>1. RubocopJson(t) = a \o b \o Note("offenses", Len(all))
  BY Zenon DEF RubocopJson, Writes, AtIn
<1>2. a \in O
  BY Zenon DEF Writes, Picks, Sizes, Cuts, Chains, LinesIn
<1>3. b \in O
  BY Zenon DEF Writes, Sizes, CappedIn
<1>4. Note("offenses", Len(all)) \in O
  BY Zenon DEF Writes, AtIn, NoteIn
<1> HIDE DEF a, b
<1>5. \A x, y, z \in O : x \o y \o z \in O
  BY Joins, Zenon
<1>6. RubocopJson(t) \in O
  BY <1>1, <1>2, <1>3, <1>4, <1>5, Zenon
<1>7. QED
  BY <1>6, Zenon DEF Rubocop, Writes, AtIn, WholeIn

\* What the filter of poetry install writes of a failure.
LEMMA PoetryInstallSays ==
  ASSUME NEW O, NEW N, NEW t, Writes(O, N, t), "poetry install complete" \in N, Has(t, {"ERROR:"})
  PROVE  PoetryInstall(t) \in O
<1>1. Has(t, {"ERROR:", "failed", "WARNING:"}) /\ Has(t, {"ERROR:", "failed"})
  BY Zenon DEF Has
<1> DEFINE k == Len(At(t, {"- Installing a"}))
           ops == Final(At(t, {"Package operations: 1 install", "Package operations: 0 installs"}), 1)
           w == Lines(At(t, {"WARNING:", "ERROR:"}))
<1>2. PoetryInstall(t) = IF ops # <<>> THEN w \o Lines(ops)
      ELSE IF k > 0 THEN w \o Note("poetry install complete", k) ELSE Whole(t)
  BY <1>1, Zenon DEF PoetryInstall
<1>3. w \in O /\ Lines(ops) \in O /\ Note("poetry install complete", k) \in O
  BY Zenon DEF Writes, AtIn, FinalIn, NoteIn, Sizes
<1> HIDE DEF w, ops, k
<1>4. Whole(t) \in O /\ \A x, y \in O : x \o y \in O
  BY Joins, Zenon DEF Writes, WholeIn
<1>5. QED
  BY <1>2, <1>3, <1>4, Zenon

\* What the filter of prisma db seed writes of a failure.
LEMMA PrismaSeedSays ==
  ASSUME NEW O, NEW N, NEW t, Writes(O, N, t), Has(t, {"Error"})
  PROVE  PrismaSeed(t) \in O
<1>1. Filled(t) \in Rows(t) /\ Filled(t) # <<>>
  <2>1. PICK i \in DOMAIN t : t[i] \in {"Error"}
    BY Zenon DEF Has
  <2>2. i \in {j \in DOMAIN t : t[j] # ""}
    BY <2>1, Zenon
  <2>3. QED
    BY <2>1, <2>2, Zenon DEF Writes, Picks, Filled, Where
<1>2. Lines(LastFilled(t)) \in O /\ Lines(LastFilled(t)) # <<>>
  BY <1>1, Zenon DEF LastFilled, Writes, Cuts, Sizes, LinesIn
<1>3. QED
  BY <1>2, Zenon DEF PrismaSeed, OrNote

\* What the filter of go build writes of a failure.
LEMMA GoBuildSays ==
  ASSUME NEW O, NEW N, NEW t, Writes(O, N, t), Has(t, {"x.go:1: undefined", "text"})
  PROVE  GoBuild(t) \in O
BY Zenon DEF Has, GoBuild, Writes, AtIn, WholeIn

\* What the filter of go vet writes of a failure.
LEMMA GoVetSays ==
  ASSUME NEW O, NEW N, NEW t, Writes(O, N, t), {"more", "vet issues"} \subseteq N, Has(t, {"x.go:1: undefined"})
  PROVE  GoVet(t) \in O
BY Zenon DEF GoVet, Writes, AtIn, NoteIn, CappedIn, Sizes, JoinIn

\* What the filter of go mod writes of a failure.
LEMMA GoModSays ==
  ASSUME NEW O, NEW N, NEW t, Writes(O, N, t), Has(t, {"error"})
  PROVE  GoMod(t) \in O
<1>1. Has(t, {"error", "go: "})
  BY Zenon DEF Has
<1>2. QED
  BY <1>1, Zenon DEF GoMod, Writes, TakeIn, Sizes, OrNote

\* What the filter of dotnet restore writes of a failure.
LEMMA DotnetRestoreSays ==
  ASSUME NEW O, NEW N, NEW t, Writes(O, N, t), Has(t, {": error NU", "MSBUILD : error"})
  PROVE  DotnetRestore(t) \in O
BY Zenon DEF DotnetRestore, Writes, AtIn, WholeIn

\* What the filter of next build writes of a failure.
LEMMA NextBuildSays ==
  ASSUME NEW O, NEW N, NEW t, Writes(O, N, t), {"warnings"} \subseteq N, Has(t, {"Error:", "Type error:"})
  PROVE  NextBuild(t) \in O
BY Zenon DEF NextBuild, Writes, AtIn, TakeIn, NoteIn, Sizes, JoinIn

\* What the filter of prettier --check writes of a failure.
LEMMA PrettierCheckSays ==
  ASSUME NEW O, NEW N, NEW t, Writes(O, N, t), {"need formatting", "more", "Run prettier --write"} \subseteq N, Has(t, {"[warn] x.js", "SyntaxError"})
  PROVE  PrettierCheck(t) \in O
<1>1. Has(t, {"[warn] x.js"}) \/ Has(t, {"SyntaxError"})
  BY Zenon DEF Has
<1>2. QED
  BY <1>1, Zenon DEF PrettierCheck, Writes, AtIn, NoteIn, CappedIn, Sizes, JoinIn

\* What the filter of prettier --write writes of a failure.
LEMMA PrettierWriteSays ==
  ASSUME NEW O, NEW N, NEW t, Writes(O, N, t), Has(t, {"SyntaxError"})
  PROVE  PrettierWrite(t) \in O
BY Zenon DEF PrettierWrite, Writes, AtIn

\* What the filter of pnpm install writes of a failure.
LEMMA PnpmInstallSays ==
  ASSUME NEW O, NEW N, NEW t, Writes(O, N, t), Has(t, {"ERR_PNPM"})
  PROVE  PnpmInstall(t) \in O
BY Zenon DEF PnpmInstall, Writes, AtIn

\* What the filter of pip install writes of a failure.
LEMMA PipInstallSays ==
  ASSUME NEW O, NEW N, NEW t, Writes(O, N, t), {"pip install complete"} \subseteq N, Has(t, {"ERROR:", "Failed to build"})
  PROVE  PipInstall(t) \in O
BY Zenon DEF PipInstall, Writes, AtIn, TakeIn, NoteIn, Sizes, JoinIn, WholeIn

\* What the filter of brew update writes of a failure.
LEMMA BrewUpdateSays ==
  ASSUME NEW O, NEW N, NEW t, Writes(O, N, t), Has(t, {"Error:"})
  PROVE  BrewUpdate(t) \in O
<1>1. Has(t, {"Updated 1 tap", "==> New", "Error:", "Warning:", " indented"})
  BY Zenon DEF Has
<1>2. QED
  BY <1>1, Zenon DEF BrewUpdate, Writes, AtIn, OrNote

\* What the filter of prisma generate writes of a failure.
LEMMA PrismaGenerateSays ==
  ASSUME NEW O, NEW N, NEW t, Writes(O, N, t), Has(t, {"Error"})
  PROVE  PrismaGenerate(t) \in O
BY Zenon DEF PrismaGenerate, Writes, AtIn

\* What the filter of prisma migrate writes of a failure.
LEMMA PrismaMigrateSays ==
  ASSUME NEW O, NEW N, NEW t, Writes(O, N, t), Has(t, {"Error"})
  PROVE  PrismaMigrate(t) \in O
BY Zenon DEF PrismaMigrate, Writes, AtIn

\* What the filter of prisma push writes of a failure.
LEMMA PrismaPushSays ==
  ASSUME NEW O, NEW N, NEW t, Writes(O, N, t), Has(t, {"Error"})
  PROVE  PrismaPush(t) \in O
<1>1. Has(t, {"in sync", "Error", "Generated"})
  BY Zenon DEF Has
<1>2. QED
  BY <1>1, Zenon DEF PrismaPush, Writes, AtIn, OrNote

\* What the filter of prisma validate writes of a failure.
LEMMA PrismaValidateSays ==
  ASSUME NEW O, NEW N, NEW t, Writes(O, N, t), Has(t, {"Error"})
  PROVE  PrismaValidate(t) \in O
BY Zenon DEF PrismaValidate, Writes, TakeIn, Sizes, OrNote

\* What the filter of docker build writes of a failure.
LEMMA DockerBuildSays ==
  ASSUME NEW O, NEW N, NEW t, Writes(O, N, t), Has(t, {"ERROR"})
  PROVE  DockerBuild(t) \in O
BY Zenon DEF DockerBuild, Writes, AtIn, WholeIn

\* What the filter of helm diff writes of a failure.
LEMMA HelmDiffSays ==
  ASSUME NEW O, NEW N, NEW t, Writes(O, N, t), Has(t, {"+a", "-a"})
  PROVE  HelmDiff(t) \in O
<1>1. Has(t, {"+a", "-a", "@@", "Release"})
  BY Zenon DEF Has
<1>2. QED
  BY <1>1, Zenon DEF HelmDiff, Writes, AtIn, OrNote

\* What the filter of terraform init writes of a failure.
LEMMA TerraformInitSays ==
  ASSUME NEW O, NEW N, NEW t, Writes(O, N, t), Has(t, {"Error:"})
  PROVE  TerraformInit(t) \in O
BY Zenon DEF TerraformInit, Writes, AtIn

\* What the filter of terraform validate writes of a failure.
LEMMA TerraformValidateSays ==
  ASSUME NEW O, NEW N, NEW t, Writes(O, N, t), Has(t, {"Error:", "| Error:"})
  PROVE  TerraformValidate(t) \in O
BY Zenon DEF KeepOrWhole, TerraformValidate, Writes, AtIn, WholeIn

\* What the filter of git merge writes of a failure.
LEMMA FilterMergeSays ==
  ASSUME NEW O, NEW N, NEW t, Writes(O, N, t), Has(t, {"CONFLICT"})
  PROVE  FilterMerge(t) \in O
BY Zenon DEF FilterMerge, Writes, AtIn

\* What the filter of git rebase writes of a failure.
LEMMA FilterRebaseSays ==
  ASSUME NEW O, NEW N, NEW t, Writes(O, N, t), Has(t, {"CONFLICT"})
  PROVE  FilterRebase(t) \in O
BY Zenon DEF FilterRebase, Writes, AtIn

\* What the filter of git clone writes of a failure.
LEMMA FilterCloneSays ==
  ASSUME NEW O, NEW N, NEW t, Writes(O, N, t), Has(t, {"fatal:", "error:"})
  PROVE  FilterClone(t) \in O
BY Zenon DEF FilterClone, Writes, AtIn

\* What the filter of git checkout writes of a failure.
LEMMA FilterCheckoutSays ==
  ASSUME NEW O, NEW N, NEW t, Writes(O, N, t), Has(t, {"error:"})
  PROVE  FilterCheckout(t) \in O
BY Zenon DEF FilterCheckout, Writes, WholeIn

\* What the filter of prisma studio writes of a failure.
LEMMA PrismaStudioSays ==
  ASSUME NEW O, NEW N, NEW t, Writes(O, N, t), Has(t, {"Error"})
  PROVE  PrismaStudio(t) \in O
<1>1. Every(t) \in Rows(t) /\ Every(t) # <<>>
  BY Zenon DEF Has, Writes, Picks
<1>2. Lines(Final(Every(t), 1)) \in O /\ Lines(Final(Every(t), 1)) # <<>>
  BY <1>1, Zenon DEF Writes, Cuts, Sizes, LinesIn
<1>3. Lines(Take(At(t, {"http://localhost"}), 1)) \in O
  BY Zenon DEF Writes, TakeIn, Sizes
<1>4. QED
  BY <1>2, <1>3, Zenon DEF PrismaStudio, OrNote

\* The groups of warnings.
LEMMA GroupClippyWarningsIn ==
  ASSUME NEW O, NEW N, NEW t, Writes(O, N, t), NEW K, K \subseteq N
  PROVE  GroupClippyWarnings(t, K) \in O
<1> DEFINE rules == FirstOf(t, K \ {"warning"})
           entry(j) == << <<t[rules[j]], Len(At(t, {t[rules[j]]}))>> >> \o Lines(Take(At(t, {t[rules[j]]}), 3))
           f == [j \in DOMAIN rules |-> entry(j)]
<1>1. GroupClippyWarnings(t, K) = IF Len(At(t, K)) < 3 THEN Lines(At(t, K)) ELSE FlattenSeq(f) \o Lines(At(t, {"warning"}))
  BY Zenon DEF GroupClippyWarnings
<1>2. ASSUME NEW j \in DOMAIN rules
      PROVE  entry(j) \in O
  <2>1. t[rules[j]] \in N
    BY Zenon DEF Writes, Picks
  <2>2. Note(t[rules[j]], Len(At(t, {t[rules[j]]}))) \in O
    BY <2>1, Zenon DEF Writes, NoteIn, AtIn
  <2>3. Lines(Take(At(t, {t[rules[j]]}), 3)) \in O
    BY Zenon DEF Writes, TakeIn, Sizes
  <2>4. QED
    BY <2>2, <2>3, Joins, Zenon DEF Note
<1>3. rules \in Rows(t)
  BY Zenon DEF Writes, Picks
<1>4. Lines(At(t, K)) \in O /\ Lines(At(t, {"warning"})) \in O
  BY Zenon DEF Writes, AtIn
<1> HIDE DEF entry
<1>5. f \in [DOMAIN rules -> O]
  BY <1>2, Zenon
<1> HIDE DEF f, rules
<1>6. FlattenSeq(f) \in O
  BY <1>3, <1>5, Zenon DEF Writes, FlatIn
<1>7. FlattenSeq(f) \o Lines(At(t, {"warning"})) \in O
  BY <1>4, <1>6, Joins, Zenon
<1>8. QED
  BY <1>1, <1>4, <1>7, Zenon

\* The kinds of cargo's warnings.
CargoWarnings == {"warning", "warning [x]", "warning [y]"}

\* What the filter of cargo build writes of a failure.
LEMMA CargoBuildSays ==
  ASSUME NEW O, NEW N, NEW t, Writes(O, N, t), CargoErrors \subseteq N, CargoWarnings \subseteq N,
         {"more unique errors", "total locations", "warnings", "Build FAILED"} \subseteq N, Has(t, CargoErrors)
  PROVE  CargoBuild(t) \in O
<1> DEFINE errors == At(t, CargoErrors)
           unique == FirstOf(t, CargoErrors)
           entry(i) == <<t[i], IF t[i] = "plain error" THEN 0 ELSE Len(At(t, {t[i]}))>>
           a == [j \in DOMAIN Take(unique, 8) |-> entry(unique[j])]
           b == More(unique, 8, "more unique errors")
           c == IF Len(unique) > 1 \/ Len(errors) > 2 THEN Note("total locations", Len(errors)) ELSE <<>>
           d == Counted("warnings", Len(At(t, CargoWarnings)))
           e == GroupClippyWarnings(t, CargoWarnings)
           finished == Final(At(t, {"finished ok", "finished failed"}), 1)
           shown == a \o b \o c \o d \o e
           verdict == IF finished = <<>> THEN <<>>
                      ELSE IF t[finished[1]] = "finished ok"
                      THEN IF shown = <<>> THEN Note("Build OK", 0) ELSE <<>>
                      ELSE IF unique = <<>> THEN Note("Build FAILED", 0) ELSE <<>>
<1>1. CargoBuild(t) = OrWhole(shown \o verdict, t)
  BY Zenon DEF CargoBuild, CargoWarnings
<1>2. unique \in Rows(t) /\ unique # <<>>
  BY Zenon DEF Writes, Picks
<1>3. Take(unique, 8) \in Rows(t) /\ Take(unique, 8) # <<>> /\ \A j \in DOMAIN Take(unique, 8) : j \in DOMAIN unique
  BY <1>2, Zenon DEF Writes, Cuts, Sizes
<1>4. ASSUME NEW j \in DOMAIN Take(unique, 8)
      PROVE  entry(unique[j]) \in N \X Int
  <2>1. t[unique[j]] \in N
    BY <1>3, Zenon DEF Writes, Picks
  <2>2. (IF t[unique[j]] = "plain error" THEN 0 ELSE Len(At(t, {t[unique[j]]}))) \in Int
    BY Zenon DEF Writes, AtIn, Sizes
  <2>3. QED
    BY <2>1, <2>2, Zenon
<1>5. a \in [DOMAIN Take(unique, 8) -> N \X Int]
  <2> HIDE DEF entry, unique
  <2>1. QED
    BY <1>4, Zenon
<1>6. a \in O /\ a # <<>>
  <2> HIDE DEF a, unique
  <2>1. QED
    BY <1>3, <1>5, Zenon DEF Writes, TallyIn
<1>7. b \in O
  BY <1>2, Zenon DEF Writes, MoreIn, Sizes
<1>8. c \in O
  BY Zenon DEF Writes, AtIn, NoteIn, WholeIn
<1>9. d \in O
  BY Zenon DEF Writes, AtIn, NoteIn
<1>10. e \in O
  BY GroupClippyWarningsIn, Zenon
<1>11. <<>> \in O /\ Note("Build FAILED", 0) \in O
  BY Zenon DEF Writes, NoteIn, WholeIn, Sizes
<1> HIDE DEF a, b, c, d, e, unique
<1>12. \A x, y \in O : x \o y \in O /\ (x # <<>> => x \o y # <<>>)
  BY Joins, Zenon
<1>13. a \o b \in O /\ a \o b # <<>>
  BY <1>6, <1>7, <1>12, Zenon
<1>14. a \o b \o c \in O /\ a \o b \o c # <<>>
  BY <1>8, <1>12, <1>13, Zenon
<1>15. a \o b \o c \o d \in O /\ a \o b \o c \o d # <<>>
  BY <1>9, <1>12, <1>14, Zenon
<1>16. shown \in O /\ shown # <<>>
  BY <1>10, <1>12, <1>15, Zenon
<1>17. verdict \in O
  <2> HIDE DEF shown, finished
  <2>1. QED
    BY <1>11, <1>16, Zenon
<1> HIDE DEF shown, verdict
<1>18. shown \o verdict \in O
  BY <1>12, <1>16, <1>17, Zenon
<1>19. QED
  BY <1>1, <1>18, Zenon DEF Writes, WholeIn

\* What the filter of ember test writes of a failure.
LEMMA EmberTestSays ==
  ASSUME NEW O, NEW N, NEW t, Writes(O, N, t), "more failures" \in N, Has(t, {"not ok"})
  PROVE  EmberTest(t) \in O
<1> DEFINE bad == At(t, {"not ok"})
           ends(i) == Where(t, LAMBDA j : j > i /\ t[j] \in {"ok", "not ok", "", "# pass 1", "# fail 1"})
           to(i) == Min({i + 8, (IF ends(i) = <<>> THEN Len(t) + 1 ELSE ends(i)[1]) - 1})
           block(i) == Lines(Where(t, LAMBDA j : j \in i..to(i) /\ t[j] # "---"))
           passes == Final(At(t, {"# pass 1"}), 1)
           fails == Final(At(t, {"# fail 1"}), 1)
           f == [j \in DOMAIN Take(bad, 5) |-> block(bad[j])]
           m == More(bad, 5, "more failures")
           w == IF passes # <<>> /\ fails # <<>> THEN Lines(passes \o fails) ELSE <<>>
<1>1. bad \in Rows(t) /\ bad # <<>> /\ Take(bad, 5) \in Rows(t)
  BY Zenon DEF Writes, AtIn, Picks, Cuts, Sizes
<1>2. EmberTest(t) = FlattenSeq(f) \o m \o w
  BY <1>1, Zenon DEF EmberTest
<1>3. \A i : block(i) \in O
  BY Zenon DEF Where, Writes, Picks, LinesIn
<1>4. w \in O
  BY Zenon DEF Writes, Picks, Cuts, Chains, LinesIn, WholeIn, Sizes
<1>5. m \in O
  BY <1>1, Zenon DEF Writes, MoreIn, Sizes
<1> HIDE DEF block, w, m
<1>6. f \in [DOMAIN Take(bad, 5) -> O]
  BY <1>3, Zenon
<1> HIDE DEF f, bad
<1>7. FlattenSeq(f) \in O
  BY <1>1, <1>6, Zenon DEF Writes, FlatIn
<1>8. \A x, y, z \in O : x \o y \o z \in O
  BY Joins, Zenon
<1>9. QED
  BY <1>2, <1>4, <1>5, <1>7, <1>8, Zenon

\* What the filter of npm audit writes of a failure.
LEMMA NpmAuditSays ==
  ASSUME NEW O, NEW N, NEW t, Writes(O, N, t), "package" \in N, Has(t, {"Severity: high", "3 vulnerabilities"}),
         ~Has(t, {"found 0 vulnerabilities", "10 vulnerabilities"})
  PROVE  NpmAudit(t) \in O
<1> DEFINE named(i) == LET above == {j \in 1..(i - 1) : t[j] \notin {"", "node_modules/a", "fix available"}}
                       IN  IF above = {} THEN 0 ELSE Max(above)
           severe == Take(At(t, {"Severity: high"}), 15)
           last == Lines(Final(At(t, {"3 vulnerabilities", "10 vulnerabilities"}), 1))
           names == [j \in DOMAIN severe |-> <<"package", named(severe[j])>>]
           shown == last \o names
<1>1. Has(t, {"Severity: high"}) \/ Has(t, {"3 vulnerabilities", "10 vulnerabilities"})
  BY Zenon DEF Has
<1>2. severe \in Rows(t) /\ (Has(t, {"Severity: high"}) => severe # <<>>)
  <2>0. At(t, {"Severity: high"}) \in Rows(t)
    BY Zenon DEF Writes, Picks
  <2>1. severe \in Rows(t)
    BY <2>0, Zenon DEF Writes, Cuts, Sizes
  <2>2. Has(t, {"Severity: high"}) => severe # <<>>
    BY Zenon DEF Writes, TakeIn, Sizes
  <2>3. QED
    BY <2>1, <2>2, Zenon
<1>3. last \in O /\ (Has(t, {"3 vulnerabilities", "10 vulnerabilities"}) => last # <<>>)
  BY Zenon DEF Writes, FinalIn, Sizes
<1>4. ASSUME NEW i \in DOMAIN t
      PROVE  named(i) \in Int
  <2> DEFINE above == {j \in 1..(i - 1) : t[j] \notin {"", "node_modules/a", "fix available"}}
  <2>1. above \subseteq 1..(i - 1)
    BY Zenon
  <2>2. above # {} => Max(above) \in Int
    BY <2>1, Zenon DEF Writes, Counts
  <2> HIDE DEF above
  <2>3. (IF above = {} THEN 0 ELSE Max(above)) \in Int
    BY <2>2, Zenon DEF Writes, Sizes
  <2>4. QED
    BY <2>3, Zenon DEF above
<1> HIDE DEF named
<1>5. ASSUME NEW j \in DOMAIN severe
      PROVE  <<"package", named(severe[j])>> \in N \X Int
  <2> HIDE DEF severe
  <2>1. severe[j] \in DOMAIN t
    BY <1>2, Zenon DEF Writes, ChosenIn
  <2>2. QED
    BY <1>4, <2>1, Zenon
<1>6. names \in [DOMAIN severe -> N \X Int]
  <2> HIDE DEF severe
  <2>1. QED
    BY <1>5, Zenon
<1>7. names \in O /\ (Has(t, {"Severity: high"}) => names # <<>>)
  <2> HIDE DEF names, severe
  <2>1. QED
    BY <1>2, <1>6, Zenon DEF Writes, TallyIn
<1>8. NpmAudit(t) = IF shown # <<>> THEN shown
                    ELSE OrWhole(Lines(Take(Where(t, LAMBDA i : t[i] \notin {"", "node_modules/a"}), 20)), t)
  BY Zenon DEF NpmAudit, named
<1> HIDE DEF names, last, severe
<1>9. shown \in O /\ shown # <<>>
  BY <1>1, <1>3, <1>7, Joins, Zenon
<1>10. QED
  BY <1>8, <1>9, Zenon

\* What the filter of git push and git pull writes of a failure.
LEMMA FilterPushPullSays ==
  ASSUME NEW O, NEW N, NEW t, Writes(O, N, t), "..." \in N, DOMAIN t \subseteq Int, Has(t, PushPullErrorTerms)
  PROVE  FilterPushPull(t) \in O
<1> DEFINE S == {i \in DOMAIN t : \E j \in DOMAIN t : t[j] \in PushPullErrorTerms /\ i \in (j - 2)..(j + 2)}
           kept == InOrder(S, t)
           gap(j) == IF j > 1 /\ kept[j] > kept[j - 1] + 1 THEN Note("...", 0) \o <<Line(kept[j])>>
                     ELSE <<Line(kept[j])>>
           gaps == [j \in DOMAIN kept |-> gap(j)]
<1>1. \E i \in S : i \in DOMAIN t
  <2>1. \A i \in Int : i \in (i - 2)..(i + 2)
    OBVIOUS
  <2>2. \A i \in DOMAIN t : i \in (i - 2)..(i + 2)
    BY <2>1, Zenon
  <2>3. QED
    BY <2>2, Zenon DEF Has
<1>2. kept \in Rows(t) /\ kept # <<>>
  <2> HIDE DEF S
  <2>1. QED
    BY <1>1, Zenon DEF Writes, Picks
<1>3. FilterPushPull(t) = FlattenSeq(gaps)
  BY <1>2, Zenon DEF FilterPushPull, Where
<1>4. ASSUME NEW j \in DOMAIN kept
      PROVE  gap(j) \in O
  <2> HIDE DEF kept
  <2>1. <<Line(kept[j])>> \in O
    BY <1>2, Zenon DEF Writes, ChosenIn, LinesIn
  <2>2. Note("...", 0) \in O
    BY Zenon DEF Writes, NoteIn, Sizes
  <2>3. Note("...", 0) \o <<Line(kept[j])>> \in O
    BY <2>1, <2>2, Joins, Zenon
  <2>4. QED
    BY <2>1, <2>3, Zenon
<1> HIDE DEF gap, kept
<1>5. gaps \in [DOMAIN kept -> O]
  BY <1>4, Zenon
<1> HIDE DEF gaps
<1>6. FlattenSeq(gaps) \in O
  BY <1>2, <1>5, Zenon DEF Writes, FlatIn
<1>7. QED
  BY <1>3, <1>6, Zenon

\* The table of kubectl get, whatever its rows.
LEMMA KubectlGetIn ==
  ASSUME NEW O, NEW N, NEW t, Writes(O, N, t), "more" \in N
  PROVE  KubectlGet(t) \in O
<1> DEFINE a == Lines(Take(Filled(t), 1))
           b == Capped(Tail(Filled(t)), 30, "more")
<1>1. Filled(t) # <<>> => Tail(Filled(t)) \in Rows(t)
  BY Zenon DEF Writes, Picks, ChosenIn
<1>2. a \in O
  BY Zenon DEF Writes, Picks, Cuts, Sizes, LinesIn
<1>3. Filled(t) # <<>> => b \in O
  BY <1>1, Zenon DEF Writes, MoreIn, Sizes
<1>4. KubectlGet(t) = IF Filled(t) = <<>> THEN Whole(t) ELSE a \o b
  BY Zenon DEF KubectlGet
<1> HIDE DEF a, b
<1>5. Filled(t) # <<>> => a \o b \in O
  BY <1>2, <1>3, Joins, Zenon
<1>6. QED
  BY <1>4, <1>5, Zenon DEF KubectlGet, Writes, WholeIn

\* What the filter of kubectl get pods writes of a failure.
LEMMA KubectlGetPodsSays ==
  ASSUME NEW O, NEW N, NEW t, Writes(O, N, t), {"more", "running"} \subseteq N,
         \A i \in DOMAIN t : t[i] \in N, Has(t, {"pod Error", "pod Pending"})
  PROVE  KubectlGetPods(t) \in O
<1> DEFINE all == Filled(t)
           pods == Tail(all)
           problem == Chosen({j \in DOMAIN pods : t[pods[j]] \notin HealthyStatuses}, pods)
           states == FirstOf(t, {t[problem[j]] : j \in DOMAIN problem})
           first == Lines(Take(all, 1))
           shown == Lines(problem)
           count == Counted("running", Len(pods) - Len(problem))
           entry(j) == <<t[states[j]], Len(At(t, {t[states[j]]}))>>
           entries == [j \in DOMAIN states |-> entry(j)]
<1>1. KubectlGet(t) \in O /\ Whole(t) \in O
  BY KubectlGetIn, Zenon DEF Writes, WholeIn
<1>2. KubectlGetPods(t) = IF all = <<>> \/ t[all[1]] # "NAME STATUS" THEN KubectlGet(t)
                          ELSE IF pods = <<>> THEN Whole(t)
                          ELSE IF problem = <<>> THEN Note("pods, all running", Len(pods))
                          ELSE first \o shown \o count \o entries
  BY Zenon DEF KubectlGetPods, Only, Where, Chosen
<1>3. CASE all # <<>> /\ t[all[1]] = "NAME STATUS"
  <2>1. all \in Rows(t) /\ pods \in Rows(t)
    BY <1>3, Zenon DEF Writes, Picks, ChosenIn
  <2>2. problem # <<>>
    <3>1. PICK i \in DOMAIN t : t[i] \in {"pod Error", "pod Pending"}
      BY Zenon DEF Has
    <3>2. i \in {j \in DOMAIN t : t[j] # ""}
      BY <3>1, Zenon
    <3>3. PICK j \in DOMAIN all : all[j] = i
      BY <3>1, <3>2, Zenon DEF Writes, Complete, Filled, Where
    <3>4. j # 1
      BY <1>3, <3>1, <3>3, Zenon
    <3>5. PICK k \in DOMAIN pods : pods[k] = i
      <4> HIDE DEF all
      <4>1. QED
        BY <2>1, <3>3, <3>4, Zenon DEF Writes, ChosenIn
    <3>6. k \in {x \in DOMAIN pods : t[pods[x]] \notin HealthyStatuses}
      BY <3>1, <3>5, Zenon DEF HealthyStatuses
    <3> HIDE DEF pods
    <3>7. QED
      BY <2>1, <3>5, <3>6, Zenon DEF Writes, ChosenIn
  <2>3. first \in O
    BY <2>1, Zenon DEF Writes, Cuts, LinesIn, Sizes
  <2>4. problem \in Rows(t)
    <3> HIDE DEF pods
    <3>1. QED
      BY <2>1, Zenon DEF Writes, ChosenIn
  <2>5. shown \in O
    <3> HIDE DEF problem
    <3>1. QED
      BY <2>4, Zenon DEF Writes, LinesIn
  <2>6. count \in O
    <3> HIDE DEF problem, pods
    <3>1. QED
      BY <2>1, <2>4, Zenon DEF Writes, Counts, NoteIn
  <2>7. states \in Rows(t)
    BY Zenon DEF Writes, Picks
  <2>8. \A j \in DOMAIN states : entry(j) \in N \X Int
    <3> HIDE DEF states
    <3>1. TAKE j \in DOMAIN states
    <3>2. states[j] \in DOMAIN t
      BY <2>7, Zenon DEF Writes, ChosenIn
    <3>3. QED
      BY <3>2, Zenon DEF Writes, AtIn
  <2> HIDE DEF entry, states
  <2>9. entries \in [DOMAIN states -> N \X Int]
    BY <2>8, Zenon
  <2> HIDE DEF entries
  <2>10. entries \in O
    BY <2>7, <2>9, Zenon DEF Writes, TallyIn
  <2> HIDE DEF first, shown, count, problem, pods, all
  <2>11. first \o shown \in O
    BY <2>3, <2>5, Joins, Zenon
  <2>12. first \o shown \o count \in O
    BY <2>6, <2>11, Joins, Zenon
  <2>13. first \o shown \o count \o entries \in O
    BY <2>10, <2>12, Joins, Zenon
  <2>14. QED
    BY <1>1, <1>2, <2>2, <2>13, Zenon
<1>4. CASE ~(all # <<>> /\ t[all[1]] = "NAME STATUS")
  BY <1>1, <1>2, <1>4, Zenon
<1>5. QED
  BY <1>3, <1>4, Zenon

\* What git status may say is in progress.
InProgress == {"cherry-pick in progress", "revert in progress", "rebase in progress", "am session in progress",
               "bisect in progress", "merge in progress, unresolved conflicts"}
\* The files of .git that tell of it.
Signs == {"CHERRY_PICK_HEAD", "REVERT_HEAD", "rebase-merge", "rebase-apply", "BISECT_LOG", "MERGE_HEAD"}

\* A sequence of six elements of O.
LEMMA SixIn ==
  ASSUME NEW X, NEW a \in X, NEW b \in X, NEW c \in X, NEW d \in X, NEW e \in X, NEW f \in X
  PROVE  <<a, b, c, d, e, f>> \in Seq(X)
OBVIOUS

\* The first element of a sequence of O.
LEMMA FirstIn ==
  ASSUME NEW X, NEW s \in Seq(X), s # <<>>
  PROVE  s[1] \in X
OBVIOUS

\* The numbers from 1 to 4.
LEMMA OneToFour == 4 \in Nat /\ \A j \in 1..4 : j = 1 \/ j = 2 \/ j = 3 \/ j = 4
OBVIOUS

\* What is in progress is one of InProgress, or nothing.
LEMMA DetectGitInProgressIn ==
  ASSUME NEW O, NEW N, NEW t, Writes(O, N, t), InProgress \subseteq N, NEW state,
         Has(t, UnmergedKinds) \/ "merge in progress, no conflicts" \in N
  PROVE  DetectGitInProgress(state, t) \in O
<1> DEFINE s == <<"CHERRY_PICK_HEAD", "REVERT_HEAD", "rebase-merge", "rebase-apply", "BISECT_LOG", "MERGE_HEAD">>
           S == {j \in DOMAIN s : s[j] \in state}
           first == Chosen(S, s)
<1>1. s \in Seq(Signs)
  <2>1. \A x1, x2, x3, x4, x5, x6 \in Signs : <<x1, x2, x3, x4, x5, x6>> \in Seq(Signs)
    BY SixIn, Zenon
  <2>2. "CHERRY_PICK_HEAD" \in Signs /\ "REVERT_HEAD" \in Signs /\ "rebase-merge" \in Signs
        /\ "rebase-apply" \in Signs /\ "BISECT_LOG" \in Signs /\ "MERGE_HEAD" \in Signs
    BY Zenon DEF Signs
  <2>3. QED
    BY <2>1, <2>2, Zenon
<1> HIDE DEF s
<1>2. first \in Seq(Signs)
  <2> HIDE DEF S
  <2>1. QED
    BY <1>1, ChosenIs, Zenon DEF Chosen
<1> HIDE DEF first
<1>3. first # <<>> => first[1] \in Signs
  <2>1. \A x \in Seq(Signs) : x # <<>> => x[1] \in Signs
    BY FirstIn, Zenon
  <2>2. QED
    BY <1>2, <2>1, Zenon
<1>4. DetectGitInProgress(state, t) =
        IF first = <<>> THEN <<>>
        ELSE CASE first[1] = "CHERRY_PICK_HEAD" -> Note("cherry-pick in progress", 0)
               [] first[1] = "REVERT_HEAD" -> Note("revert in progress", 0)
               [] first[1] = "rebase-merge" -> Note("rebase in progress", 0)
               [] first[1] = "rebase-apply" ->
                    Note(IF "rebase-apply/applying" \in state THEN "am session in progress"
                         ELSE "rebase in progress", 0)
               [] first[1] = "BISECT_LOG" -> Note("bisect in progress", 0)
               [] first[1] = "MERGE_HEAD" ->
                    Note(IF Has(t, UnmergedKinds) THEN "merge in progress, unresolved conflicts"
                         ELSE "merge in progress, no conflicts", 0)
  BY Zenon DEF DetectGitInProgress, Only, Where, first, Chosen, s, S
<1>5. \A what \in N : Note(what, 0) \in O
  BY Zenon DEF Writes, NoteIn, Sizes
<1>6. <<>> \in O
  BY Zenon DEF Writes, WholeIn
<1>7. \A f \in Signs : (CASE f = "CHERRY_PICK_HEAD" -> Note("cherry-pick in progress", 0)
               [] f = "REVERT_HEAD" -> Note("revert in progress", 0)
               [] f = "rebase-merge" -> Note("rebase in progress", 0)
               [] f = "rebase-apply" ->
                    Note(IF "rebase-apply/applying" \in state THEN "am session in progress"
                         ELSE "rebase in progress", 0)
               [] f = "BISECT_LOG" -> Note("bisect in progress", 0)
               [] f = "MERGE_HEAD" ->
                    Note(IF Has(t, UnmergedKinds) THEN "merge in progress, unresolved conflicts"
                         ELSE "merge in progress, no conflicts", 0)) \in O
  <2>1. TAKE f \in Signs
  <2>2. CASE f = "CHERRY_PICK_HEAD"
    BY <1>5, <2>2, Zenon DEF InProgress
  <2>3. CASE f = "REVERT_HEAD"
    BY <1>5, <2>3, Zenon DEF InProgress
  <2>4. CASE f = "rebase-merge"
    BY <1>5, <2>4, Zenon DEF InProgress
  <2>5. CASE f = "rebase-apply"
    BY <1>5, <2>5, Zenon DEF InProgress
  <2>6. CASE f = "BISECT_LOG"
    BY <1>5, <2>6, Zenon DEF InProgress
  <2>7. CASE f = "MERGE_HEAD"
    BY <1>5, <2>7, Zenon DEF InProgress
  <2>8. QED
    BY <2>2, <2>3, <2>4, <2>5, <2>6, <2>7, Zenon DEF Signs
<1>8. QED
  BY <1>3, <1>4, <1>6, <1>7, Zenon

\* What the filter of git status writes of a failure.
LEMMA FilterStatusSays ==
  ASSUME NEW O, NEW N, NEW t, Writes(O, N, t), InProgress \subseteq N, NEW state,
         {"Staged", "Modified", "Untracked", "more staged/modified", "more untracked"} \subseteq N,
         Has(t, UnmergedKinds) \/ "merge in progress, no conflicts" \in N,
         Has(t, {" M a", "M  a", "?? a"} \cup UnmergedKinds), ~Has(t, {"nothing to commit"})
  PROVE  FilterStatus(t, state) \in O
<1> DEFINE staged == At(t, StagedKinds)
           modified == At(t, ModifiedKinds)
           untracked == At(t, {"?? a"})
           d == DetectGitInProgress(state, t)
           a == Note("Staged", Len(staged))
           b == Note("Modified", Len(modified))
           c == Note("Untracked", Len(untracked))
           e == Capped(staged \o modified, 15, "more staged/modified")
           f == Capped(untracked, 10, "more untracked")
<1>1. Has(t, StagedKinds) \/ Has(t, ModifiedKinds) \/ Has(t, {"?? a"})
  BY Zenon DEF Has, StagedKinds, ModifiedKinds, UnmergedKinds
<1>2. staged \in Rows(t) /\ modified \in Rows(t) /\ untracked \in Rows(t)
  BY Zenon DEF Writes, Picks
<1>3. staged # <<>> \/ modified # <<>> \/ untracked # <<>>
  BY <1>1, Zenon DEF Writes, AtIn
<1>4. a \in O /\ b \in O /\ c \in O
  BY Zenon DEF Writes, AtIn, NoteIn
<1>5. FilterStatus(t, state) = d \o (IF staged \o modified \o untracked = <<>>
                                      THEN Note("nothing to commit, working tree clean", 0)
                                      ELSE a \o b \o c \o e \o f)
  BY Zenon DEF FilterStatus
<1> HIDE DEF staged, modified, untracked
<1>6. staged \o modified \in Rows(t) /\ (staged # <<>> \/ modified # <<>> => staged \o modified # <<>>)
  BY <1>2, Zenon DEF Writes, Chains
<1>7. staged \o modified \o untracked # <<>>
  BY <1>2, <1>3, <1>6, Zenon DEF Writes, Chains
<1>8. e \in O /\ f \in O
  BY <1>2, <1>6, Zenon DEF Writes, MoreIn, Sizes
<1>9. d \in O
  BY DetectGitInProgressIn, Zenon
<1> HIDE DEF a, b, c, d, e, f
<1>10. \A x, y \in O : x \o y \in O
  BY Joins, Zenon
<1>11. a \o b \in O
  BY <1>4, <1>10, Zenon
<1>12. a \o b \o c \in O
  BY <1>4, <1>10, <1>11, Zenon
<1>13. a \o b \o c \o e \in O
  BY <1>8, <1>10, <1>12, Zenon
<1>14. a \o b \o c \o e \o f \in O
  BY <1>8, <1>10, <1>13, Zenon
<1>15. QED
  BY <1>5, <1>7, <1>9, <1>10, <1>14, Zenon

\* What the filter of terraform plan writes of a failure.
LEMMA TerraformPlanSays ==
  ASSUME NEW O, NEW N, NEW t, Writes(O, N, t), Has(t, {"Error:", "| Error:"}),
         {"will be created", "will be updated in-place", "must be replaced", "will be destroyed", "more",
          "to add", "to change", "to destroy"} \subseteq N
  PROVE  TerraformPlan(t) \in O
<1> DEFINE summary == Final(At(t, {"Plan: 1 to add"}), 1)
           n(k) == Len(At(t, {k}))
           group(k) == Counted(k, n(k)) \o Capped(At(t, {k}), 8, "more")
           a == Note("to add", n("will be created"))
           b == Note("to change", n("will be updated in-place") + n("must be replaced"))
           c == Note("to destroy", n("will be destroyed"))
           header == IF summary # <<>> THEN Lines(summary) ELSE a \o b \o c
           groups == [j \in 1..4 |-> group(TerraformChanges[j])]
<1>1. TerraformPlan(t) = IF Has(t, {"No changes. Your infrastructure", "No changes."}) THEN Whole(t)
                         ELSE IF Has(t, ToSet(TerraformChanges)) THEN header \o FlattenSeq(groups)
                         ELSE KeepOrWhole(t, {"+ a", "- a", "~ a", "Plan: 1 to add"})
  BY Zenon DEF TerraformPlan
<1>2. ASSUME NEW k \in N
      PROVE  group(k) \in O
  <2> DEFINE x == Counted(k, n(k))
             y == Capped(At(t, {k}), 8, "more")
  <2>1. x \in O /\ y \in O
    BY Zenon DEF Writes, AtIn, NoteIn, CappedIn, Sizes
  <2> HIDE DEF x, y
  <2>2. x \o y \in O
    BY <2>1, Joins, Zenon
  <2>3. QED
    BY <2>2, Zenon DEF x, y
<1>3. a \in O /\ c \in O
  BY Zenon DEF Writes, AtIn, NoteIn
<1>4. b \in O
  BY Zenon DEF Writes, Counts, NoteIn
<1>5. Lines(summary) \in O
  BY Zenon DEF Writes, FinalIn, Sizes
<1>6. TerraformChanges[1] \in N /\ TerraformChanges[2] \in N /\ TerraformChanges[3] \in N /\ TerraformChanges[4] \in N
  BY Zenon DEF TerraformChanges
<1> HIDE DEF group, a, b, c
<1>7. groups \in [1..4 -> O]
  <2>2. \A j \in 1..4 : TerraformChanges[j] \in N
    BY <1>6, OneToFour, Zenon
  <2>3. QED
    BY <1>2, <2>2, Zenon
<1> HIDE DEF groups
<1>8. FlattenSeq(groups) \in O
  BY <1>7, OneToFour, Zenon DEF Writes, FlatIn
<1>9. a \o b \o c \in O
  BY <1>3, <1>4, Joins, Zenon
<1>10. header \in O
  BY <1>5, <1>9, Zenon
<1> HIDE DEF header
<1>11. header \o FlattenSeq(groups) \in O
  BY <1>8, <1>10, Joins, Zenon
<1>12. Whole(t) \in O /\ KeepOrWhole(t, {"+ a", "- a", "~ a", "Plan: 1 to add"}) \in O
  BY Zenon DEF KeepOrWhole, Writes, AtIn, WholeIn
<1>13. QED
  BY <1>1, <1>11, <1>12, Zenon

-----------------------------------------------------------------------------
\* The filters that scan the lines one by one: what their loop carries, that a step
\* keeps it of its kind, and what the scan remembers.

\* A loop whose steps lead from I[i - 1] to I[i] ends in I[n].
LEMMA LoopStays ==
  ASSUME NEW n \in Nat, NEW start, NEW F, NEW I, start \in I[0],
         \A i \in 1..n : \A x \in I[i - 1] : F[i][x] \in I[i]
  PROVE  \E f : Loop(f, start, F, n) /\ \A i \in 0..n : f[i] \in I[i]
<1>1. PICK f : Loop(f, start, F, n)
  BY LoopExists
<1>2. /\ f[0] \in I[0]
      /\ \A i \in 1..n : f[i - 1] \in I[i - 1] => f[i] \in I[i]
  BY <1>1 DEF Loop
<1>3. \A i \in 0..n : f[i] \in I[i]
  BY <1>2, LoopKeeps
<1>4. QED
  BY <1>1, <1>3

\* The lines of t are numbered from 1.
LEMMA Indices ==
  ASSUME NEW Kind, NEW t \in Seq(Kind)
  PROVE  /\ Len(t) \in Nat /\ DOMAIN t = 1..Len(t)
         /\ \A i \in 1..Len(t) : i - 1 \in 0..Len(t) /\ i \in 0..Len(t) /\ i # 0
<1>1. Len(t) \in Nat /\ DOMAIN t = 1..Len(t)
  BY LenProperties, Zenon
<1>2. QED
  BY <1>1

\* A line up to i is i or comes before it.
LEMMA LastOrBefore ==
  ASSUME NEW n \in Nat, NEW i \in 1..n
  PROVE  \A k \in 1..i : k \in 1..(i - 1) \/ k = i
OBVIOUS

\* Rows and one line more are rows.
LEMMA RowsGrow ==
  ASSUME NEW t
  PROVE  /\ <<>> \in Rows(t)
         /\ \A x \in Rows(t) : \A i \in 1..Len(t) : Append(x, i) \in Rows(t) /\ Append(x, i) # <<>>
BY DEF Rows

\* The lines that the runner's scan keeps, and that it keeps one that it looks for.
LEMMA GolangciRunnerIs ==
  ASSUME NEW Kind, NEW t \in Seq(Kind)
  PROVE  /\ Scan(LAMBDA a, i : GolangciStep(t, a, i), <<>>, t) \in Rows(t)
         /\ Has(t, {"ERR"}) => Scan(LAMBDA a, i : GolangciStep(t, a, i), <<>>, t) # <<>>
<1> DEFINE n == Len(t)
           X == Rows(t)
           Holds(i) == {x \in X : \A k \in 1..i : t[k] = "ERR" => x # <<>>}
           start == <<>>
           F == [i \in 1..n |-> [x \in X |-> GolangciStep(t, x, i)]]
           I == [i \in 0..n |-> Holds(i)]
           e(f) == [i \in 0..Len(t) |-> IF i = 0 THEN start ELSE GolangciStep(t, f[i - 1], i)]
           Q == CHOOSE f : f = e(f)
<1>1. start \in Holds(0)
  <2>1. <<>> \in Rows(t)
    BY RowsGrow, Zenon
  <2>2. 1..0 = {}
    OBVIOUS
  <2>3. QED
    BY <2>1, <2>2, Zenon
<1>2. ASSUME NEW i \in 1..n, NEW x \in Holds(i - 1)
      PROVE  GolangciStep(t, x, i) \in Holds(i)
  <2> DEFINE s == GolangciStep(t, x, i)
  <2>1. x \in Rows(t) /\ Append(x, i) \in Rows(t) /\ Append(x, i) # <<>>
    BY RowsGrow, Zenon
  <2>2. s \in Rows(t) /\ (x # <<>> => s # <<>>) /\ (t[i] = "ERR" => s # <<>>)
    BY <2>1, Zenon DEF GolangciStep
  <2> HIDE DEF s
  <2>3. \A k \in 1..i : k \in 1..(i - 1) \/ k = i
    BY Indices, LastOrBefore, Zenon
  <2>4. QED
    BY <2>2, <2>3, Zenon DEF s
<1>3. Scan(LAMBDA a, i : GolangciStep(t, a, i), <<>>, t) = Q[n]
  BY Zenon DEF Scan
<1>4. n \in Nat /\ \A i \in 1..n : i - 1 \in 0..n /\ i \in 0..n /\ i # 0
  BY Indices
<1>5. \A i \in 0..n : Holds(i) \subseteq X /\ I[i] = Holds(i)
  BY Zenon
<1> HIDE DEF X, Holds, I, n, start
<1>6. \A i \in 1..n : \A x \in I[i - 1] : F[i][x] \in I[i]
  BY <1>2, <1>4, <1>5, Zenon
<1>7. 0 \in 0..n /\ n \in 0..n
  BY <1>4
<1>8. start \in I[0]
  BY <1>1, <1>5, <1>7, Zenon
<1> HIDE DEF F
<1>9. PICK f : Loop(f, start, F, n) /\ \A i \in 0..n : f[i] \in I[i]
  BY <1>4, <1>6, <1>8, LoopStays, Zenon
<1>10. f = e(f)
  <2>1. \A i \in 1..n : F[i][f[i - 1]] = GolangciStep(t, f[i - 1], i)
    BY <1>4, <1>5, <1>9, Zenon DEF F
  <2>2. \A i \in 0..n : i # 0 => i \in 1..n
    BY <1>4
  <2>3. f = [i \in 0..n |-> IF i = 0 THEN start ELSE F[i][f[i - 1]]]
    BY <1>9, Zenon DEF Loop
  <2>4. QED
    BY <2>1, <2>2, <2>3, Zenon DEF n
<1>11. Q = e(Q)
  BY <1>10, Zenon
<1> HIDE DEF Q
<1>12. Q[0] \in I[0] /\ \A i \in 1..n : Q[i - 1] \in I[i - 1] => Q[i] \in I[i]
  <2>1. Q[0] = start /\ \A i \in 1..n : Q[i] = GolangciStep(t, Q[i - 1], i)
    BY <1>4, <1>7, <1>11, Zenon DEF n
  <2>2. QED
    BY <1>2, <1>4, <1>5, <1>8, <2>1, Zenon
<1>13. Q[n] \in Holds(n)
  <2>1. \A i \in 0..n : Q[i] \in I[i]
    BY <1>4, <1>12, LoopKeeps, Zenon
  <2>2. QED
    BY <1>5, <1>7, <2>1, Zenon
<1>14. Scan(LAMBDA a, i : GolangciStep(t, a, i), <<>>, t) \in Holds(n)
  BY <1>3, <1>13, Zenon DEF start
<1>15. QED
  BY <1>4, <1>14, Indices, Zenon DEF Has, Holds, X, n

\* What go test's scan carries: the output so far, whether it is within a failure, how
\* many lines of it are shown, the passed tests, and whether a failure was met.
GoState(O) == [out : O, in : BOOLEAN, n : Int, pass : Int, bad : BOOLEAN]

\* The fields of what go test's scan carries.
LEMMA GoParts ==
  ASSUME NEW O, NEW x \in GoState(O)
  PROVE  x.out \in O /\ x.n + 1 \in Int /\ x.pass \in Int /\ x.pass + 1 \in Int
BY DEF GoState

\* Its output changed.
LEMMA GoOut ==
  ASSUME NEW O, NEW x \in GoState(O)
  PROVE  \A o \in O : [x EXCEPT !.out = o] \in GoState(O) /\ [x EXCEPT !.out = o].bad = x.bad
BY DEF GoState

\* Its number of lines changed.
LEMMA GoN ==
  ASSUME NEW O, NEW x \in GoState(O)
  PROVE  \A k \in Int : [x EXCEPT !.n = k] \in GoState(O) /\ [x EXCEPT !.n = k].bad = x.bad
BY DEF GoState

\* Both changed.
LEMMA GoOutN ==
  ASSUME NEW O, NEW x \in GoState(O)
  PROVE  \A o \in O : \A k \in Int : [x EXCEPT !.out = o, !.n = k] \in GoState(O) /\ [x EXCEPT !.out = o, !.n = k].bad = x.bad
BY DEF GoState

\* A test passed.
LEMMA GoPass ==
  ASSUME NEW O, NEW x \in GoState(O)
  PROVE  \A k \in Int : \A b \in BOOLEAN : [x EXCEPT !.pass = k, !.in = b] \in GoState(O) /\ [x EXCEPT !.pass = k, !.in = b].bad = x.bad
BY DEF GoState

\* A test failed: the scan has met a failure.
LEMMA GoFail ==
  ASSUME NEW O, NEW x \in GoState(O)
  PROVE  \A k \in Int : \A b \in BOOLEAN : \A c \in BOOLEAN : [x EXCEPT !.bad = b, !.in = c, !.n = k] \in GoState(O) /\ [x EXCEPT !.bad = b, !.in = c, !.n = k].bad = b
BY DEF GoState

\* A failure was met.
LEMMA GoBad ==
  ASSUME NEW O, NEW x \in GoState(O)
  PROVE  \A b \in BOOLEAN : [x EXCEPT !.bad = b] \in GoState(O) /\ [x EXCEPT !.bad = b].bad = b
BY DEF GoState

\* The scan enters or leaves a failure.
LEMMA GoIn ==
  ASSUME NEW O, NEW x \in GoState(O)
  PROVE  \A b \in BOOLEAN : [x EXCEPT !.in = b] \in GoState(O) /\ [x EXCEPT !.in = b].bad = x.bad
BY DEF GoState

\* The numbers that the scans count to.
LEMMA Numbers == 0 \in Int /\ 1 \in Int /\ 11 \in Int /\ 16 \in Int /\ 30 \in Int /\ 40 \in Int /\ 20 \in Int
OBVIOUS

\* A step of go test's scan: a failure is remembered, and stays so.
LEMMA GoStepIn ==
  ASSUME NEW O, NEW N, NEW t, Writes(O, N, t), "truncated" \in N, NEW x \in GoState(O), NEW i \in DOMAIN t
  PROVE  /\ GoStep(t, x, i) \in GoState(O)
         /\ x.bad = TRUE => GoStep(t, x, i).bad = TRUE
         /\ t[i] \in GoFailed => GoStep(t, x, i).bad = TRUE
<1> DEFINE k == t[i]
           add == [x EXCEPT !.out = Append(@, Line(i))]
           inner == IF x.n < 10 THEN [add EXCEPT !.n = @ + 1]
                    ELSE IF x.n = 10 THEN [x EXCEPT !.out = @ \o Note("truncated", 0), !.n = 11]
                    ELSE x
           b == ~(k = "" /\ inner.n > 2)
           z == GoStep(t, x, i)
           X == GoState(O)
<1>0. x.out \in O /\ x.pass + 1 \in Int
  BY GoParts, Zenon
<1>1. add \in X /\ add.bad = x.bad
  <2>1. Append(x.out, Line(i)) \in O
    BY <1>0, Zenon DEF Writes, AppendIn
  <2>2. QED
    BY <2>1, GoOut, Zenon
<1>2. x.out \o Note("truncated", 0) \in O
  <2>1. Note("truncated", 0) \in O
    BY Numbers, Zenon DEF Writes, NoteIn
  <2>2. QED
    BY <1>0, <2>1, Zenon DEF Writes, JoinIn
<1>3. b \in BOOLEAN
  OBVIOUS
<1>4. z = IF k \in GoNoise THEN x
          ELSE IF k = "--- PASS" THEN [x EXCEPT !.pass = @ + 1, !.in = FALSE]
          ELSE IF k \in GoFailed THEN [add EXCEPT !.bad = TRUE, !.in = TRUE, !.n = 0]
          ELSE IF k = "panic" THEN [add EXCEPT !.bad = TRUE]
          ELSE IF x.in THEN [inner EXCEPT !.in = b]
          ELSE IF k \in {"ok pkg", "error"} THEN add ELSE x
  BY Zenon DEF GoStep
<1>5. [x EXCEPT !.out = @ \o Note("truncated", 0), !.n = 11] \in X
      /\ [x EXCEPT !.out = @ \o Note("truncated", 0), !.n = 11].bad = x.bad
  <2>1. \A o \in O : \A q \in Int : [x EXCEPT !.out = o, !.n = q] \in X /\ [x EXCEPT !.out = o, !.n = q].bad = x.bad
    BY GoOutN, Zenon
  <2> HIDE DEF add, X, z
  <2>2. QED
    BY <1>2, <2>1, Numbers, Zenon
<1> HIDE DEF add, X, z
<1>6. [add EXCEPT !.n = @ + 1] \in X /\ [add EXCEPT !.n = @ + 1].bad = x.bad
  <2>1. add.n + 1 \in Int
    BY <1>1, GoParts, Zenon DEF X
  <2>2. \A q \in Int : [add EXCEPT !.n = q] \in X /\ [add EXCEPT !.n = q].bad = add.bad
    BY <1>1, GoN, Zenon DEF X
  <2>3. QED
    BY <1>1, <2>1, <2>2, Zenon
<1>7. inner \in X /\ inner.bad = x.bad
  BY <1>5, <1>6, Zenon DEF X
<1> HIDE DEF inner, b
<1>8. [inner EXCEPT !.in = b] \in X /\ [inner EXCEPT !.in = b].bad = x.bad
  <2>1. \A c \in BOOLEAN : [inner EXCEPT !.in = c] \in X /\ [inner EXCEPT !.in = c].bad = inner.bad
    BY <1>7, GoIn, Zenon DEF X
  <2>2. QED
    BY <1>3, <1>7, <2>1, Zenon
<1>9. [add EXCEPT !.bad = TRUE, !.in = TRUE, !.n = 0] \in X /\ [add EXCEPT !.bad = TRUE, !.in = TRUE, !.n = 0].bad = TRUE
  <2>1. TRUE \in BOOLEAN
    OBVIOUS
  <2>2. QED
    BY <1>1, <2>1, GoFail, Numbers, Zenon DEF X
<1>10. [add EXCEPT !.bad = TRUE] \in X /\ [add EXCEPT !.bad = TRUE].bad = TRUE
  <2>1. TRUE \in BOOLEAN
    OBVIOUS
  <2>2. QED
    BY <1>1, <2>1, GoBad, Zenon DEF X
<1>11. [x EXCEPT !.pass = @ + 1, !.in = FALSE] \in X /\ [x EXCEPT !.pass = @ + 1, !.in = FALSE].bad = x.bad
  <2>1. FALSE \in BOOLEAN
    OBVIOUS
  <2>2. QED
    BY <1>0, <2>1, GoPass, Zenon DEF X
<1>12. k \in GoFailed => k \notin GoNoise /\ k # "--- PASS"
  BY Zenon DEF GoFailed, GoNoise
<1> HIDE DEF k
<1>13. z \in X /\ (x.bad = TRUE => z.bad = TRUE)
  BY <1>1, <1>4, <1>8, <1>9, <1>10, <1>11, Zenon DEF X
<1>14. k \in GoFailed => z.bad = TRUE
  BY <1>4, <1>9, <1>12, Zenon
<1>15. QED
  BY <1>13, <1>14, Zenon DEF X, z, k

\* Where go test's scan starts.
LEMMA GoStart ==
  ASSUME NEW O, <<>> \in O
  PROVE  [out |-> <<>>, in |-> FALSE, n |-> 0, pass |-> 0, bad |-> FALSE] \in GoState(O)
BY DEF GoState

\* Rows that are some have a first.
LEMMA RowsStart ==
  ASSUME NEW t, NEW s \in Rows(t), s # <<>>
  PROVE  1 \in DOMAIN s
BY DEF Rows

\* All of go test's scan: it has met a failure if there is one.
LEMMA GoScanIs ==
  ASSUME NEW Kind, NEW t \in Seq(Kind), NEW O, NEW N, Writes(O, N, t), "truncated" \in N
  PROVE  /\ Scan(LAMBDA a, i : GoStep(t, a, i), [out |-> <<>>, in |-> FALSE, n |-> 0, pass |-> 0, bad |-> FALSE], t) \in GoState(O)
         /\ Has(t, GoFailed) => Scan(LAMBDA a, i : GoStep(t, a, i), [out |-> <<>>, in |-> FALSE, n |-> 0, pass |-> 0, bad |-> FALSE], t).bad = TRUE
<1> DEFINE n == Len(t)
           X == GoState(O)
           Holds(i) == {x \in X : \A k \in 1..i : t[k] \in GoFailed => x.bad = TRUE}
           start == [out |-> <<>>, in |-> FALSE, n |-> 0, pass |-> 0, bad |-> FALSE]
           F == [i \in 1..n |-> [x \in X |-> GoStep(t, x, i)]]
           I == [i \in 0..n |-> Holds(i)]
           e(f) == [i \in 0..Len(t) |-> IF i = 0 THEN start ELSE GoStep(t, f[i - 1], i)]
           Q == CHOOSE f : f = e(f)
<1>1. start \in Holds(0)
  <2>1. start \in GoState(O)
    BY GoStart, Zenon DEF Writes, WholeIn
  <2>2. 1..0 = {}
    OBVIOUS
  <2>3. QED
    BY <2>1, <2>2, Zenon
<1>2. ASSUME NEW i \in 1..n, NEW x \in Holds(i - 1)
      PROVE  GoStep(t, x, i) \in Holds(i)
  <2> DEFINE s == GoStep(t, x, i)
  <2>1. x \in GoState(O) /\ i \in DOMAIN t
    BY Indices, Zenon
  <2>2. s \in GoState(O) /\ (x.bad = TRUE => s.bad = TRUE) /\ (t[i] \in GoFailed => s.bad = TRUE)
    BY <2>1, GoStepIn, Zenon
  <2> HIDE DEF s
  <2>3. \A k \in 1..i : k \in 1..(i - 1) \/ k = i
    BY Indices, LastOrBefore, Zenon
  <2>4. QED
    BY <2>2, <2>3, Zenon DEF s
<1>3. Scan(LAMBDA a, i : GoStep(t, a, i), [out |-> <<>>, in |-> FALSE, n |-> 0, pass |-> 0, bad |-> FALSE], t) = Q[n]
  BY Zenon DEF Scan
<1>4. n \in Nat /\ \A i \in 1..n : i - 1 \in 0..n /\ i \in 0..n /\ i # 0
  BY Indices
<1>5. \A i \in 0..n : Holds(i) \subseteq X /\ I[i] = Holds(i)
  BY Zenon
<1> HIDE DEF X, Holds, I, n, start
<1>6. \A i \in 1..n : \A x \in I[i - 1] : F[i][x] \in I[i]
  BY <1>2, <1>4, <1>5, Zenon
<1>7. 0 \in 0..n /\ n \in 0..n
  BY <1>4
<1>8. start \in I[0]
  BY <1>1, <1>5, <1>7, Zenon
<1> HIDE DEF F
<1>9. PICK f : Loop(f, start, F, n) /\ \A i \in 0..n : f[i] \in I[i]
  BY <1>4, <1>6, <1>8, LoopStays, Zenon
<1>10. f = e(f)
  <2>1. \A i \in 1..n : F[i][f[i - 1]] = GoStep(t, f[i - 1], i)
    BY <1>4, <1>5, <1>9, Zenon DEF F
  <2>2. \A i \in 0..n : i # 0 => i \in 1..n
    BY <1>4
  <2>3. f = [i \in 0..n |-> IF i = 0 THEN start ELSE F[i][f[i - 1]]]
    BY <1>9, Zenon DEF Loop
  <2>4. QED
    BY <2>1, <2>2, <2>3, Zenon DEF n
<1>11. Q = e(Q)
  BY <1>10, Zenon
<1> HIDE DEF Q
<1>12. Q[0] \in I[0] /\ \A i \in 1..n : Q[i - 1] \in I[i - 1] => Q[i] \in I[i]
  <2>1. Q[0] = start /\ \A i \in 1..n : Q[i] = GoStep(t, Q[i - 1], i)
    BY <1>4, <1>7, <1>11, Zenon DEF n
  <2>2. QED
    BY <1>2, <1>4, <1>5, <1>8, <2>1, Zenon
<1>13. Q[n] \in Holds(n)
  <2>1. \A i \in 0..n : Q[i] \in I[i]
    BY <1>4, <1>12, LoopKeeps, Zenon
  <2>2. QED
    BY <1>5, <1>7, <2>1, Zenon
<1>14. Scan(LAMBDA a, i : GoStep(t, a, i), [out |-> <<>>, in |-> FALSE, n |-> 0, pass |-> 0, bad |-> FALSE], t) \in Holds(n)
  BY <1>3, <1>13, Zenon DEF start
<1>15. QED
  BY <1>4, <1>14, Indices, Zenon DEF Has, Holds, X, n

\* What the filter of go test writes of a failure.
LEMMA GoTestSays ==
  ASSUME NEW Kind, NEW t \in Seq(Kind), NEW O, NEW N, Writes(O, N, t), "truncated" \in N, "tests passed" \in N,
         Has(t, GoFailed),
         ~Has(t, {"{output}", "{pass}", "{fail}", "{skip}", "{FAIL pkg}", "{ok pkg}"})
  PROVE  GoTest(t) \in O
<1> DEFINE z == Scan(LAMBDA a, i : GoStep(t, a, i), [out |-> <<>>, in |-> FALSE, n |-> 0, pass |-> 0, bad |-> FALSE], t)
           first == Take(Filled(t), 1)
<1>1. z \in GoState(O) /\ z.bad = TRUE
  BY GoScanIs, Zenon
<1>2. first # <<>> => t[first[1]] \notin {"{output}", "{pass}", "{fail}", "{skip}", "{FAIL pkg}", "{ok pkg}"}
  <2>1. first \in Rows(t)
    BY Zenon DEF Writes, Picks, Cuts, Sizes
  <2>2. first # <<>> => 1 \in DOMAIN first
    <3>1. \A s \in Rows(t) : s # <<>> => 1 \in DOMAIN s
      BY RowsStart, Zenon
    <3> HIDE DEF first
    <3>2. QED
      BY <2>1, <3>1, Zenon
  <2>3. first # <<>> => first[1] \in DOMAIN t
    BY <2>1, <2>2, Zenon DEF Writes, ChosenIn
  <2>4. QED
    BY <2>3, Zenon DEF Has
<1> HIDE DEF z, first
<1>3. GoTest(t) = z.out \o Counted("tests passed", z.pass)
  BY <1>1, <1>2, Zenon DEF GoTest, z, first
<1>4. z.out \in O /\ z.pass \in Int
  BY <1>1, GoParts, Zenon
<1>5. Counted("tests passed", z.pass) \in O
  BY <1>4, Zenon DEF Writes, NoteIn
<1>6. \A u \in O : \A v \in O : u \o v \in O
  BY Joins, Zenon
<1> DEFINE w == z.out
           c == Counted("tests passed", z.pass)
<1>7. w \in O /\ c \in O
  BY <1>4, <1>5, Zenon
<1>8. GoTest(t) = w \o c
  BY <1>3, Zenon
<1> HIDE DEF w, c
<1>9. w \o c \in O
  BY <1>6, <1>7, Zenon
<1>10. QED
  BY <1>8, <1>9, Zenon

\* What playwright's scan carries: the output, the details of the failure it is within,
\* and whether it is.
PlayState(O) == [out : O, detail : O, in : BOOLEAN]

\* The fields of what playwright's scan carries.
LEMMA PlayParts ==
  ASSUME NEW O, NEW x \in PlayState(O)
  PROVE  x.out \in O /\ x.detail \in O
BY DEF PlayState

\* Where playwright's scan starts.
LEMMA PlayStart ==
  ASSUME NEW O, <<>> \in O
  PROVE  [out |-> <<>>, detail |-> <<>>, in |-> FALSE] \in PlayState(O)
BY DEF PlayState

\* Its details changed.
LEMMA PlayDetail ==
  ASSUME NEW O, NEW x \in PlayState(O)
  PROVE  \A d \in O : [x EXCEPT !.detail = d] \in PlayState(O) /\ [x EXCEPT !.detail = d].out = x.out
BY DEF PlayState

\* Its output changed.
LEMMA PlayOut ==
  ASSUME NEW O, NEW x \in PlayState(O)
  PROVE  \A o \in O : [x EXCEPT !.out = o] \in PlayState(O) /\ [x EXCEPT !.out = o].out = o
BY DEF PlayState

\* All three fields changed.
PlayWith(x, o, d, b) == [x EXCEPT !.out = o, !.detail = d, !.in = b]

\* The change is one within PlayState.
LEMMA PlayAllIn ==
  ASSUME NEW O, NEW x \in PlayState(O)
  PROVE  \A o \in O : \A d \in O : \A b \in BOOLEAN : PlayWith(x, o, d, b) \in PlayState(O)
BY DEF PlayState, PlayWith

\* And gives the output.
LEMMA PlayAllOut ==
  ASSUME NEW O, NEW x \in PlayState(O)
  PROVE  \A o \in O : \A d \in O : \A b \in BOOLEAN : PlayWith(x, o, d, b).out = o
BY DEF PlayState, PlayWith

\* A step of playwright's scan: the output, once there is one, stays; and a failed spec
\* gives one.
LEMMA PlayStepIn ==
  ASSUME NEW O, NEW N, NEW t, Writes(O, N, t), NEW x \in PlayState(O), NEW i \in DOMAIN t
  PROVE  /\ PlaywrightStep(t, x, i) \in PlayState(O)
         /\ x.out # <<>> => PlaywrightStep(t, x, i).out # <<>>
         /\ t[i] = "x spec" => PlaywrightStep(t, x, i).out # <<>>
<1> DEFINE k == t[i]
           X == PlayState(O)
           z == PlaywrightStep(t, x, i)
           o1 == (IF x.in THEN x.out \o x.detail ELSE x.out) \o <<Line(i)>>
           d1 == IF x.in THEN <<>> ELSE x.detail
           o2 == x.out \o x.detail
           d3 == Append(x.detail, Line(i))
           o4 == Append(x.out, Line(i))
           z1 == PlayWith(x, o1, d1, TRUE)
           z2 == PlayWith(x, o2, <<>>, FALSE)
           z3 == [x EXCEPT !.detail = d3]
           z4 == [x EXCEPT !.out = o4]
<1>1. (k = "x spec" => z = z1) /\ (z = z1 \/ z = z2 \/ z = z3 \/ z = z4 \/ z = x)
  BY Zenon DEF PlaywrightStep, PlayWith
<1>2. x.out \in O /\ x.detail \in O /\ <<>> \in O
  BY PlayParts, Zenon DEF Writes, WholeIn
<1>3. o2 \in O /\ (x.out # <<>> => o2 # <<>>)
  BY <1>2, Joins, Zenon
<1>4. o1 \in O /\ o1 # <<>>
  <2> DEFINE p == IF x.in THEN x.out \o x.detail ELSE x.out
  <2>1. p \in O
    BY <1>2, <1>3, Zenon
  <2>2. <<Line(i)>> \in O /\ <<Line(i)>> # <<>>
    <3>1. <<Line(i)>> \in O
      BY Zenon DEF Writes, LinesIn
    <3>2. \A y : <<y>> # <<>>
      OBVIOUS
    <3>3. QED
      BY <3>1, <3>2, Zenon
  <2> HIDE DEF p
  <2>3. p \o <<Line(i)>> \in O /\ p \o <<Line(i)>> # <<>>
    BY <2>1, <2>2, Joins, Zenon
  <2>4. QED
    BY <2>3, Zenon DEF p
<1>5. d1 \in O
  BY <1>2, Zenon
<1>6. d3 \in O /\ o4 \in O /\ o4 # <<>>
  BY <1>2, Zenon DEF Writes, AppendIn
<1>7. TRUE \in BOOLEAN /\ FALSE \in BOOLEAN
  OBVIOUS
<1>8. \A o \in O : \A d \in O : \A b \in BOOLEAN : PlayWith(x, o, d, b) \in X /\ PlayWith(x, o, d, b).out = o
  BY PlayAllIn, PlayAllOut, Zenon
<1>9. (\A d \in O : [x EXCEPT !.detail = d] \in X /\ [x EXCEPT !.detail = d].out = x.out) /\ x \in X
  BY PlayDetail, Zenon
<1>10. \A o \in O : [x EXCEPT !.out = o] \in X /\ [x EXCEPT !.out = o].out = o
  BY PlayOut, Zenon
<1> HIDE DEF X, z, o1, d1, o2, d3, o4
<1>11. z1 \in X /\ z1.out = o1
  BY <1>4, <1>5, <1>7, <1>8, Zenon
<1>12. z2 \in X /\ z2.out = o2
  BY <1>2, <1>3, <1>7, <1>8, Zenon
<1>13. z3 \in X /\ z3.out = x.out
  BY <1>6, <1>9, Zenon
<1>14. z4 \in X /\ z4.out = o4
  BY <1>6, <1>10, Zenon
<1> HIDE DEF z1, z2, z3, z4
<1>15. z \in X /\ (x.out # <<>> => z.out # <<>>)
  BY <1>1, <1>3, <1>4, <1>6, <1>9, <1>11, <1>12, <1>13, <1>14, Zenon
<1>16. k = "x spec" => z.out # <<>>
  BY <1>1, <1>4, <1>11, Zenon
<1>17. QED
  BY <1>15, <1>16, Zenon DEF z, X

\* All of playwright's scan: there is an output if a spec failed.
LEMMA PlayScanIs ==
  ASSUME NEW Kind, NEW t \in Seq(Kind), NEW O, NEW N, Writes(O, N, t)
  PROVE  /\ Scan(LAMBDA a, i : PlaywrightStep(t, a, i), [out |-> <<>>, detail |-> <<>>, in |-> FALSE], t) \in PlayState(O)
         /\ Has(t, {"x spec"}) => Scan(LAMBDA a, i : PlaywrightStep(t, a, i), [out |-> <<>>, detail |-> <<>>, in |-> FALSE], t).out # <<>>
<1> DEFINE n == Len(t)
           X == PlayState(O)
           Holds(i) == {x \in X : \A k \in 1..i : t[k] = "x spec" => x.out # <<>>}
           start == [out |-> <<>>, detail |-> <<>>, in |-> FALSE]
           F == [i \in 1..n |-> [x \in X |-> PlaywrightStep(t, x, i)]]
           I == [i \in 0..n |-> Holds(i)]
           e(f) == [i \in 0..Len(t) |-> IF i = 0 THEN start ELSE PlaywrightStep(t, f[i - 1], i)]
           Q == CHOOSE f : f = e(f)
<1>1. start \in Holds(0)
  <2>1. start \in PlayState(O)
    BY PlayStart, Zenon DEF Writes, WholeIn
  <2>2. 1..0 = {}
    OBVIOUS
  <2>3. QED
    BY <2>1, <2>2, Zenon
<1>2. ASSUME NEW i \in 1..n, NEW x \in Holds(i - 1)
      PROVE  PlaywrightStep(t, x, i) \in Holds(i)
  <2> DEFINE s == PlaywrightStep(t, x, i)
  <2>1. x \in PlayState(O) /\ i \in DOMAIN t
    BY Indices, Zenon
  <2>2. s \in PlayState(O) /\ (x.out # <<>> => s.out # <<>>) /\ (t[i] = "x spec" => s.out # <<>>)
    BY <2>1, PlayStepIn, Zenon
  <2> HIDE DEF s
  <2>3. \A k \in 1..i : k \in 1..(i - 1) \/ k = i
    BY Indices, LastOrBefore, Zenon
  <2>4. QED
    BY <2>2, <2>3, Zenon DEF s
<1>3. Scan(LAMBDA a, i : PlaywrightStep(t, a, i), [out |-> <<>>, detail |-> <<>>, in |-> FALSE], t) = Q[n]
  BY Zenon DEF Scan
<1>4. n \in Nat /\ \A i \in 1..n : i - 1 \in 0..n /\ i \in 0..n /\ i # 0
  BY Indices
<1>5. \A i \in 0..n : Holds(i) \subseteq X /\ I[i] = Holds(i)
  BY Zenon
<1> HIDE DEF X, Holds, I, n, start
<1>6. \A i \in 1..n : \A x \in I[i - 1] : F[i][x] \in I[i]
  BY <1>2, <1>4, <1>5, Zenon
<1>7. 0 \in 0..n /\ n \in 0..n
  BY <1>4
<1>8. start \in I[0]
  BY <1>1, <1>5, <1>7, Zenon
<1> HIDE DEF F
<1>9. PICK f : Loop(f, start, F, n) /\ \A i \in 0..n : f[i] \in I[i]
  BY <1>4, <1>6, <1>8, LoopStays, Zenon
<1>10. f = e(f)
  <2>1. \A i \in 1..n : F[i][f[i - 1]] = PlaywrightStep(t, f[i - 1], i)
    BY <1>4, <1>5, <1>9, Zenon DEF F
  <2>2. \A i \in 0..n : i # 0 => i \in 1..n
    BY <1>4
  <2>3. f = [i \in 0..n |-> IF i = 0 THEN start ELSE F[i][f[i - 1]]]
    BY <1>9, Zenon DEF Loop
  <2>4. QED
    BY <2>1, <2>2, <2>3, Zenon DEF n
<1>11. Q = e(Q)
  BY <1>10, Zenon
<1> HIDE DEF Q
<1>12. Q[0] \in I[0] /\ \A i \in 1..n : Q[i - 1] \in I[i - 1] => Q[i] \in I[i]
  <2>1. Q[0] = start /\ \A i \in 1..n : Q[i] = PlaywrightStep(t, Q[i - 1], i)
    BY <1>4, <1>7, <1>11, Zenon DEF n
  <2>2. QED
    BY <1>2, <1>4, <1>5, <1>8, <2>1, Zenon
<1>13. Q[n] \in Holds(n)
  <2>1. \A i \in 0..n : Q[i] \in I[i]
    BY <1>4, <1>12, LoopKeeps, Zenon
  <2>2. QED
    BY <1>5, <1>7, <2>1, Zenon
<1>14. Scan(LAMBDA a, i : PlaywrightStep(t, a, i), [out |-> <<>>, detail |-> <<>>, in |-> FALSE], t) \in Holds(n)
  BY <1>3, <1>13, Zenon DEF start
<1>15. QED
  BY <1>4, <1>14, Indices, Zenon DEF Has, Holds, X, n

\* What the filter of playwright test writes of a failure.
LEMMA PlaywrightSays ==
  ASSUME NEW Kind, NEW t \in Seq(Kind), NEW O, NEW N, Writes(O, N, t), Has(t, {"x spec"})
  PROVE  Playwright(t) \in O
<1> DEFINE z == Scan(LAMBDA a, i : PlaywrightStep(t, a, i), [out |-> <<>>, detail |-> <<>>, in |-> FALSE], t)
           a == Final(At(t, {"1 failed"}), 1)
           b == Final(At(t, {"1 passed"}), 1)
           c == Final(At(t, {"1 skipped"}), 1)
           r == Final(At(t, {"Running 3 tests"}), 1)
<1>1. z \in PlayState(O) /\ z.out # <<>>
  BY PlayScanIs, Zenon
<1>2. z.out \in O /\ z.detail \in O
  BY <1>1, PlayParts, Zenon
<1>3. a \in Rows(t) /\ b \in Rows(t) /\ c \in Rows(t) /\ r \in Rows(t)
  <2>1. \A K : Final(At(t, K), 1) \in Rows(t)
    BY Zenon DEF Writes, Picks, Cuts, Sizes
  <2>2. QED
    BY <2>1, Zenon
<1>4. Playwright(t) = IF z.out \o z.detail # <<>> THEN z.out \o z.detail \o Lines(a \o b \o c) \o Lines(r)
                      ELSE Playwright(t)
  BY Zenon DEF Playwright
<1> HIDE DEF z, a, b, c, r
<1>5. z.out \o z.detail \in O /\ z.out \o z.detail # <<>>
  BY <1>1, <1>2, Joins, Zenon
<1>6. Lines(a \o b \o c) \in O /\ Lines(r) \in O
  <2>1. \A p, q \in Rows(t) : p \o q \in Rows(t)
    BY Zenon DEF Writes, Chains
  <2>2. a \o b \in Rows(t)
    BY <1>3, <2>1, Zenon
  <2>3. a \o b \o c \in Rows(t)
    BY <1>3, <2>1, <2>2, Zenon
  <2>4. QED
    BY <1>3, <2>3, Zenon DEF Writes, LinesIn
<1>7. \A u \in O : \A v \in O : u \o v \in O
  BY Joins, Zenon
<1> DEFINE w == z.out \o z.detail
           v == Lines(a \o b \o c)
           m == Lines(r)
<1>8. Playwright(t) = w \o v \o m
  BY <1>4, <1>5, Zenon
<1>9. w \in O /\ v \in O /\ m \in O
  BY <1>5, <1>6, Zenon
<1> HIDE DEF w, v, m
<1>10. w \o v \o m \in O
  BY <1>7, <1>9, Zenon
<1>11. QED
  BY <1>8, <1>10, Zenon

\* What bazel's scan carries: whether it is within an error, and the lines it keeps.
BazelState(R) == [in : BOOLEAN, out : R]

\* Where bazel's scan starts.
LEMMA BazelStart ==
  ASSUME NEW R, <<>> \in R
  PROVE  [in |-> FALSE, out |-> <<>>] \in BazelState(R)
BY DEF BazelState

\* A new state of the scan.
LEMMA BazelNew ==
  ASSUME NEW R
  PROVE  \A b \in BOOLEAN : \A r \in R : [in |-> b, out |-> r] \in BazelState(R)
BY DEF BazelState

\* The lines it keeps, and a field changed.
LEMMA BazelParts ==
  ASSUME NEW R, NEW x \in BazelState(R)
  PROVE  /\ x.out \in R
         /\ \A r \in R : [x EXCEPT !.out = r] \in BazelState(R)
         /\ \A b \in BOOLEAN : [x EXCEPT !.in = b] \in BazelState(R)
BY DEF BazelState

\* A step of bazel's scan.
LEMMA BazelStepIn ==
  ASSUME NEW t, NEW x \in BazelState(Rows(t)), NEW i \in DOMAIN t, DOMAIN t = 1..Len(t)
  PROVE  BazelStep(t, x, i) \in BazelState(Rows(t))
<1> DEFINE r == Append(x.out, i)
           X == BazelState(Rows(t))
<1>1. x.out \in Rows(t)
  BY BazelParts, Zenon
<1>2. r \in Rows(t)
  BY <1>1, RowsGrow, Zenon
<1>3. TRUE \in BOOLEAN /\ FALSE \in BOOLEAN
  OBVIOUS
<1>4. [in |-> TRUE, out |-> r] \in X
  BY <1>2, <1>3, BazelNew, Zenon
<1>5. [x EXCEPT !.out = r] \in X
  BY <1>2, BazelParts, Zenon
<1>6. [x EXCEPT !.in = FALSE] \in X
  BY <1>3, BazelParts, Zenon
<1> HIDE DEF X
<1>7. x \in X
  BY Zenon DEF X
<1>8. BazelStep(t, x, i) \in X
  BY <1>4, <1>5, <1>6, <1>7, Zenon DEF BazelStep
<1>9. QED
  BY <1>8, Zenon DEF X

\* All of bazel's scan.
LEMMA BazelScanIn ==
  ASSUME NEW Kind, NEW t \in Seq(Kind), NEW O, NEW N, Writes(O, N, t)
  PROVE  Scan(LAMBDA a, i : BazelStep(t, a, i), [in |-> FALSE, out |-> <<>>], t) \in BazelState(Rows(t))
<1> DEFINE n == Len(t)
           X == BazelState(Rows(t))
           Holds(i) == X
           start == [in |-> FALSE, out |-> <<>>]
           F == [i \in 1..n |-> [x \in X |-> BazelStep(t, x, i)]]
           I == [i \in 0..n |-> Holds(i)]
           e(f) == [i \in 0..Len(t) |-> IF i = 0 THEN start ELSE BazelStep(t, f[i - 1], i)]
           Q == CHOOSE f : f = e(f)
<1>1. start \in Holds(0)
  <2>1. start \in BazelState(Rows(t))
    BY BazelStart, RowsGrow, Zenon DEF Writes, WholeIn
  <2>2. QED
    BY <2>1, Zenon
<1>2. ASSUME NEW i \in 1..n, NEW x \in Holds(i - 1)
      PROVE  BazelStep(t, x, i) \in Holds(i)
  <2> DEFINE s == BazelStep(t, x, i)
  <2>1. x \in BazelState(Rows(t)) /\ i \in DOMAIN t
    BY Indices, Zenon
  <2>2. s \in BazelState(Rows(t))
    BY <2>1, BazelStepIn, Indices, Zenon
  <2> HIDE DEF s
  <2>3. QED
    BY <2>2, Zenon DEF s
<1>3. Scan(LAMBDA a, i : BazelStep(t, a, i), [in |-> FALSE, out |-> <<>>], t) = Q[n]
  BY Zenon DEF Scan
<1>4. n \in Nat /\ \A i \in 1..n : i - 1 \in 0..n /\ i \in 0..n /\ i # 0
  BY Indices
<1>5. \A i \in 0..n : Holds(i) \subseteq X /\ I[i] = Holds(i)
  BY Zenon
<1> HIDE DEF X, Holds, I, n, start
<1>6. \A i \in 1..n : \A x \in I[i - 1] : F[i][x] \in I[i]
  BY <1>2, <1>4, <1>5, Zenon
<1>7. 0 \in 0..n /\ n \in 0..n
  BY <1>4
<1>8. start \in I[0]
  BY <1>1, <1>5, <1>7, Zenon
<1> HIDE DEF F
<1>9. PICK f : Loop(f, start, F, n) /\ \A i \in 0..n : f[i] \in I[i]
  BY <1>4, <1>6, <1>8, LoopStays, Zenon
<1>10. f = e(f)
  <2>1. \A i \in 1..n : F[i][f[i - 1]] = BazelStep(t, f[i - 1], i)
    BY <1>4, <1>5, <1>9, Zenon DEF F
  <2>2. \A i \in 0..n : i # 0 => i \in 1..n
    BY <1>4
  <2>3. f = [i \in 0..n |-> IF i = 0 THEN start ELSE F[i][f[i - 1]]]
    BY <1>9, Zenon DEF Loop
  <2>4. QED
    BY <2>1, <2>2, <2>3, Zenon DEF n
<1>11. Q = e(Q)
  BY <1>10, Zenon
<1> HIDE DEF Q
<1>12. Q[0] \in I[0] /\ \A i \in 1..n : Q[i - 1] \in I[i - 1] => Q[i] \in I[i]
  <2>1. Q[0] = start /\ \A i \in 1..n : Q[i] = BazelStep(t, Q[i - 1], i)
    BY <1>4, <1>7, <1>11, Zenon DEF n
  <2>2. QED
    BY <1>2, <1>4, <1>5, <1>8, <2>1, Zenon
<1>13. Q[n] \in Holds(n)
  <2>1. \A i \in 0..n : Q[i] \in I[i]
    BY <1>4, <1>12, LoopKeeps, Zenon
  <2>2. QED
    BY <1>5, <1>7, <2>1, Zenon
<1>14. Scan(LAMBDA a, i : BazelStep(t, a, i), [in |-> FALSE, out |-> <<>>], t) \in Holds(n)
  BY <1>3, <1>13, Zenon DEF start
<1>15. QED
  BY <1>4, <1>14, Indices, Zenon DEF Has, Holds, X, n

\* What the filter of bazel build writes of a failure.
LEMMA BazelBuildSays ==
  ASSUME NEW Kind, NEW t \in Seq(Kind), NEW O, NEW N, Writes(O, N, t), Has(t, {"ERROR:"})
  PROVE  BazelBuild(t) \in O
<1> DEFINE errors == At(t, {"ERROR:"})
           targets == Scan(LAMBDA a, i : BazelStep(t, a, i), [in |-> FALSE, out |-> <<>>], t).out
           p == Final(At(t, {"INFO: Build completed"}), 1)
           q == Final(At(t, {"INFO: Elapsed"}), 1)
           all == errors \o targets \o (p \o q)
<1>1. targets \in Rows(t)
  BY BazelScanIn, BazelParts, Zenon
<1>2. errors \in Rows(t) /\ errors # <<>>
  BY Zenon DEF Writes, Picks, AtIn
<1>3. p \in Rows(t) /\ q \in Rows(t)
  BY Zenon DEF Writes, Picks, Cuts, Sizes
<1>4. BazelBuild(t) = IF errors \o targets = <<>> /\ Len(p \o q) = 2 THEN Note("build OK", 0) ELSE OrWhole(Lines(all), t)
  BY Zenon DEF BazelBuild
<1> HIDE DEF errors, targets, p, q
<1>5. \A a \in Rows(t) : \A b \in Rows(t) : a \o b \in Rows(t) /\ (a # <<>> => a \o b # <<>>)
  BY Zenon DEF Writes, Chains
<1>6. errors \o targets \in Rows(t) /\ errors \o targets # <<>> /\ p \o q \in Rows(t)
  BY <1>1, <1>2, <1>3, <1>5, Zenon
<1>7. all \in Rows(t)
  BY <1>5, <1>6, Zenon
<1> HIDE DEF all
<1>8. Lines(all) \in O
  BY <1>7, Zenon DEF Writes, LinesIn
<1>9. OrWhole(Lines(all), t) \in O
  BY <1>8, Zenon DEF Writes, WholeIn
<1>10. QED
  BY <1>4, <1>6, <1>9, Zenon

-----------------------------------------------------------------------------
\* A line that must stay: outputs with a line of certain kinds, and what is built of them.

\* The outputs of O that show a line of t of a kind of K.
Showing(O, t, K) == {o \in O : \E j \in DOMAIN o : o[j][1] = "line" /\ o[j][2] \in DOMAIN t /\ t[o[j][2]] \in K}

\* What keeps a line shown.
ShownInOutput(H, O) == \A a \in H : a \in O /\ a # <<>>
ShownInJoin(H, O) == \A a \in H : \A b \in O : a \o b \in H /\ b \o a \in H
ShownInLines(H, t, K) == \A s \in Rows(t) : \A j \in DOMAIN s : t[s[j]] \in K => Lines(s) \in H
ShownInAt(H, t, K) == \A L : K \subseteq L => Lines(At(t, L)) \in H
ShownInCut(H, t, K) == \A k \in Limits : Lines(Take(At(t, K), k)) \in H /\ Lines(Final(At(t, K), k)) \in H
ShownInWhole(H, t) == Whole(t) \in H /\ \A a \in H : OrWhole(a, t) \in H
ShownInAppend(H, O, t, K) ==
  \A i \in DOMAIN t : /\ \A a \in H : Append(a, Line(i)) \in H
                      /\ t[i] \in K => \A a \in O : Append(a, Line(i)) \in H
ShownInDedup(H, t) == \A a \in H : Dedup(a, t) \in H
Keeps(H, O, t, K) ==
  /\ ShownInOutput(H, O) /\ ShownInJoin(H, O) /\ ShownInLines(H, t, K)
  /\ ShownInAt(H, t, K) /\ ShownInCut(H, t, K) /\ ShownInWhole(H, t)
  /\ ShownInAppend(H, O, t, K) /\ ShownInDedup(H, t)

\* A line stays shown when lines come before or after it.
LEMMA JoinShows ==
  ASSUME NEW E, NEW a \in Seq(E), NEW b \in Seq(E), NEW T, NEW f
  PROVE  /\ (\E j \in DOMAIN a : a[j] \in T) => \E j \in DOMAIN (a \o b) : (a \o b)[j] \in T
         /\ (\E j \in DOMAIN b : b[j] \in T) => \E j \in DOMAIN (a \o b) : (a \o b)[j] \in T
<1>1. /\ Len(a) \in Nat /\ Len(b) \in Nat /\ DOMAIN a = 1..Len(a) /\ DOMAIN b = 1..Len(b)
      /\ a \o b \in Seq(E) /\ DOMAIN (a \o b) = 1..(Len(a) + Len(b))
  OBVIOUS
<1>2. ASSUME NEW j \in 1..Len(a)
      PROVE  j \in 1..(Len(a) + Len(b)) /\ (a \o b)[j] = a[j]
  BY <1>1
<1>3. ASSUME NEW j \in 1..Len(b)
      PROVE  Len(a) + j \in 1..(Len(a) + Len(b)) /\ (a \o b)[Len(a) + j] = b[j]
  BY <1>1
<1>4. QED
  BY <1>1, <1>2, <1>3, Zenon

\* A line stays shown when a line is added, which is shown too.
LEMMA AppendShows ==
  ASSUME NEW E, NEW a \in Seq(E), NEW e \in E, NEW T
  PROVE  /\ Append(a, e) \in Seq(E)
         /\ (\E j \in DOMAIN a : a[j] \in T) => \E j \in DOMAIN Append(a, e) : Append(a, e)[j] \in T
         /\ e \in T => \E j \in DOMAIN Append(a, e) : Append(a, e)[j] \in T
<1>1. /\ Len(a) \in Nat /\ DOMAIN a = 1..Len(a)
      /\ Append(a, e) \in Seq(E) /\ DOMAIN Append(a, e) = 1..(Len(a) + 1)
  OBVIOUS
<1>2. ASSUME NEW j \in 1..Len(a)
      PROVE  j \in 1..(Len(a) + 1) /\ Append(a, e)[j] = a[j]
  BY <1>1
<1>3. Len(a) + 1 \in 1..(Len(a) + 1) /\ Append(a, e)[Len(a) + 1] = e
  BY <1>1
<1>4. QED
  BY <1>1, <1>2, <1>3, Zenon

\* Of neighbours of the same text the first stays.
LEMMA DedupShows ==
  ASSUME NEW E, NEW a \in Seq(E), NEW t, NEW K,
         \A j \in DOMAIN a : a[j][1] = "line" => a[j][2] \in DOMAIN t,
         \E j \in DOMAIN a : a[j][1] = "line" /\ a[j][2] \in DOMAIN t /\ t[a[j][2]] \in K
  PROVE  /\ Dedup(a, t) \in Seq(E)
         /\ \E j \in DOMAIN Dedup(a, t) : /\ Dedup(a, t)[j][1] = "line"
                                          /\ Dedup(a, t)[j][2] \in DOMAIN t /\ t[Dedup(a, t)[j][2]] \in K
<1> DEFINE n == Len(a)
           s == [j \in DOMAIN a |-> j]
           shows(j) == a[j][1] = "line" /\ a[j][2] \in DOMAIN t /\ t[a[j][2]] \in K
           same(j) == /\ j > 1 /\ a[j][1] = "line" /\ a[j - 1][1] = "line"
                      /\ t[a[j][2]] = t[a[j - 1][2]]
           S == {j \in DOMAIN s : ~same(s[j])}
           w == InOrder(S, s)
           kept == [j \in DOMAIN w |-> s[w[j]]]
<1>1. n \in Nat /\ DOMAIN a = 1..n
  BY LenProperties, Zenon
<1>2. s \in Seq(1..n) /\ Len(s) = n /\ DOMAIN s = 1..n /\ \A j \in 1..n : s[j] = j
  BY <1>1
<1>3. Dedup(a, t) = [j \in DOMAIN kept |-> a[kept[j]]]
  BY Zenon DEF Dedup, Only, Where
<1>4. /\ kept \in Seq(1..n)
      /\ \A i \in S \cap (1..n) : \E j \in DOMAIN w : w[j] = i
      /\ \A j \in DOMAIN w : w[j] \in S \cap (1..n)
  <2> HIDE DEF S, s
  <2>1. QED
    BY <1>2, ChosenIs
<1>5. PICK j \in 1..n : shows(j) /\ ~(j > 1 /\ shows(j - 1))
  <2> DEFINE T == {j \in 1..n : shows(j)}
  <2>1. T # {} /\ T \subseteq 1..n
    BY <1>1, Zenon
  <2>2. PICK j \in T : \A i \in T : j <= i
    <3> HIDE DEF T
    <3>1. QED
      BY <1>1, <2>1, Least
  <2>3. j \in 1..n /\ shows(j)
    BY <2>2, Zenon
  <2>4. j > 1 => j - 1 \in 1..n /\ ~(j <= j - 1)
    BY <1>1, <2>3
  <2>5. ~(j > 1 /\ shows(j - 1))
    BY <2>2, <2>4, Zenon
  <2>6. QED
    BY <2>3, <2>5, Zenon
<1>6. j \in S
  <2>2. j > 1 => j - 1 \in 1..n
    BY <1>1
  <2>3. s[j] = j /\ j \in DOMAIN s
    BY <1>2, Zenon
  <2>4. ~same(j)
    <3>1. SUFFICES ASSUME same(j)  PROVE FALSE
      BY Zenon
    <3>2. j > 1 /\ a[j - 1][1] = "line" /\ t[a[j][2]] = t[a[j - 1][2]]
      BY <3>1, Zenon
    <3>3. a[j - 1][2] \in DOMAIN t
      BY <1>1, <2>2, <3>2, Zenon
    <3>4. shows(j - 1)
      BY <1>5, <3>2, <3>3, Zenon
    <3>5. QED
      BY <1>5, <3>2, <3>4, Zenon
  <2>5. QED
    BY <2>3, <2>4, Zenon
<1> HIDE DEF S, s, same
<1>7. PICK i \in DOMAIN w : w[i] = j
  BY <1>4, <1>6, Zenon
<1>8. i \in DOMAIN kept /\ kept[i] = j
  BY <1>2, <1>7, Zenon
<1> HIDE DEF kept, w, shows
<1>9. Dedup(a, t) \in Seq(E)
  <2>1. DOMAIN kept = 1..Len(kept) /\ Len(kept) \in Nat /\ \A k \in 1..Len(kept) : kept[k] \in 1..n
    BY <1>4, LenProperties, ElementOfSeq
  <2>2. \A k \in 1..n : a[k] \in E
    BY <1>1, ElementOfSeq
  <2>3. QED
    BY <1>3, <2>1, <2>2
<1>10. i \in DOMAIN Dedup(a, t) /\ Dedup(a, t)[i] = a[j]
  BY <1>3, <1>8, Zenon
<1>11. QED
  BY <1>5, <1>9, <1>10, Zenon DEF shows

\* The outputs with a line of K keep it.
LEMMA Kept ==
  ASSUME NEW Kind, NEW t \in Seq(Kind), NEW N, "line" \notin N, NEW K, Has(t, K)
  PROVE  Keeps(Showing(Outputs(N, Len(t)), t, K), Outputs(N, Len(t)), t, K)
<1> DEFINE n == Len(t)
           O == Outputs(N, n)
           H == Showing(O, t, K)
           T == {e \in Entries(N, n) : e[1] = "line" /\ e[2] \in DOMAIN t /\ t[e[2]] \in K}
<1>0. n \in Nat /\ DOMAIN t = 1..n /\ Rows(t) = Seq(1..n)
  BY LenProperties, Zenon DEF Rows
<1>1. H = {o \in O : \E j \in DOMAIN o : o[j] \in T}
  <2>1. \A o \in O : \A j \in DOMAIN o : o[j] \in Entries(N, n)
    <3> HIDE DEF Entries
    <3>1. QED
      BY DEF Outputs
  <2>2. QED
    BY <2>1, Zenon DEF Showing
<1>2. ShownInOutput(H, O)
  <2>1. \A a \in O : (\E j \in DOMAIN a : TRUE) => a # <<>>
    BY DEF Outputs
  <2>2. QED
    BY <1>1, <2>1, Zenon DEF ShownInOutput
<1>3. ShownInJoin(H, O)
  <2> HIDE DEF T, H
  <2>2. SUFFICES ASSUME NEW a \in H, NEW b \in O
                 PROVE  a \o b \in H /\ b \o a \in H
    BY Zenon DEF ShownInJoin
  <2>3. a \in O /\ \E j \in DOMAIN a : a[j] \in T
    BY <1>1
  <2>4. a \o b \in O /\ b \o a \in O
    BY <2>3, JoinIs
  <2>5. \E j \in DOMAIN (a \o b) : (a \o b)[j] \in T
    <3> HIDE DEF Entries
    <3>1. QED
      BY <2>3, JoinShows, Zenon DEF Outputs
  <2>6. \E j \in DOMAIN (b \o a) : (b \o a)[j] \in T
    <3> HIDE DEF Entries
    <3>1. QED
      BY <2>3, JoinShows, Zenon DEF Outputs
  <2>7. QED
    BY <1>1, <2>4, <2>5, <2>6, Zenon
<1>4. ShownInLines(H, t, K)
  <2>1. SUFFICES ASSUME NEW s \in Seq(1..n), NEW j \in DOMAIN s, t[s[j]] \in K
                 PROVE  Lines(s) \in H
    BY <1>0, Zenon DEF ShownInLines
  <2>2. Lines(s) \in O /\ Len(Lines(s)) = Len(s) /\ \A i \in 1..Len(s) : Lines(s)[i] = <<"line", s[i]>>
    BY <1>0, LinesIs
  <2>3. j \in 1..Len(s) /\ s[j] \in 1..n /\ j \in DOMAIN Lines(s)
    BY <2>2 DEF Outputs
  <2>4. Lines(s)[j] = <<"line", s[j]>>
    BY <2>2, <2>3
  <2>5. Lines(s)[j][1] = "line" /\ Lines(s)[j][2] = s[j]
    BY <2>4
  <2>6. QED
    BY <1>0, <2>1, <2>2, <2>3, <2>5, Zenon DEF Showing
<1>5. PICK i \in 1..n : t[i] \in K
  BY <1>0, Zenon DEF Has
<1>6. ASSUME NEW L, K \subseteq L
      PROVE  \E j \in DOMAIN At(t, L) : t[At(t, L)[j]] \in K
  <2>1. /\ At(t, L) \in Seq(1..n)
        /\ \A m \in 1..Len(t) : t[m] \in L => \E j \in 1..Len(At(t, L)) : At(t, L)[j] = m
    <3> HIDE DEF T, H, O
    <3>1. QED
      BY AtIs
  <2>2. t[i] \in L
    BY <1>5, <1>6
  <2>3. PICK j \in 1..Len(At(t, L)) : At(t, L)[j] = i
    BY <1>5, <2>1, <2>2
  <2>5. j \in DOMAIN At(t, L)
    BY <2>1, <2>3
  <2>6. QED
    BY <1>5, <2>3, <2>5
<1>7. ShownInAt(H, t, K)
  <2>1. \A L : At(t, L) \in Seq(1..n)
    BY AtIs
  <2>2. QED
    BY <1>0, <1>4, <1>6, <2>1, Zenon DEF ShownInAt, ShownInLines
<1>8. ShownInCut(H, t, K)
  <2> DEFINE s == At(t, K)
  <2>1. s \in Seq(1..n) /\ s # <<>> /\ \A j \in 1..Len(s) : t[s[j]] \in K
    BY AtIs
  <2> HIDE DEF s
  <2>2. SUFFICES ASSUME NEW k \in Limits
                 PROVE  Lines(Take(s, k)) \in H /\ Lines(Final(s, k)) \in H
    BY Zenon DEF ShownInCut, s
  <2>3. k \in Nat /\ k > 0 /\ Len(s) \in Nat /\ Len(s) > 0
    BY <2>1 DEF Limits
  <2>4. /\ Take(s, k) \in Seq(1..n)
        /\ Len(Take(s, k)) = IF k <= Len(s) THEN k ELSE Len(s)
        /\ \A j \in 1..Len(Take(s, k)) : Take(s, k)[j] = s[j]
    BY <2>1, <2>3, TakeIs
  <2>5. /\ Final(s, k) \in Seq(1..n)
        /\ Len(Final(s, k)) = IF k <= Len(s) THEN k ELSE Len(s)
        /\ \A j \in 1..Len(Final(s, k)) : Final(s, k)[j] = s[Len(s) - Len(Final(s, k)) + j]
    BY <2>1, <2>3, FinalIs
  <2>6. 1 \in DOMAIN Take(s, k) /\ t[Take(s, k)[1]] \in K
    BY <2>1, <2>3, <2>4
  <2>7. 1 \in DOMAIN Final(s, k) /\ t[Final(s, k)[1]] \in K
    <3>1. Len(Final(s, k)) \in Nat /\ Len(Final(s, k)) > 0 /\ DOMAIN Final(s, k) = 1..Len(Final(s, k))
      BY <2>3, <2>5
    <3>2. Len(Final(s, k)) <= Len(s)
      BY <2>3, <2>5
    <3>3. 1 \in 1..Len(Final(s, k)) /\ Len(s) - Len(Final(s, k)) + 1 \in 1..Len(s)
      BY <2>3, <3>1, <3>2
    <3>4. Final(s, k)[1] = s[Len(s) - Len(Final(s, k)) + 1]
      BY <2>5, <3>3, Zenon
    <3>5. QED
      BY <2>1, <3>1, <3>3, <3>4, Zenon
  <2>8. QED
    BY <1>0, <1>4, <2>4, <2>5, <2>6, <2>7, Zenon DEF ShownInLines
<1>9. ShownInWhole(H, t)
  <2>1. Whole(t) \in O /\ Len(Whole(t)) = n /\ \A m \in 1..n : Whole(t)[m] = <<"line", m>>
    BY WholeIs
  <2>2. i \in DOMAIN Whole(t)
    BY <1>5, <2>1 DEF Outputs
  <2>3. Whole(t)[i][1] = "line" /\ Whole(t)[i][2] = i
    BY <1>5, <2>1
  <2>4. Whole(t) \in H
    BY <1>0, <1>5, <2>1, <2>2, <2>3, Zenon DEF Showing
  <2>5. \A a \in H : OrWhole(a, t) \in H
    BY <1>2, Zenon DEF OrWhole, ShownInOutput
  <2>6. QED
    BY <2>4, <2>5, Zenon DEF ShownInWhole
<1>10. ShownInAppend(H, O, t, K)
  <2> DEFINE e(m) == Line(m)
  <2>1. \A m \in DOMAIN t : e(m) \in Entries(N, n) /\ (t[m] \in K => e(m) \in T)
    <3>1. \A m \in 1..n : e(m) \in Entries(N, n) /\ e(m)[1] = "line" /\ e(m)[2] = m
      BY DEF Line, Entries
    <3> HIDE DEF e
    <3>2. QED
      BY <1>0, <3>1, Zenon
  <2> HIDE DEF T, H, e
  <2>2. ASSUME NEW m \in DOMAIN t, NEW a \in O
        PROVE  /\ Append(a, e(m)) \in O
               /\ (\E j \in DOMAIN a : a[j] \in T) => \E j \in DOMAIN Append(a, e(m)) : Append(a, e(m))[j] \in T
               /\ t[m] \in K => \E j \in DOMAIN Append(a, e(m)) : Append(a, e(m))[j] \in T
    <3> HIDE DEF Entries
    <3>1. QED
      BY <2>1, AppendShows, Zenon DEF Outputs
  <2>3. QED
    BY <1>1, <2>2, Zenon DEF ShownInAppend, e
<1>11. ShownInDedup(H, t)
  <2>1. SUFFICES ASSUME NEW a \in H
                 PROVE  Dedup(a, t) \in H
    BY Zenon DEF ShownInDedup
  <2>2. \A x \in Entries(N, n) : x[1] = "line" => x[2] \in DOMAIN t
    <3>1. \A x \in {"line"} \X (1..n) : x[2] \in 1..n
      OBVIOUS
    <3>2. \A x \in N \X Int : x[1] # "line"
      BY Zenon
    <3>3. QED
      BY <1>0, <3>1, <3>2, Zenon DEF Entries
  <2>3. \A j \in DOMAIN a : a[j] \in Entries(N, n)
    <3>1. a \in O
      BY <2>1, Zenon DEF Showing
    <3> HIDE DEF Entries, H
    <3>2. QED
      BY <3>1 DEF Outputs
  <2> HIDE DEF Entries
  <2>4. QED
    BY <2>1, <2>2, <2>3, DedupShows, Zenon DEF Showing, Outputs
<1>12. QED
  BY <1>2, <1>3, <1>4, <1>7, <1>8, <1>9, <1>10, <1>11, Zenon DEF Keeps

\* Of outputs of A that grow, each stays in A.
Growing(A, O, t) ==
  \A a \in A : /\ \A i \in DOMAIN t : Append(a, Line(i)) \in A
               /\ \A o \in O : a \o o \in A
\* Lines of K are among those of rows.
Among(s, t, K) == \E j \in DOMAIN s : t[s[j]] \in K

\* All outputs grow, and those with a line shown.
LEMMA AllGrow ==
  ASSUME NEW H, NEW O, NEW N, NEW t, NEW K, Writes(O, N, t), Keeps(H, O, t, K)
  PROVE  Growing(O, O, t) /\ Growing(H, O, t)
<1>1. Growing(O, O, t)
  BY Zenon DEF Writes, AppendIn, JoinIn, Growing
<1>2. Growing(H, O, t)
  BY Zenon DEF Keeps, ShownInAppend, ShownInJoin, Growing
<1>3. QED
  BY <1>1, <1>2, Zenon

\* An output of A with line i added is one of B.
Adds(A, B, i) == \A a \in A : Append(a, Line(i)) \in B
\* Outputs with a line of K are in H.
Follows(H, O, t, K) == Growing(H, O, t) /\ \A i \in DOMAIN t : t[i] \in K => Adds(O, H, i)

\* It is so of all outputs, and of those with a line of K shown.
LEMMA FollowsAll ==
  ASSUME NEW O, NEW N, NEW t, Writes(O, N, t)
  PROVE  Follows(O, O, t, {})
BY Zenon DEF Writes, AppendIn, JoinIn, Growing, Follows

\* Outputs with a line of K shown follow too.
LEMMA FollowsKept ==
  ASSUME NEW H, NEW O, NEW N, NEW t, NEW K, Writes(O, N, t), Keeps(H, O, t, K)
  PROVE  Follows(H, O, t, K)
BY AllGrow, Zenon DEF Keeps, ShownInAppend, Follows, Adds

\* What a line adds.
LEMMA AddsIn ==
  ASSUME NEW H, NEW O, NEW N, NEW t, NEW K, Writes(O, N, t), Follows(H, O, t, K), NEW i \in DOMAIN t
  PROVE  /\ Growing(O, O, t) /\ Growing(H, O, t) /\ Adds(O, O, i) /\ Adds(H, H, i)
         /\ t[i] \in K => Adds(O, H, i)
<1>1. Growing(O, O, t) /\ Growing(H, O, t)
  BY FollowsAll, Zenon DEF Follows
<1>2. Adds(O, O, i) /\ Adds(H, H, i)
  BY <1>1, Zenon DEF Growing, Adds
<1>3. QED
  BY <1>1, <1>2, Zenon DEF Follows

-----------------------------------------------------------------------------
\* The linters.

\* What eslint must keep.
EslintFound == {"2 problems"}
\* What the scans of eslint and stylelint carry: the output, the file's line, the lines
\* of the file, and how many are shown.
LintState(O, R) == [out : O, file : R, lines : R, total : Int]

\* Where these scans start.
LEMMA LintStart ==
  ASSUME NEW O, NEW R, <<>> \in O, <<>> \in R
  PROVE  [out |-> <<>>, file |-> <<>>, lines |-> <<>>, total |-> 0] \in LintState(O, R)
BY DEF LintState

\* The fields of what they carry.
LEMMA LintParts ==
  ASSUME NEW O, NEW R, NEW x \in LintState(O, R)
  PROVE  x.out \in O /\ x.file \in R /\ x.lines \in R /\ x.total \in Int /\ x.total + 1 \in Int
         /\ x.total - 20 \in Int /\ x.total - 40 \in Int
BY DEF LintState

\* The output changed to one of others.
LEMMA LintOut ==
  ASSUME NEW A, NEW R, NEW x \in LintState(A, R), NEW B
  PROVE  \A o \in B : [x EXCEPT !.out = o] \in LintState(B, R)
BY DEF LintState

\* The output and the lines changed.
LEMMA LintOutLines ==
  ASSUME NEW O, NEW R, NEW x \in LintState(O, R)
  PROVE  \A o \in O : \A l \in R : [x EXCEPT !.out = o, !.lines = l] \in LintState(O, R)
BY DEF LintState

\* The file and its lines changed.
LEMMA LintFileLines ==
  ASSUME NEW O, NEW R, NEW x \in LintState(O, R)
  PROVE  \A f \in R : \A l \in R : [x EXCEPT !.file = f, !.lines = l] \in LintState(O, R)
BY DEF LintState

\* The file changed.
LEMMA LintFile ==
  ASSUME NEW O, NEW R, NEW x \in LintState(O, R)
  PROVE  \A f \in R : [x EXCEPT !.file = f] \in LintState(O, R)
BY DEF LintState

\* The count and the lines changed.
LEMMA LintTotal ==
  ASSUME NEW O, NEW R, NEW x \in LintState(O, R)
  PROVE  \A n \in Int : \A l \in R : [x EXCEPT !.total = n, !.lines = l] \in LintState(O, R)
BY DEF LintState

\* eslint's scan writes out a file.
LEMMA EslintFlushIn ==
  ASSUME NEW A, NEW O, NEW N, NEW t, Writes(O, N, t), Growing(A, O, t), NEW x \in LintState(A, Rows(t))
  PROVE  EslintFlush(x) \in LintState(A, Rows(t))
<1> DEFINE w == x.file \o x.lines
           o == x.out \o Lines(w)
           X == LintState(A, Rows(t))
<1>1. x.out \in A /\ x.file \in Rows(t) /\ x.lines \in Rows(t)
  BY LintParts, Zenon
<1>2. w \in Rows(t)
  BY <1>1, Zenon DEF Writes, Chains
<1>3. o \in A
  <2> DEFINE l == Lines(w)
  <2> HIDE DEF w
  <2>1. l \in O
    BY <1>2, Zenon DEF Writes, LinesIn
  <2> HIDE DEF l
  <2>2. x.out \o l \in A
    BY <1>1, <2>1, Zenon DEF Growing
  <2>3. QED
    BY <2>2, Zenon DEF l
<1> HIDE DEF w, X
<1>5. EslintFlush(x) = [x EXCEPT !.out = o] \/ EslintFlush(x) = x
  BY Zenon DEF EslintFlush, w
<1> HIDE DEF o
<1>6. [x EXCEPT !.out = o] \in X /\ x \in X
  BY <1>3, LintOut, Zenon DEF X
<1>7. QED
  BY <1>5, <1>6, Zenon DEF X

\* stylelint's scan writes out a file.
LEMMA StylelintFlushIn ==
  ASSUME NEW O, NEW N, NEW t, Writes(O, N, t), NEW x \in LintState(O, Rows(t))
  PROVE  StylelintFlush(x) \in LintState(O, Rows(t))
<1> DEFINE w == x.file \o x.lines
           o == x.out \o Lines(w)
           e == <<>>
           X == LintState(O, Rows(t))
<1>1. x.out \in O /\ x.file \in Rows(t) /\ x.lines \in Rows(t)
  BY LintParts, Zenon
<1>2. w \in Rows(t)
  BY <1>1, Zenon DEF Writes, Chains
<1>3. o \in O
  <2> DEFINE l == Lines(w)
  <2> HIDE DEF w
  <2>1. l \in O
    BY <1>2, Zenon DEF Writes, LinesIn
  <2> HIDE DEF l
  <2>2. x.out \o l \in O
    BY <1>1, <2>1, Joins, Zenon
  <2>3. QED
    BY <2>2, Zenon DEF l
<1>4. e \in Rows(t)
  BY RowsGrow, Zenon
<1> HIDE DEF w, X
<1>5. StylelintFlush(x) = [x EXCEPT !.out = o, !.lines = e] \/ StylelintFlush(x) = x
  BY Zenon DEF StylelintFlush, w
<1> HIDE DEF o, e
<1>6. [x EXCEPT !.out = o, !.lines = e] \in X /\ x \in X
  BY <1>3, <1>4, LintOutLines, Zenon DEF X
<1>7. QED
  BY <1>5, <1>6, Zenon DEF X

\* One line alone is rows.
LEMMA SingleRow ==
  ASSUME NEW t, NEW i \in 1..Len(t)
  PROVE  <<i>> \in Rows(t)
BY DEF Rows

\* A step of eslint's scan: the last line is always added.
LEMMA EslintStepIn ==
  ASSUME NEW A, NEW B, NEW O, NEW N, NEW t, Writes(O, N, t), Growing(A, O, t),
         NEW x \in LintState(A, Rows(t)), NEW i \in DOMAIN t, DOMAIN t = 1..Len(t), Adds(A, B, i)
  PROVE  \/ EslintStep(t, x, i) \in LintState(B, Rows(t))
         \/ EslintStep(t, x, i) \in LintState(A, Rows(t)) /\ t[i] \notin EslintFound
<1> DEFINE X == LintState(A, Rows(t))
           k == t[i]
           z == EslintStep(t, x, i)
           f == EslintFlush(x)
           e == <<>>
           u == <<i>>
           n == x.total + 1
           l == IF x.total < 30 THEN Append(x.lines, i) ELSE x.lines
           o == Append(x.out, Line(i))
           z1 == [f EXCEPT !.file = e, !.lines = e]
           z2 == [f EXCEPT !.file = u, !.lines = e]
           z3 == [x EXCEPT !.total = n, !.lines = l]
           z4 == [x EXCEPT !.out = o]
<1>1. z = z4 \/ ((z = z1 \/ z = z2 \/ z = z3 \/ z = x) /\ k \notin EslintFound)
  <2>1. ASSUME k = "" PROVE z = z1 /\ k \notin EslintFound
    BY <2>1, Zenon DEF EslintStep, Problems, EslintFound
  <2>2. ASSUME k = "/x.js" PROVE z = z2 /\ k \notin EslintFound
    BY <2>2, Zenon DEF EslintStep, Problems, EslintFound
  <2>3. ASSUME k \in Problems PROVE z = z3 /\ k \notin EslintFound
    BY <2>3, Zenon DEF EslintStep, Problems, EslintFound
  <2>4. ASSUME k \in {"2 problems", "0 problems"} PROVE z = z4
    BY <2>4, Zenon DEF EslintStep, Problems
  <2>5. ASSUME ~(k = ""), ~(k = "/x.js"), ~(k \in Problems), ~(k \in {"2 problems", "0 problems"})
        PROVE z = x /\ k \notin EslintFound
    BY <2>5, Zenon DEF EslintStep, EslintFound
  <2> HIDE DEF z, z1, z2, z3, z4
  <2>6. QED
    BY <2>1, <2>2, <2>3, <2>4, <2>5, Zenon
<1>2. x.out \in A /\ x.lines \in Rows(t) /\ n \in Int
  BY LintParts, Zenon
<1>3. e \in Rows(t) /\ u \in Rows(t) /\ l \in Rows(t)
  <2>1. e \in Rows(t) /\ l \in Rows(t)
    BY <1>2, RowsGrow, Zenon
  <2>2. u \in Rows(t)
    BY SingleRow, Zenon
  <2>3. QED
    BY <2>1, <2>2, Zenon
<1>4. o \in B
  BY <1>2, Zenon DEF Adds
<1>5. f \in X /\ x \in X
  BY EslintFlushIn, Zenon
<1> HIDE DEF z, e, u, n, l, o, f, X
<1>6. z1 \in X /\ z2 \in X
  BY <1>3, <1>5, LintFileLines, Zenon DEF X
<1>7. z3 \in X
  BY <1>2, <1>3, <1>5, LintTotal, Zenon DEF X
<1>8. z4 \in LintState(B, Rows(t))
  BY <1>4, <1>5, LintOut, Zenon DEF X
<1> HIDE DEF z1, z2, z3, z4
<1>9. QED
  BY <1>1, <1>5, <1>6, <1>7, <1>8, Zenon DEF X, z, k

\* A step of stylelint's scan.
LEMMA StylelintStepIn ==
  ASSUME NEW O, NEW N, NEW t, Writes(O, N, t), NEW x \in LintState(O, Rows(t)), NEW i \in DOMAIN t, DOMAIN t = 1..Len(t)
  PROVE  StylelintStep(t, x, i) \in LintState(O, Rows(t))
<1> DEFINE X == LintState(O, Rows(t))
           z == StylelintStep(t, x, i)
           f == StylelintFlush(x)
           e == <<>>
           u == <<i>>
           n == x.total + 1
           l == IF x.total < 40 THEN Append(x.lines, i) ELSE x.lines
           o == Append(x.out, Line(i))
           z1 == [f EXCEPT !.file = e]
           z2 == [f EXCEPT !.file = u]
           z3 == [x EXCEPT !.total = n, !.lines = l]
<1>1. z = z1 \/ z = z2 \/ z = z3 \/ z = x
  <2>1. ASSUME t[i] = "" PROVE z = z1
    BY <2>1, Zenon DEF StylelintStep, Problems
  <2>2. ASSUME t[i] = "/x.css" PROVE z = z2
    BY <2>2, Zenon DEF StylelintStep, Problems
  <2>3. ASSUME t[i] \in Problems PROVE z = z3
    BY <2>3, Zenon DEF StylelintStep, Problems
  <2>4. ASSUME ~(t[i] = ""), ~(t[i] = "/x.css"), ~(t[i] \in Problems) PROVE z = x
    BY <2>4, Zenon DEF StylelintStep
  <2> HIDE DEF z, z1, z2, z3
  <2>5. QED
    BY <2>1, <2>2, <2>3, <2>4, Zenon
<1>2. x.out \in O /\ x.lines \in Rows(t) /\ n \in Int
  BY LintParts, Zenon
<1>3. e \in Rows(t) /\ u \in Rows(t) /\ l \in Rows(t)
  <2>1. e \in Rows(t) /\ l \in Rows(t)
    BY <1>2, RowsGrow, Zenon
  <2>2. u \in Rows(t)
    BY SingleRow, Zenon
  <2>3. QED
    BY <2>1, <2>2, Zenon
<1>4. o \in O
  BY <1>2, Zenon DEF Writes, AppendIn
<1>5. f \in X /\ x \in X
  BY StylelintFlushIn, Zenon
<1> HIDE DEF z, e, u, n, l, o, f, X
<1>6. z1 \in X /\ z2 \in X
  BY <1>3, <1>5, LintFile, Zenon DEF X
<1>7. z3 \in X
  BY <1>2, <1>3, <1>5, LintTotal, Zenon DEF X
<1> HIDE DEF z1, z2, z3
<1>9. QED
  BY <1>1, <1>5, <1>6, <1>7, Zenon DEF X, z

\* All of eslint's scan.
LEMMA EslintScanIn ==
  ASSUME NEW H, NEW O, NEW Kind, NEW t \in Seq(Kind), NEW N, NEW K, Writes(O, N, t), Follows(H, O, t, K),
         K \subseteq EslintFound
  PROVE  /\ Scan(LAMBDA a, i : EslintStep(t, a, i), [out |-> <<>>, file |-> <<>>, lines |-> <<>>, total |-> 0], t) \in LintState(O, Rows(t))
         /\ Has(t, K) => Scan(LAMBDA a, i : EslintStep(t, a, i), [out |-> <<>>, file |-> <<>>, lines |-> <<>>, total |-> 0], t) \in LintState(H, Rows(t))
<1> DEFINE n == Len(t)
           X == LintState(O, Rows(t))
           Y == LintState(H, Rows(t))
           Holds(i) == {x \in X : (\E k \in 1..i : t[k] \in K) => x \in Y}
           start == [out |-> <<>>, file |-> <<>>, lines |-> <<>>, total |-> 0]
           F == [i \in 1..n |-> [x \in X |-> EslintStep(t, x, i)]]
           I == [i \in 0..n |-> Holds(i)]
           e(f) == [i \in 0..Len(t) |-> IF i = 0 THEN start ELSE EslintStep(t, f[i - 1], i)]
           Q == CHOOSE f : f = e(f)
<1>1. start \in Holds(0)
  <2>1. start \in X
    BY LintStart, RowsGrow, Zenon DEF Writes, WholeIn
  <2>2. 1..0 = {}
    OBVIOUS
  <2>3. QED
    BY <2>1, <2>2, Zenon
<1>2. ASSUME NEW i \in 1..n, NEW x \in Holds(i - 1)
      PROVE  EslintStep(t, x, i) \in Holds(i)
  <2> DEFINE s == EslintStep(t, x, i)
  <2>1. x \in X /\ i \in DOMAIN t /\ ((\E k \in 1..(i - 1) : t[k] \in K) => x \in Y)
    BY Indices, Zenon
  <2>2. Growing(O, O, t) /\ Growing(H, O, t) /\ Adds(O, O, i) /\ Adds(H, H, i) /\ (t[i] \in K => Adds(O, H, i))
    BY <2>1, AddsIn, Zenon
  <2>3. s \in X
    BY <2>1, <2>2, EslintStepIn, Indices, Zenon
  <2>4. x \in Y => s \in Y
    BY <2>1, <2>2, EslintStepIn, Indices, Zenon
  <2>5. t[i] \in K => s \in Y
    BY <2>1, <2>2, EslintStepIn, Indices, Zenon
  <2> HIDE DEF s, X, Y
  <2>6. \A k \in 1..i : k \in 1..(i - 1) \/ k = i
    BY Indices, LastOrBefore, Zenon
  <2>7. QED
    BY <2>1, <2>3, <2>4, <2>5, <2>6, Zenon DEF s
<1>3. Scan(LAMBDA a, i : EslintStep(t, a, i), [out |-> <<>>, file |-> <<>>, lines |-> <<>>, total |-> 0], t) = Q[n]
  BY Zenon DEF Scan
<1>4. n \in Nat /\ \A i \in 1..n : i - 1 \in 0..n /\ i \in 0..n /\ i # 0
  BY Indices
<1>5. \A i \in 0..n : Holds(i) \subseteq X /\ I[i] = Holds(i)
  BY Zenon
<1> HIDE DEF X, Y, Holds, I, n, start
<1>6. \A i \in 1..n : \A x \in I[i - 1] : F[i][x] \in I[i]
  BY <1>2, <1>4, <1>5, Zenon
<1>7. 0 \in 0..n /\ n \in 0..n
  BY <1>4
<1>8. start \in I[0]
  BY <1>1, <1>5, <1>7, Zenon
<1> HIDE DEF F
<1>9. PICK f : Loop(f, start, F, n) /\ \A i \in 0..n : f[i] \in I[i]
  BY <1>4, <1>6, <1>8, LoopStays, Zenon
<1>10. f = e(f)
  <2>1. \A i \in 1..n : F[i][f[i - 1]] = EslintStep(t, f[i - 1], i)
    BY <1>4, <1>5, <1>9, Zenon DEF F
  <2>2. \A i \in 0..n : i # 0 => i \in 1..n
    BY <1>4
  <2>3. f = [i \in 0..n |-> IF i = 0 THEN start ELSE F[i][f[i - 1]]]
    BY <1>9, Zenon DEF Loop
  <2>4. QED
    BY <2>1, <2>2, <2>3, Zenon DEF n
<1>11. Q = e(Q)
  BY <1>10, Zenon
<1> HIDE DEF Q
<1>12. Q[0] \in I[0] /\ \A i \in 1..n : Q[i - 1] \in I[i - 1] => Q[i] \in I[i]
  <2>1. Q[0] = start /\ \A i \in 1..n : Q[i] = EslintStep(t, Q[i - 1], i)
    BY <1>4, <1>7, <1>11, Zenon DEF n
  <2>2. QED
    BY <1>2, <1>4, <1>5, <1>8, <2>1, Zenon
<1>13. Q[n] \in Holds(n)
  <2>1. \A i \in 0..n : Q[i] \in I[i]
    BY <1>4, <1>12, LoopKeeps, Zenon
  <2>2. QED
    BY <1>5, <1>7, <2>1, Zenon
<1>14. Scan(LAMBDA a, i : EslintStep(t, a, i), [out |-> <<>>, file |-> <<>>, lines |-> <<>>, total |-> 0], t) \in Holds(n)
  BY <1>3, <1>13, Zenon DEF start
<1>15. QED
  BY <1>4, <1>14, Indices, Zenon DEF Has, Holds, X, Y, n

\* All of stylelint's scan.
LEMMA StylelintScanIn ==
  ASSUME NEW Kind, NEW t \in Seq(Kind), NEW O, NEW N, Writes(O, N, t)
  PROVE  Scan(LAMBDA a, i : StylelintStep(t, a, i), [out |-> <<>>, file |-> <<>>, lines |-> <<>>, total |-> 0], t) \in LintState(O, Rows(t))
<1> DEFINE n == Len(t)
           X == LintState(O, Rows(t))
           Holds(i) == X
           start == [out |-> <<>>, file |-> <<>>, lines |-> <<>>, total |-> 0]
           F == [i \in 1..n |-> [x \in X |-> StylelintStep(t, x, i)]]
           I == [i \in 0..n |-> Holds(i)]
           e(f) == [i \in 0..Len(t) |-> IF i = 0 THEN start ELSE StylelintStep(t, f[i - 1], i)]
           Q == CHOOSE f : f = e(f)
<1>1. start \in Holds(0)
  <2>1. start \in LintState(O, Rows(t))
    BY LintStart, RowsGrow, Zenon DEF Writes, WholeIn
  <2>2. QED
    BY <2>1, Zenon
<1>2. ASSUME NEW i \in 1..n, NEW x \in Holds(i - 1)
      PROVE  StylelintStep(t, x, i) \in Holds(i)
  <2> DEFINE s == StylelintStep(t, x, i)
  <2>1. x \in LintState(O, Rows(t)) /\ i \in DOMAIN t
    BY Indices, Zenon
  <2>2. s \in LintState(O, Rows(t))
    BY <2>1, StylelintStepIn, Indices, Zenon
  <2> HIDE DEF s
  <2>3. QED
    BY <2>2, Zenon DEF s
<1>3. Scan(LAMBDA a, i : StylelintStep(t, a, i), [out |-> <<>>, file |-> <<>>, lines |-> <<>>, total |-> 0], t) = Q[n]
  BY Zenon DEF Scan
<1>4. n \in Nat /\ \A i \in 1..n : i - 1 \in 0..n /\ i \in 0..n /\ i # 0
  BY Indices
<1>5. \A i \in 0..n : Holds(i) \subseteq X /\ I[i] = Holds(i)
  BY Zenon
<1> HIDE DEF X, Holds, I, n, start
<1>6. \A i \in 1..n : \A x \in I[i - 1] : F[i][x] \in I[i]
  BY <1>2, <1>4, <1>5, Zenon
<1>7. 0 \in 0..n /\ n \in 0..n
  BY <1>4
<1>8. start \in I[0]
  BY <1>1, <1>5, <1>7, Zenon
<1> HIDE DEF F
<1>9. PICK f : Loop(f, start, F, n) /\ \A i \in 0..n : f[i] \in I[i]
  BY <1>4, <1>6, <1>8, LoopStays, Zenon
<1>10. f = e(f)
  <2>1. \A i \in 1..n : F[i][f[i - 1]] = StylelintStep(t, f[i - 1], i)
    BY <1>4, <1>5, <1>9, Zenon DEF F
  <2>2. \A i \in 0..n : i # 0 => i \in 1..n
    BY <1>4
  <2>3. f = [i \in 0..n |-> IF i = 0 THEN start ELSE F[i][f[i - 1]]]
    BY <1>9, Zenon DEF Loop
  <2>4. QED
    BY <2>1, <2>2, <2>3, Zenon DEF n
<1>11. Q = e(Q)
  BY <1>10, Zenon
<1> HIDE DEF Q
<1>12. Q[0] \in I[0] /\ \A i \in 1..n : Q[i - 1] \in I[i - 1] => Q[i] \in I[i]
  <2>1. Q[0] = start /\ \A i \in 1..n : Q[i] = StylelintStep(t, Q[i - 1], i)
    BY <1>4, <1>7, <1>11, Zenon DEF n
  <2>2. QED
    BY <1>2, <1>4, <1>5, <1>8, <2>1, Zenon
<1>13. Q[n] \in Holds(n)
  <2>1. \A i \in 0..n : Q[i] \in I[i]
    BY <1>4, <1>12, LoopKeeps, Zenon
  <2>2. QED
    BY <1>5, <1>7, <2>1, Zenon
<1>14. Scan(LAMBDA a, i : StylelintStep(t, a, i), [out |-> <<>>, file |-> <<>>, lines |-> <<>>, total |-> 0], t) \in Holds(n)
  BY <1>3, <1>13, Zenon DEF start
<1>15. QED
  BY <1>4, <1>14, Indices, Zenon DEF Has, Holds, X, n

\* What the filter of eslint writes of a failure.
LEMMA EslintSays ==
  ASSUME NEW Kind, NEW t \in Seq(Kind), NEW O, NEW N, Writes(O, N, t), "more errors" \in N, Has(t, Problems)
  PROVE  Eslint(t) \in O
<1> DEFINE a == Scan(LAMBDA a, i : EslintStep(t, a, i), [out |-> <<>>, file |-> <<>>, lines |-> <<>>, total |-> 0], t)
           z == EslintFlush(a)
           m == IF z.total > 30 THEN Note("more errors", z.total - 20) ELSE <<>>
<1> DEFINE K == {}
<1>0. Follows(O, O, t, K) /\ Growing(O, O, t) /\ K \subseteq EslintFound
  BY FollowsAll, Zenon DEF Follows
<1> HIDE DEF K
<1>1. a \in LintState(O, Rows(t))
  BY <1>0, EslintScanIn, Zenon
<1>2. Eslint(t) = IF \A i \in DOMAIN t : t[i] \in {"", "0 problems"} THEN Note("All files clean", 0)
                  ELSE OrWhole(z.out \o m, t)
  BY Zenon DEF Eslint
<1>3. ~\A i \in DOMAIN t : t[i] \in {"", "0 problems"}
  BY Zenon DEF Has, Problems
<1> HIDE DEF a
<1>4. z \in LintState(O, Rows(t))
  BY <1>0, <1>1, EslintFlushIn, Zenon
<1> HIDE DEF z
<1>5. z.out \in O /\ z.total - 20 \in Int
  BY <1>4, LintParts, Zenon
<1>6. m \in O
  BY <1>5, Zenon DEF Writes, NoteIn, WholeIn
<1> HIDE DEF m
<1>7. z.out \o m \in O
  BY <1>5, <1>6, Joins, Zenon
<1>8. OrWhole(z.out \o m, t) \in O
  BY <1>7, Zenon DEF Writes, WholeIn
<1>9. QED
  BY <1>2, <1>3, <1>8, Zenon

\* What the filter of stylelint writes of a failure.
LEMMA StylelintSays ==
  ASSUME NEW Kind, NEW t \in Seq(Kind), NEW O, NEW N, Writes(O, N, t), "more issues" \in N, "issues found" \in N,
         Has(t, Problems)
  PROVE  Stylelint(t) \in O
<1> DEFINE a == Scan(LAMBDA a, i : StylelintStep(t, a, i), [out |-> <<>>, file |-> <<>>, lines |-> <<>>, total |-> 0], t)
           z == StylelintFlush(a)
           summary == Lines(Final(At(t, {"2 problems", "0 problems"}), 1))
           m == IF z.total > 40 THEN Note("more issues", z.total - 40) ELSE <<>>
           s == IF summary # <<>> THEN summary ELSE Note("issues found", z.total)
<1>1. a \in LintState(O, Rows(t))
  BY StylelintScanIn, Zenon
<1>2. Stylelint(t) = IF \A i \in DOMAIN t : t[i] = "" THEN Note("No issues found.", 0)
                     ELSE IF z.out = <<>> THEN OrWhole(summary, t) ELSE z.out \o m \o s
  BY Zenon DEF Stylelint
<1>3. ~\A i \in DOMAIN t : t[i] = ""
  BY Zenon DEF Has, Problems
<1> HIDE DEF a
<1>4. z \in LintState(O, Rows(t))
  BY <1>1, StylelintFlushIn, Zenon
<1> HIDE DEF z
<1>5. z.out \in O /\ z.total - 40 \in Int /\ z.total \in Int
  BY <1>4, LintParts, Zenon
<1>6. summary \in O
  BY Zenon DEF Writes, FinalIn, Sizes
<1>7. m \in O /\ s \in O
  BY <1>5, <1>6, Zenon DEF Writes, NoteIn, WholeIn
<1>8. OrWhole(summary, t) \in O
  BY <1>6, Zenon DEF Writes, WholeIn
<1> HIDE DEF m, s
<1>9. z.out \o m \o s \in O
  BY <1>5, <1>7, Joins, Zenon
<1>10. QED
  BY <1>2, <1>3, <1>8, <1>9, Zenon

\* What maven's scan carries: the output, whether it is within an error, how many of its
\* lines are shown, and whether there was one.
MavenState(O) == [out : O, in : BOOLEAN, n : Int, err : BOOLEAN]

\* Where maven's scan starts.
LEMMA MavenStart ==
  ASSUME NEW O, <<>> \in O
  PROVE  [out |-> <<>>, in |-> FALSE, n |-> 0, err |-> FALSE] \in MavenState(O)
BY DEF MavenState

\* The fields of what it carries.
LEMMA MavenParts ==
  ASSUME NEW O, NEW x \in MavenState(O)
  PROVE  x.out \in O /\ x.n + 1 \in Int
BY DEF MavenState

\* Its output changed.
LEMMA MavenOut ==
  ASSUME NEW O, NEW x \in MavenState(O)
  PROVE  \A o \in O : [x EXCEPT !.out = o] \in MavenState(O)
BY DEF MavenState

\* Whether there was an error changed.
LEMMA MavenErr ==
  ASSUME NEW O, NEW x \in MavenState(O)
  PROVE  \A b \in BOOLEAN : [x EXCEPT !.err = b] \in MavenState(O)
BY DEF MavenState

\* Whether it is within an error changed.
LEMMA MavenIn ==
  ASSUME NEW O, NEW x \in MavenState(O)
  PROVE  \A b \in BOOLEAN : [x EXCEPT !.in = b] \in MavenState(O)
BY DEF MavenState

\* Its count changed.
LEMMA MavenN ==
  ASSUME NEW O, NEW x \in MavenState(O)
  PROVE  \A k \in Int : [x EXCEPT !.n = k] \in MavenState(O)
BY DEF MavenState

\* Both changed.
LEMMA MavenInN ==
  ASSUME NEW O, NEW x \in MavenState(O)
  PROVE  \A b \in BOOLEAN : \A k \in Int : [x EXCEPT !.in = b, !.n = k] \in MavenState(O)
BY DEF MavenState

\* The output and the count changed.
LEMMA MavenOutN ==
  ASSUME NEW O, NEW x \in MavenState(O)
  PROVE  \A o \in O : \A k \in Int : [x EXCEPT !.out = o, !.n = k] \in MavenState(O)
BY DEF MavenState

\* A step of maven's scan.
LEMMA MavenStepIn ==
  ASSUME NEW O, NEW N, NEW t, Writes(O, N, t), "truncated" \in N, NEW x \in MavenState(O), NEW i \in DOMAIN t
  PROVE  MavenStep(t, x, i) \in MavenState(O)
<1> DEFINE X == MavenState(O)
           k == t[i]
           z == MavenStep(t, x, i)
           b == k # ""
           o == Append(x.out, Line(i))
           o2 == x.out \o Note("truncated", 0)
           add == [x EXCEPT !.out = o]
           n == add.n + 1
           full == [x EXCEPT !.out = o2, !.n = 16]
           inner == IF x.n < 15 THEN [add EXCEPT !.n = n] ELSE IF x.n = 15 THEN full ELSE x
           z1 == [add EXCEPT !.err = TRUE]
           z2 == [add EXCEPT !.in = TRUE, !.n = 0]
           z3 == [inner EXCEPT !.in = b]
           z4 == [add EXCEPT !.err = FALSE]
<1>1. z = x \/ z = add \/ z = z1 \/ z = z2 \/ z = z3 \/ z = z4
  <2> DEFINE inside == {"", "text", "[WARNING]", "[INFO] BUILD SUCCESS", "[INFO] BUILD FAILURE"}
  <2>1. ASSUME k = "[INFO] Downloading" PROVE z = x
    BY <2>1, Zenon DEF MavenStep
  <2>2. ASSUME k = "[ERROR]" PROVE z = z1
    BY <2>2, Zenon DEF MavenStep
  <2>3. ASSUME k = "Tests run: 2, Failures: 1" PROVE z = add
    BY <2>3, Zenon DEF MavenStep
  <2>4. ASSUME k = "FAILED" PROVE z = z2
    BY <2>4, Zenon DEF MavenStep
  <2>5. ASSUME x.in, k \in inside PROVE z = z3
    BY <2>5, Zenon DEF MavenStep
  <2>6. ASSUME ~x.in, k = "[WARNING]" PROVE z = add
    BY <2>6, Zenon DEF MavenStep
  <2>7. ASSUME ~x.in, k \in {"", "text"} PROVE z = IF x.err THEN add ELSE x
    BY <2>7, Zenon DEF MavenStep
  <2>8. ASSUME ~x.in, k \in {"[INFO] BUILD SUCCESS", "[INFO] BUILD FAILURE"} PROVE z = z4
    BY <2>8, Zenon DEF MavenStep
  <2>9. ASSUME k \notin inside, k # "[INFO] Downloading", k # "[ERROR]", k # "Tests run: 2, Failures: 1", k # "FAILED"
        PROVE z = x
    BY <2>9, Zenon DEF MavenStep
  <2>10. z = add \/ z = x \/ ~(~x.in /\ k \in {"", "text"})
    <3> HIDE DEF z, add
    <3>1. QED
      BY <2>7, Zenon
  <2> HIDE DEF z, z1, z2, z3, z4, add
  <2>11. QED
    BY <2>1, <2>2, <2>3, <2>4, <2>5, <2>6, <2>8, <2>9, <2>10, Zenon
<1>2. x.out \in O
  BY MavenParts, Zenon
<1>3. o \in O
  BY <1>2, Zenon DEF Writes, AppendIn
<1>4. o2 \in O
  <2>1. Note("truncated", 0) \in O
    BY Numbers, Zenon DEF Writes, NoteIn
  <2>2. QED
    BY <1>2, <2>1, Joins, Zenon
<1>5. TRUE \in BOOLEAN /\ FALSE \in BOOLEAN /\ b \in BOOLEAN
  OBVIOUS
<1>6. x \in X
  BY Zenon
<1> HIDE DEF X, z, o, o2, b
<1>7. add \in X
  BY <1>3, <1>6, MavenOut, Zenon DEF X
<1>8. full \in X
  BY <1>4, <1>6, MavenOutN, Numbers, Zenon DEF X
<1> HIDE DEF add, full
<1>9. n \in Int
  BY <1>7, MavenParts, Zenon DEF X
<1> HIDE DEF n
<1>10. [add EXCEPT !.n = n] \in X
  BY <1>7, <1>9, MavenN, Zenon DEF X
<1>11. inner \in X
  <2> DEFINE w == [add EXCEPT !.n = n]
  <2> HIDE DEF w
  <2>1. w \in X
    BY <1>10, Zenon DEF w
  <2>2. QED
    BY <1>6, <1>8, <2>1, Zenon DEF w
<1> HIDE DEF inner
<1>12. z1 \in X /\ z4 \in X
  BY <1>5, <1>7, MavenErr, Zenon DEF X
<1>13. z2 \in X
  BY <1>5, <1>7, MavenInN, Numbers, Zenon DEF X
<1>14. z3 \in X
  BY <1>5, <1>11, MavenIn, Zenon DEF X
<1> HIDE DEF z1, z2, z3, z4
<1>15. QED
  BY <1>1, <1>6, <1>7, <1>12, <1>13, <1>14, Zenon DEF X, z

\* All of maven's scan.
LEMMA MavenScanIn ==
  ASSUME NEW Kind, NEW t \in Seq(Kind), NEW O, NEW N, Writes(O, N, t), "truncated" \in N
  PROVE  Scan(LAMBDA a, i : MavenStep(t, a, i), [out |-> <<>>, in |-> FALSE, n |-> 0, err |-> FALSE], t) \in MavenState(O)
<1> DEFINE n == Len(t)
           X == MavenState(O)
           Holds(i) == X
           start == [out |-> <<>>, in |-> FALSE, n |-> 0, err |-> FALSE]
           F == [i \in 1..n |-> [x \in X |-> MavenStep(t, x, i)]]
           I == [i \in 0..n |-> Holds(i)]
           e(f) == [i \in 0..Len(t) |-> IF i = 0 THEN start ELSE MavenStep(t, f[i - 1], i)]
           Q == CHOOSE f : f = e(f)
<1>1. start \in Holds(0)
  <2>1. start \in MavenState(O)
    BY MavenStart, RowsGrow, Zenon DEF Writes, WholeIn
  <2>2. QED
    BY <2>1, Zenon
<1>2. ASSUME NEW i \in 1..n, NEW x \in Holds(i - 1)
      PROVE  MavenStep(t, x, i) \in Holds(i)
  <2> DEFINE s == MavenStep(t, x, i)
  <2>1. x \in MavenState(O) /\ i \in DOMAIN t
    BY Indices, Zenon
  <2>2. s \in MavenState(O)
    BY <2>1, MavenStepIn, Zenon
  <2> HIDE DEF s
  <2>3. QED
    BY <2>2, Zenon DEF s
<1>3. Scan(LAMBDA a, i : MavenStep(t, a, i), [out |-> <<>>, in |-> FALSE, n |-> 0, err |-> FALSE], t) = Q[n]
  BY Zenon DEF Scan
<1>4. n \in Nat /\ \A i \in 1..n : i - 1 \in 0..n /\ i \in 0..n /\ i # 0
  BY Indices
<1>5. \A i \in 0..n : Holds(i) \subseteq X /\ I[i] = Holds(i)
  BY Zenon
<1> HIDE DEF X, Holds, I, n, start
<1>6. \A i \in 1..n : \A x \in I[i - 1] : F[i][x] \in I[i]
  BY <1>2, <1>4, <1>5, Zenon
<1>7. 0 \in 0..n /\ n \in 0..n
  BY <1>4
<1>8. start \in I[0]
  BY <1>1, <1>5, <1>7, Zenon
<1> HIDE DEF F
<1>9. PICK f : Loop(f, start, F, n) /\ \A i \in 0..n : f[i] \in I[i]
  BY <1>4, <1>6, <1>8, LoopStays, Zenon
<1>10. f = e(f)
  <2>1. \A i \in 1..n : F[i][f[i - 1]] = MavenStep(t, f[i - 1], i)
    BY <1>4, <1>5, <1>9, Zenon DEF F
  <2>2. \A i \in 0..n : i # 0 => i \in 1..n
    BY <1>4
  <2>3. f = [i \in 0..n |-> IF i = 0 THEN start ELSE F[i][f[i - 1]]]
    BY <1>9, Zenon DEF Loop
  <2>4. QED
    BY <2>1, <2>2, <2>3, Zenon DEF n
<1>11. Q = e(Q)
  BY <1>10, Zenon
<1> HIDE DEF Q
<1>12. Q[0] \in I[0] /\ \A i \in 1..n : Q[i - 1] \in I[i - 1] => Q[i] \in I[i]
  <2>1. Q[0] = start /\ \A i \in 1..n : Q[i] = MavenStep(t, Q[i - 1], i)
    BY <1>4, <1>7, <1>11, Zenon DEF n
  <2>2. QED
    BY <1>2, <1>4, <1>5, <1>8, <2>1, Zenon
<1>13. Q[n] \in Holds(n)
  <2>1. \A i \in 0..n : Q[i] \in I[i]
    BY <1>4, <1>12, LoopKeeps, Zenon
  <2>2. QED
    BY <1>5, <1>7, <2>1, Zenon
<1>14. Scan(LAMBDA a, i : MavenStep(t, a, i), [out |-> <<>>, in |-> FALSE, n |-> 0, err |-> FALSE], t) \in Holds(n)
  BY <1>3, <1>13, Zenon DEF start
<1>15. QED
  BY <1>4, <1>14, Indices, Zenon DEF Has, Holds, X, n

\* What the filter of mvn writes of a failure.
LEMMA MavenSays ==
  ASSUME NEW Kind, NEW t \in Seq(Kind), NEW O, NEW N, Writes(O, N, t), "truncated" \in N, "[INFO] BUILD FAILURE" \in N,
         ~Has(t, {"[INFO] BUILD SUCCESS"})
  PROVE  Maven(t) \in O
<1> DEFINE out0 == Scan(LAMBDA a, i : MavenStep(t, a, i), [out |-> <<>>, in |-> FALSE, n |-> 0, err |-> FALSE], t).out
           good == Verdict(t, out0, "[INFO] BUILD SUCCESS")
           bad == Verdict(t, out0, "[INFO] BUILD FAILURE")
<1>1. out0 \in O
  BY MavenScanIn, MavenParts, Zenon
<1>2. Maven(t) = IF out0 = <<>> THEN Whole(t) ELSE out0 \o IF good # <<>> THEN good ELSE bad
  BY Zenon DEF Maven
<1> HIDE DEF out0
<1>3. good = <<>>
  BY Zenon DEF Verdict
<1>4. bad \in O
  <2>1. Note("[INFO] BUILD FAILURE", 0) \in O /\ <<>> \in O
    BY Numbers, Zenon DEF Writes, NoteIn, WholeIn
  <2>2. bad = Note("[INFO] BUILD FAILURE", 0) \/ bad = <<>>
    BY Zenon DEF Verdict
  <2> HIDE DEF bad
  <2>3. QED
    BY <2>1, <2>2, Zenon
<1> HIDE DEF good, bad
<1>5. out0 \o bad \in O /\ Whole(t) \in O
  BY <1>1, <1>4, Joins, Zenon DEF Writes, WholeIn
<1>6. QED
  BY <1>2, <1>3, <1>5, Zenon

\* The places of s are rows of it.
LEMMA CountRows ==
  ASSUME NEW Kind, NEW s \in Seq(Kind)
  PROVE  [j \in DOMAIN s |-> j] \in Seq(DOMAIN s)
<1>1. DOMAIN s = 1..Len(s) /\ Len(s) \in Nat
  BY LenProperties
<1>2. QED
  BY <1>1

\* The diagnostics of s by file, when all the files are among the names N.
LEMMA ByFileIn ==
  ASSUME NEW O, NEW N, NEW t, Writes(O, N, t), NEW Kind, NEW s \in Seq(Kind), s \in Rows(t), NEW fileOf,
         \A j \in DOMAIN s : fileOf[t[s[j]]] \in N
  PROVE  ByFile(t, s, fileOf) \in O
<1> DEFINE c == [j \in DOMAIN s |-> j]
           S == {j \in DOMAIN c : \A m \in 1..(c[j] - 1) : fileOf[t[s[m]]] # fileOf[t[s[c[j]]]]}
           heads == [j \in DOMAIN InOrder(S, c) |-> c[InOrder(S, c)[j]]]
           g(f) == Chosen({j \in DOMAIN s : fileOf[t[s[j]]] = f}, s)
           e(f) == Note(f, 0) \o Lines(g(f))
           ff == [x \in DOMAIN heads |-> e(fileOf[t[s[heads[x]]]])]
<1>1. ByFile(t, s, fileOf) = FlattenSeq(ff)
  BY Zenon DEF ByFile, Only, Where, Chosen
<1>2. heads \in Seq(DOMAIN s)
  <2>1. c \in Seq(DOMAIN s)
    BY CountRows
  <2> HIDE DEF S, c
  <2>2. QED
    BY <2>1, ChosenIs, Zenon
<1> HIDE DEF heads
<1>3. \A x \in DOMAIN heads : heads[x] \in DOMAIN s
  <2>1. DOMAIN heads = 1..Len(heads)
    BY <1>2, LenProperties, Zenon
  <2>2. QED
    BY <1>2, <2>1, ElementOfSeq, Zenon
<1>4. \A f \in N : e(f) \in O
  <2>1. TAKE f \in N
  <2>2. g(f) \in Rows(t)
    BY Zenon DEF Writes, ChosenIn
  <2> HIDE DEF g
  <2>3. Lines(g(f)) \in O
    BY <2>2, Zenon DEF Writes, LinesIn
  <2>4. Note(f, 0) \in O
    BY Numbers, Zenon DEF Writes, NoteIn
  <2> DEFINE p == Note(f, 0)
             q == Lines(g(f))
  <2>5. p \in O /\ q \in O
    BY <2>3, <2>4, Zenon
  <2> HIDE DEF p, q
  <2>6. p \o q \in O
    BY <2>5, Joins, Zenon
  <2>7. QED
    BY <2>6, Zenon DEF p, q
<1> HIDE DEF e
<1>5. ff \in [DOMAIN heads -> O]
  BY <1>3, <1>4, Zenon
<1>6. DOMAIN heads = 1..Len(heads) /\ Len(heads) \in Nat
  BY <1>2, LenProperties, Zenon
<1> HIDE DEF ff
<1>7. FlattenSeq(ff) \in O
  BY <1>5, <1>6, Zenon DEF Writes, FlatIn
<1>8. QED
  BY <1>1, <1>7, Zenon

\* golangci-lint's lines of diagnostics.
Diagnostics == {"a.go: error", "a.go: warning", "b.go: warning"}
\* Its issues, as JSON.
Issues == {"{issue a}", "{issue b}"}

\* The files they are in are among the names.
LEMMA GoFilesIn ==
  ASSUME NEW N, {"a.go", "b.go"} \subseteq N
  PROVE  \A k \in Diagnostics \cup Issues : GoFileOf[k] \in N
BY Zenon DEF GoFileOf, Diagnostics, Issues

\* The first forty of the lines of kinds K, and what is chosen of them.
LEMMA FirstForty ==
  ASSUME NEW O, NEW N, NEW t, Writes(O, N, t), NEW K
  PROVE  /\ Take(At(t, K), 40) \in Rows(t) /\ At(t, K) \in Rows(t)
         /\ \A j \in DOMAIN Take(At(t, K), 40) : t[Take(At(t, K), 40)[j]] \in K
<1> DEFINE s == At(t, K)
           w == Take(s, 40)
<1>1. s \in Rows(t) /\ \A j \in DOMAIN s : t[s[j]] \in K
  BY Zenon DEF Writes, Picks
<1> HIDE DEF s
<1>2. w \in Rows(t) /\ \A j \in DOMAIN w : j \in DOMAIN s /\ w[j] = s[j]
  BY <1>1, Zenon DEF Writes, Cuts, Sizes
<1> HIDE DEF w
<1>3. \A j \in DOMAIN w : t[w[j]] \in K
  BY <1>1, <1>2, Zenon
<1>4. QED
  BY <1>1, <1>2, <1>3, Zenon DEF w, s

\* What is chosen of lines of the kinds K is of these kinds.
LEMMA ChosenKinds ==
  ASSUME NEW O, NEW N, NEW t, Writes(O, N, t), NEW s \in Rows(t), NEW K, \A j \in DOMAIN s : t[s[j]] \in K
  PROVE  \A Z : \A j \in DOMAIN Chosen(Z, s) : t[Chosen(Z, s)[j]] \in K
<1>1. \A S : \A k \in DOMAIN Chosen(S, s) : \E i \in S : i \in DOMAIN s /\ Chosen(S, s)[k] = s[i]
  BY Zenon DEF Writes, ChosenIn
<1>2. TAKE Z
<1> DEFINE w == Chosen(Z, s)
<1>3. \A j \in DOMAIN w : \E i \in Z : i \in DOMAIN s /\ w[j] = s[i]
  BY <1>1, Zenon
<1> HIDE DEF w
<1>4. \A j \in DOMAIN w : t[w[j]] \in K
  BY <1>3, Zenon
<1>5. QED
  BY <1>4, Zenon DEF w

\* Rows of lines of P after rows of lines of P are rows of lines of P.
LEMMA JoinedOf ==
  ASSUME NEW t, NEW P, NEW r \in Rows(t), NEW q \in Rows(t), \A j \in DOMAIN r : r[j] \in P, \A j \in DOMAIN q : q[j] \in P
  PROVE  \A j \in DOMAIN (r \o q) : (r \o q)[j] \in P
<1>1. DOMAIN r = 1..Len(r) /\ DOMAIN q = 1..Len(q) /\ Len(r) \in Nat /\ Len(q) \in Nat
  BY LenProperties DEF Rows
<1>2. DOMAIN (r \o q) = 1..(Len(r) + Len(q))
  BY <1>1 DEF Rows
<1>3. TAKE j \in DOMAIN (r \o q)
<1>4. CASE j <= Len(r)
  <2>1. (r \o q)[j] = r[j] /\ j \in DOMAIN r
    BY <1>1, <1>2, <1>4 DEF Rows
  <2>2. QED
    BY <2>1
<1>5. CASE j > Len(r)
  <2>1. (r \o q)[j] = q[j - Len(r)] /\ j - Len(r) \in DOMAIN q
    BY <1>1, <1>2, <1>5 DEF Rows
  <2>2. QED
    BY <2>1
<1>6. QED
  BY <1>1, <1>2, <1>4, <1>5

\* Rows, spelled out.
LEMMA RowsAre ==
  ASSUME NEW t, NEW s \in Rows(t)
  PROVE  s \in Seq(1..Len(t))
BY DEF Rows

\* The names of golangci-lint's notes.
GoNotes == {"a.go", "b.go", "golangci-lint: errors", "more issues", "issues found"}

\* What the filter of golangci-lint's text writes of a failure.
LEMMA GolangciTextSays ==
  ASSUME NEW Kind, NEW t \in Seq(Kind), NEW O, NEW N, Writes(O, N, t), GoNotes \subseteq N,
         Has(t, Diagnostics \cup {"ERR"})
  PROVE  GolangciText(t) \in O
<1> DEFINE diags == At(t, Diagnostics)
           some == Take(diags, 40)
           S == {j \in DOMAIN some : t[some[j]] = "a.go: error"}
           W == {j \in DOMAIN some : t[some[j]] # "a.go: error"}
           errors == Chosen(S, some)
           warns == Chosen(W, some)
           both == errors \o warns
           runner == Scan(LAMBDA a, i : GolangciStep(t, a, i), <<>>, t)
           n1 == Note("golangci-lint: errors", Len(errors))
           b == ByFile(t, both, GoFileOf)
           m == More(diags, 40, "more issues")
           n2 == Note("issues found", Len(diags))
           r == Lines(runner)
<1>1. GolangciText(t) = IF diags \o runner = <<>> THEN Note("No issues found.", 0) ELSE n1 \o b \o m \o n2 \o r
  BY Zenon DEF GolangciText, Diagnostics, Only, Where, Chosen
<1>2. {"a.go", "b.go"} \subseteq N /\ "golangci-lint: errors" \in N /\ "more issues" \in N /\ "issues found" \in N
  BY Zenon DEF GoNotes
<1>3. runner \in Rows(t) /\ (Has(t, {"ERR"}) => runner # <<>>)
  BY GolangciRunnerIs, Zenon
<1>4. some \in Rows(t) /\ diags \in Rows(t) /\ \A j \in DOMAIN some : t[some[j]] \in Diagnostics
  BY FirstForty, Zenon
<1>5. (Has(t, Diagnostics) => diags # <<>>) /\ Len(diags) \in Int
  BY Zenon DEF Writes, AtIn
<1>6. Has(t, Diagnostics) \/ Has(t, {"ERR"})
  BY Zenon DEF Has
<1> HIDE DEF diags, some, runner
<1>7. diags \o runner # <<>>
  BY <1>3, <1>4, <1>5, <1>6, Zenon DEF Writes, Chains
<1> HIDE DEF S, W
<1>8. errors \in Rows(t) /\ warns \in Rows(t)
  BY <1>4, Zenon DEF Writes, ChosenIn
<1>9. \A Z : \A j \in DOMAIN Chosen(Z, some) : t[Chosen(Z, some)[j]] \in Diagnostics
  BY <1>4, ChosenKinds, Zenon
<1>10. both \in Rows(t)
  <2> HIDE DEF errors, warns
  <2>1. QED
    BY <1>8, Zenon DEF Writes, Chains
<1>11. \A j \in DOMAIN both : GoFileOf[t[both[j]]] \in N
  <2> DEFINE P == {i \in DOMAIN t : GoFileOf[t[i]] \in N}
  <2>1. \A k \in Diagnostics : GoFileOf[k] \in N
    BY <1>2, GoFilesIn, Zenon
  <2>2. \A Z : \A j \in DOMAIN Chosen(Z, some) : Chosen(Z, some)[j] \in P
    <3>1. TAKE Z
    <3> DEFINE w == Chosen(Z, some)
    <3>2. w \in Rows(t)
      BY <1>4, Zenon DEF Writes, ChosenIn
    <3>3. \A j \in DOMAIN w : t[w[j]] \in Diagnostics
      BY <1>9, Zenon
    <3> HIDE DEF w
    <3>4. \A j \in DOMAIN w : w[j] \in DOMAIN t
      BY <3>2, Zenon DEF Writes, ChosenIn
    <3>5. \A j \in DOMAIN w : w[j] \in P
      BY <2>1, <3>3, <3>4, Zenon
    <3>6. QED
      BY <3>5, Zenon DEF w
  <2>3. (\A j \in DOMAIN errors : errors[j] \in P) /\ \A j \in DOMAIN warns : warns[j] \in P
    BY <2>2, Zenon
  <2> HIDE DEF P, errors, warns
  <2>4. \A j \in DOMAIN both : both[j] \in P
    BY <1>8, <2>3, JoinedOf, Zenon
  <2>5. QED
    BY <2>4, Zenon DEF P
<1>12. Len(errors) \in Int
  BY <1>8, Zenon DEF Writes, LinesIn
<1> HIDE DEF errors, warns, both
<1>13. n1 \in O
  BY <1>2, <1>12, Zenon DEF Writes, NoteIn
<1>14. b \in O
  <2>1. both \in Seq(1..Len(t))
    BY <1>10, RowsAre, Zenon
  <2>2. QED
    BY <1>10, <1>11, <2>1, ByFileIn, Zenon
<1>15. m \in O
  BY <1>2, <1>4, Zenon DEF Writes, MoreIn, Sizes
<1>16. n2 \in O
  BY <1>2, <1>5, Zenon DEF Writes, NoteIn
<1>17. r \in O
  BY <1>3, Zenon DEF Writes, LinesIn
<1> HIDE DEF n1, b, m, n2, r
<1>18. \A p \in O : \A q \in O : p \o q \in O
  BY Joins, Zenon
<1>19. n1 \o b \in O
  BY <1>13, <1>14, <1>18, Zenon
<1>20. n1 \o b \o m \in O
  BY <1>15, <1>18, <1>19, Zenon
<1>21. n1 \o b \o m \o n2 \in O
  BY <1>16, <1>18, <1>20, Zenon
<1>22. n1 \o b \o m \o n2 \o r \in O
  BY <1>17, <1>18, <1>21, Zenon
<1>23. QED
  BY <1>1, <1>7, <1>22, Zenon

\* What the filter of golangci-lint's JSON writes of a failure.
LEMMA GolangciJsonSays ==
  ASSUME NEW Kind, NEW t \in Seq(Kind), NEW O, NEW N, Writes(O, N, t), GoNotes \subseteq N, Has(t, Issues)
  PROVE  GolangciJson(t) \in O
<1> DEFINE issues == At(t, Issues)
           some == Take(issues, 40)
           b == ByFile(t, some, GoFileOf)
           m == More(issues, 40, "more issues")
           n == Note("issues found", Len(issues))
<1>1. GolangciJson(t) = IF issues = <<>> THEN Note("No issues found.", 0) ELSE b \o m \o n
  BY Zenon DEF GolangciJson, Issues
<1>2. {"a.go", "b.go"} \subseteq N /\ "more issues" \in N /\ "issues found" \in N
  BY Zenon DEF GoNotes
<1>3. some \in Rows(t) /\ issues \in Rows(t) /\ \A j \in DOMAIN some : t[some[j]] \in Issues
  BY FirstForty, Zenon
<1>4. issues # <<>> /\ Len(issues) \in Int
  BY Zenon DEF Writes, AtIn
<1> HIDE DEF issues, some
<1>5. b \in O
  <2>1. \A k \in Issues : GoFileOf[k] \in N
    BY <1>2, GoFilesIn, Zenon
  <2>2. \A j \in DOMAIN some : GoFileOf[t[some[j]]] \in N
    BY <1>3, <2>1, Zenon
  <2>3. some \in Seq(1..Len(t))
    BY <1>3, RowsAre, Zenon
  <2>4. QED
    BY <1>3, <2>2, <2>3, ByFileIn, Zenon
<1>6. m \in O /\ n \in O
  BY <1>2, <1>3, <1>4, Zenon DEF Writes, NoteIn, MoreIn, Sizes
<1> HIDE DEF b, m, n
<1>7. b \o m \o n \in O
  BY <1>5, <1>6, Joins, Zenon
<1>8. QED
  BY <1>1, <1>4, <1>7, Zenon

\* What the filter of golangci-lint writes of a failure.
LEMMA GolangciSays ==
  ASSUME NEW Kind, NEW t \in Seq(Kind), NEW O, NEW N, Writes(O, N, t), GoNotes \subseteq N,
         Has(t, Diagnostics \cup {"ERR"})
  PROVE  Golangci(t) \in O
<1> DEFINE first == Take(Filled(t), 1)
<1>1. first \in Rows(t)
  BY Zenon DEF Writes, Picks, Cuts, Sizes
<1> DEFINE json == first # <<>> /\ t[first[1]] \in Issues
<1>2. Golangci(t) = IF json THEN GolangciJson(t) ELSE GolangciText(t)
  BY Zenon DEF Golangci, Issues
<1>3. json => Has(t, Issues)
  <2>1. first # <<>> => 1 \in DOMAIN first
    BY <1>1, RowsStart, Zenon
  <2> HIDE DEF first
  <2>2. first # <<>> => first[1] \in DOMAIN t
    BY <1>1, <2>1, Zenon DEF Writes, ChosenIn
  <2>3. QED
    BY <2>2, Zenon DEF Has
<1> HIDE DEF json
<1>4. QED
  BY <1>2, <1>3, GolangciJsonSays, GolangciTextSays, Zenon

\* One more of a note's count.
LEMMA PairMore ==
  ASSUME NEW N, NEW p \in N \X Int
  PROVE  [p EXCEPT ![2] = p[2] + 1] \in N \X Int
<1>1. PICK a \in N, b \in Int : p = <<a, b>>
  OBVIOUS
<1>2. [p EXCEPT ![2] = p[2] + 1] = <<a, b + 1>>
  BY <1>1
<1>3. QED
  BY <1>2

\* One more of the last note's count.
LEMMA SeqMore ==
  ASSUME NEW N, NEW w \in Seq(N \X Int)
  PROVE  [w EXCEPT ![Len(w)][2] = @ + 1] \in Seq(N \X Int)
<1> DEFINE q == [w[Len(w)] EXCEPT ![2] = w[Len(w)][2] + 1]
<1>1. [w EXCEPT ![Len(w)][2] = @ + 1] = [w EXCEPT ![Len(w)] = q]
  OBVIOUS
<1>2. CASE w = <<>>
  <2>1. [w EXCEPT ![Len(w)] = q] = w
    BY <1>2
  <2>2. QED
    BY <1>1, <2>1, <1>2
<1>3. CASE w # <<>>
  <2>1. w[Len(w)] \in N \X Int
    BY <1>3
  <2>2. q \in N \X Int
    BY <2>1, PairMore
  <2> HIDE DEF q
  <2>3. \A p \in N \X Int : [w EXCEPT ![Len(w)] = p] \in Seq(N \X Int)
    <3> DEFINE P == N \X Int
    <3>1. w \in Seq(P) /\ w # <<>>
      BY <1>3
    <3> HIDE DEF P
    <3>2. \A p \in P : [w EXCEPT ![Len(w)] = p] \in Seq(P)
      BY <3>1
    <3>3. QED
      BY <3>2 DEF P
  <2>4. QED
    BY <1>1, <2>2, <2>3
<1>4. QED
  BY <1>2, <1>3
\* What tsc's scan carries: the file, whether its name is written, the error's code, and
\* the notes so far.
TscState(N) == [file : N, headed : BOOLEAN, code : N, out : Seq(N \X Int)]

\* One more of the last error.
LEMMA TscMore ==
  ASSUME NEW N, NEW x \in TscState(N)
  PROVE  [x EXCEPT !.out[Len(x.out)][2] = @ + 1] \in TscState(N)
<1> DEFINE w == x.out
           v == [w EXCEPT ![Len(w)][2] = @ + 1]
<1>1. w \in Seq(N \X Int)
  BY DEF TscState
<1>2. v \in Seq(N \X Int)
  BY <1>1, SeqMore
<1>3. [x EXCEPT !.out[Len(x.out)][2] = @ + 1] = [x EXCEPT !.out = v]
  OBVIOUS
<1> HIDE DEF v
<1>4. QED
  BY <1>2, <1>3 DEF TscState

\* The names of tsc's notes.
TsNames == {"", "a", "b", "a TS2339", "a TS2345", "b TS2339", "b TS5055", "TS5xxx", "errors"}

\* The files and codes of tsc's lines are among them.
LEMMA TsNamesAre ==
  /\ "" \in TsNames /\ "b" \in TsNames /\ "TS5xxx" \in TsNames /\ "errors" \in TsNames
  /\ \A k \in DOMAIN TsFile : k \in TsNames /\ TsFile[k] \in TsNames
BY Zenon DEF TsFile, TsNames

\* Where tsc's scan starts.
LEMMA TscStart ==
  ASSUME NEW N, NEW e \in N
  PROVE  [file |-> e, headed |-> FALSE, code |-> e, out |-> <<>>] \in TscState(N)
BY DEF TscState

\* A new state of the scan.
LEMMA TscNew ==
  ASSUME NEW N
  PROVE  \A f \in N : \A b \in BOOLEAN : \A c \in N : \A o \in Seq(N \X Int) :
           [file |-> f, headed |-> b, code |-> c, out |-> o] \in TscState(N)
BY DEF TscState

\* Three of its fields changed.
LEMMA TscWith ==
  ASSUME NEW N, NEW x \in TscState(N)
  PROVE  \A f \in N : \A b \in BOOLEAN : \A c \in N : [x EXCEPT !.file = f, !.headed = b, !.code = c] \in TscState(N)
BY DEF TscState

\* The fields of what it carries.
LEMMA TscParts ==
  ASSUME NEW N, NEW x \in TscState(N)
  PROVE  x.file \in N /\ x.headed \in BOOLEAN /\ x.code \in N /\ x.out \in Seq(N \X Int)
BY DEF TscState

\* Notes, and sequences of them after each other.
LEMMA NotesIn ==
  ASSUME NEW N
  PROVE  /\ <<>> \in Seq(N \X Int)
         /\ \A what \in N : \A k \in Int : Note(what, k) \in Seq(N \X Int)
         /\ \A a \in Seq(N \X Int) : \A b \in Seq(N \X Int) : a \o b \in Seq(N \X Int)
<1>1. \A what \in N : \A k \in Int : Note(what, k) \in Seq(N \X Int)
  BY DEF Note
<1>2. <<>> \in Seq(N \X Int)
  OBVIOUS
<1> DEFINE P == N \X Int
<1>3. \A a \in Seq(P) : \A b \in Seq(P) : a \o b \in Seq(P)
  BY ConcatProperties, Zenon
<1>4. QED
  BY <1>1, <1>2, <1>3, Zenon

\* Notes are an output of any t.
LEMMA NotesAreOutputs ==
  ASSUME NEW N, NEW n, NEW o \in Seq(N \X Int)
  PROVE  o \in Outputs(N, n)
<1> DEFINE E == Entries(N, n)
           P == N \X Int
<1>1. P \subseteq E
  BY DEF Entries
<1>2. o \in Seq(P)
  OBVIOUS
<1> HIDE DEF E, P
<1>3. o \in Seq(E)
  BY <1>1, <1>2
<1>4. QED
  BY <1>3 DEF Outputs, E

\* A step of tsc's scan.
LEMMA TscStepIn ==
  ASSUME NEW N, NEW t, TsNames \subseteq N, NEW x \in TscState(N), NEW i \in DOMAIN t
  PROVE  TscStep(t, x, i) \in TscState(N)
<1> DEFINE X == TscState(N)
           Q == Seq(N \X Int)
           k == t[i]
           f == TsFile[k]
           fresh == f # x.file
           h == x.headed /\ ~fresh
           e == ""
           b == "b"
           c == IF fresh THEN e ELSE x.code
           n1 == Note(f, 0)
           head == IF fresh \/ ~x.headed THEN n1 ELSE <<>>
           n2 == Note(k, 1)
           o == x.out \o head \o n2
           z == TscStep(t, x, i)
           z1 == [x EXCEPT !.file = b, !.headed = h, !.code = c]
           z2 == [x EXCEPT !.out[Len(x.out)][2] = @ + 1]
           z3 == [file |-> f, headed |-> TRUE, code |-> k, out |-> o]
<1>1. k \in DOMAIN TsFile => z = z1 \/ z = z2 \/ z = z3
  <2>1. ASSUME k \in DOMAIN TsFile, k = "b TS5055" PROVE z = z1
    BY <2>1, Zenon DEF TscStep
  <2>2. ASSUME k \in DOMAIN TsFile, k # "b TS5055", ~fresh, k = x.code PROVE z = z2
    BY <2>2, Zenon DEF TscStep
  <2>3. ASSUME k \in DOMAIN TsFile, k # "b TS5055", ~(~fresh /\ k = x.code) PROVE z = z3
    BY <2>3, Zenon DEF TscStep
  <2> HIDE DEF z, z1, z2, z3, fresh, k
  <2>4. QED
    BY <2>1, <2>2, <2>3, Zenon
<1>2. k \notin DOMAIN TsFile => z = x
  BY Zenon DEF TscStep
<1>3. CASE k \notin DOMAIN TsFile
  <2> HIDE DEF z
  <2>1. QED
    BY <1>2, <1>3, Zenon DEF z
<1>4. CASE k \in DOMAIN TsFile
  <2>1. k \in N /\ f \in N /\ e \in N /\ b \in N
    BY <1>4, TsNamesAre, Zenon
  <2>2. x.file \in N /\ x.headed \in BOOLEAN /\ x.code \in N /\ x.out \in Q
    BY TscParts, Zenon
  <2>3. h \in BOOLEAN /\ TRUE \in BOOLEAN
    OBVIOUS
  <2>4. \A what \in N : \A m \in Int : Note(what, m) \in Q
    BY NotesIn, Zenon
  <2>5. n1 \in Q /\ n2 \in Q /\ <<>> \in Q
    BY <2>1, <2>4, NotesIn, Numbers, Zenon
  <2>6. \A u \in Q : \A v \in Q : u \o v \in Q
    BY NotesIn, Zenon
  <2> HIDE DEF n1, n2, f, k, e, b, h, Q
  <2>7. c \in N
    <3> HIDE DEF fresh
    <3>1. QED
      BY <2>1, <2>2, Zenon
  <2>8. head \in Q
    <3> HIDE DEF fresh
    <3>1. QED
      BY <2>5, Zenon
  <2> HIDE DEF c, head, fresh
  <2>9. x.out \o head \in Q
    BY <2>2, <2>6, <2>8, Zenon
  <2>10. o \in Q
    BY <2>5, <2>6, <2>9, Zenon
  <2> HIDE DEF o
  <2>11. z1 \in X
    BY <2>1, <2>3, <2>7, TscWith, Zenon
  <2>12. z2 \in X
    BY TscMore, Zenon
  <2>13. z3 \in X
    BY <2>1, <2>3, <2>10, TscNew, Zenon DEF Q
  <2> HIDE DEF z, z1, z2, z3, X
  <2>14. z \in X
    BY <1>1, <1>4, <2>11, <2>12, <2>13, Zenon
  <2>15. QED
    BY <2>14, Zenon DEF z, X
<1>5. QED
  BY <1>3, <1>4

\* All of tsc's scan.
LEMMA TscScanIn ==
  ASSUME NEW Kind, NEW t \in Seq(Kind), NEW N, TsNames \subseteq N
  PROVE  Scan(LAMBDA a, i : TscStep(t, a, i), [file |-> "", headed |-> FALSE, code |-> "", out |-> <<>>], t) \in TscState(N)
<1> DEFINE n == Len(t)
           X == TscState(N)
           Holds(i) == X
           start == [file |-> "", headed |-> FALSE, code |-> "", out |-> <<>>]
           F == [i \in 1..n |-> [x \in X |-> TscStep(t, x, i)]]
           I == [i \in 0..n |-> Holds(i)]
           e(f) == [i \in 0..Len(t) |-> IF i = 0 THEN start ELSE TscStep(t, f[i - 1], i)]
           Q == CHOOSE f : f = e(f)
<1>1. start \in Holds(0)
  <2>1. \A v \in N : [file |-> v, headed |-> FALSE, code |-> v, out |-> <<>>] \in TscState(N)
    BY TscStart, Zenon
  <2>2. "" \in N
    BY TsNamesAre, Zenon
  <2>3. QED
    BY <2>1, <2>2, Zenon
<1>2. ASSUME NEW i \in 1..n, NEW x \in Holds(i - 1)
      PROVE  TscStep(t, x, i) \in Holds(i)
  <2> DEFINE s == TscStep(t, x, i)
  <2>1. x \in TscState(N) /\ i \in DOMAIN t
    BY Indices, Zenon
  <2>2. s \in TscState(N)
    BY <2>1, TscStepIn, Zenon
  <2> HIDE DEF s
  <2>3. QED
    BY <2>2, Zenon DEF s
<1>3. Scan(LAMBDA a, i : TscStep(t, a, i), [file |-> "", headed |-> FALSE, code |-> "", out |-> <<>>], t) = Q[n]
  BY Zenon DEF Scan
<1>4. n \in Nat /\ \A i \in 1..n : i - 1 \in 0..n /\ i \in 0..n /\ i # 0
  BY Indices
<1>5. \A i \in 0..n : Holds(i) \subseteq X /\ I[i] = Holds(i)
  BY Zenon
<1> HIDE DEF X, Holds, I, n, start
<1>6. \A i \in 1..n : \A x \in I[i - 1] : F[i][x] \in I[i]
  BY <1>2, <1>4, <1>5, Zenon
<1>7. 0 \in 0..n /\ n \in 0..n
  BY <1>4
<1>8. start \in I[0]
  BY <1>1, <1>5, <1>7, Zenon
<1> HIDE DEF F
<1>9. PICK f : Loop(f, start, F, n) /\ \A i \in 0..n : f[i] \in I[i]
  BY <1>4, <1>6, <1>8, LoopStays, Zenon
<1>10. f = e(f)
  <2>1. \A i \in 1..n : F[i][f[i - 1]] = TscStep(t, f[i - 1], i)
    BY <1>4, <1>5, <1>9, Zenon DEF F
  <2>2. \A i \in 0..n : i # 0 => i \in 1..n
    BY <1>4
  <2>3. f = [i \in 0..n |-> IF i = 0 THEN start ELSE F[i][f[i - 1]]]
    BY <1>9, Zenon DEF Loop
  <2>4. QED
    BY <2>1, <2>2, <2>3, Zenon DEF n
<1>11. Q = e(Q)
  BY <1>10, Zenon
<1> HIDE DEF Q
<1>12. Q[0] \in I[0] /\ \A i \in 1..n : Q[i - 1] \in I[i - 1] => Q[i] \in I[i]
  <2>1. Q[0] = start /\ \A i \in 1..n : Q[i] = TscStep(t, Q[i - 1], i)
    BY <1>4, <1>7, <1>11, Zenon DEF n
  <2>2. QED
    BY <1>2, <1>4, <1>5, <1>8, <2>1, Zenon
<1>13. Q[n] \in Holds(n)
  <2>1. \A i \in 0..n : Q[i] \in I[i]
    BY <1>4, <1>12, LoopKeeps, Zenon
  <2>2. QED
    BY <1>5, <1>7, <2>1, Zenon
<1>14. Scan(LAMBDA a, i : TscStep(t, a, i), [file |-> "", headed |-> FALSE, code |-> "", out |-> <<>>], t) \in Holds(n)
  BY <1>3, <1>13, Zenon DEF start
<1>15. QED
  BY <1>4, <1>14, Indices, Zenon DEF Has, Holds, X, n

\* What the filter of tsc writes of a failure.
LEMMA TscSays ==
  ASSUME NEW Kind, NEW t \in Seq(Kind), NEW N, Writes(Outputs(N, Len(t)), N, t), TsNames \subseteq N,
         Has(t, DOMAIN TsFile), ~Has(t, {"Found 0 errors"})
  PROVE  Tsc(t) \in Outputs(N, Len(t))
<1> DEFINE O == Outputs(N, Len(t))
           z == Scan(LAMBDA a, i : TscStep(t, a, i), [file |-> "", headed |-> FALSE, code |-> "", out |-> <<>>], t)
           w == z.out
           c == Counted("TS5xxx", Len(At(t, {"b TS5055"})))
           d == Note("errors", Len(At(t, DOMAIN TsFile)))
<1>1. Tsc(t) = w \o c \o d
  BY Zenon DEF Tsc
<1>2. w \in O
  <2>1. z \in TscState(N)
    BY TscScanIn, Zenon
  <2> HIDE DEF z
  <2>2. w \in Seq(N \X Int)
    BY <2>1, TscParts, Zenon
  <2> HIDE DEF w
  <2>3. QED
    BY <2>2, NotesAreOutputs, Zenon
<1>3. "TS5xxx" \in N /\ "errors" \in N
  BY TsNamesAre, Zenon
<1>4. Len(At(t, {"b TS5055"})) \in Int /\ Len(At(t, DOMAIN TsFile)) \in Int
  BY Zenon DEF Writes, AtIn
<1>5. c \in O /\ d \in O
  BY <1>3, <1>4, Zenon DEF Writes, NoteIn
<1>6. \A a, b \in O : a \o b \in O
  BY Joins, Zenon
<1> HIDE DEF w, c, d, O
<1>7. w \o c \in O
  BY <1>2, <1>5, <1>6, Zenon
<1>8. w \o c \o d \in O
  BY <1>5, <1>6, <1>7, Zenon
<1>9. QED
  BY <1>1, <1>8, Zenon DEF O

-----------------------------------------------------------------------------
\* From the filters to the commands.

\* The lines of go test -json.
GoTestEvents == {"{output}", "{pass}", "{fail}", "{skip}", "{FAIL pkg}", "{ok pkg}"}
\* What a program itself says when all is well, in the words that filters look for.
Clear == {"found 0 vulnerabilities", "10 vulnerabilities", "All checks passed.", "nothing to commit",
          "pods, all running", "Found 0 errors", "[INFO] BUILD SUCCESS"} \cup GoTestEvents
\* The names N are no lines, and none says that all is well.
Honest(N, c) == "line" \notin N /\ "line" \notin Promise(c).success /\ N \cap Promise(c).success = {}
\* What c's filter makes of t is lines of t and honest notes.
Tells(c, t, d) == \E N : Honest(N, c) /\ Filter(c, t, d) \in Outputs(N, Len(t))

\* What the filter of prettier writes of a failure.
LEMMA PrettierSays ==
  ASSUME NEW O, NEW N, NEW t, Writes(O, N, t), {"need formatting", "more", "Run prettier --write"} \subseteq N,
         Has(t, {"[warn] x.js", "SyntaxError"}), NEW flag, flag = "--check" \/ flag = ""
  PROVE  Prettier(t, flag) \in O
<1>1. PrettierCheck(t) \in O
  BY PrettierCheckSays, Zenon
<1>2. Has(t, {"SyntaxError"}) => PrettierWrite(t) \in O
  BY PrettierWriteSays, Zenon
<1>3. ~Has(t, {"SyntaxError"}) => Has(t, {"All matched files", "[warn] x.js", "Checking"})
  BY Zenon DEF Has
<1>4. QED
  BY <1>1, <1>2, <1>3, Zenon DEF Prettier

\* A kind of line is not called "line", the name of the entries of lines.
LineKind == STRING \ {"line"}

\* Nor is any line of an output.
LEMMA DotsAre ==
  ASSUME NEW t \in Seq(LineKind)
  PROVE  \A i \in DOMAIN t : t[i] # "line"
<1>1. \A i \in DOMAIN t : t[i] \in LineKind
  <2> HIDE DEF LineKind
  <2>1. QED
    OBVIOUS
<1>2. QED
  BY <1>1, Zenon DEF LineKind

\* Each command is in one group.
LEMMA TestsAre ==
  ASSUME NEW c \in Tests
  PROVE  /\ \A t, d : Filter(c, t, d) = FilterTests(c, t)
         /\ c \notin DOMAIN Unknown => Promise(c) = PromiseTests(c)
<1>1. c \notin Builds
  BY Zenon DEF Tests, Builds
<1>2. c \notin Lints
  BY Zenon DEF Tests, Lints
<1>3. c \notin PackageCommands
  BY Zenon DEF Tests, PackageCommands
<1>4. c \notin FileCommands
  BY Zenon DEF Tests, FileCommands
<1>5. \A t, d : Filter(c, t, d) = FilterTests(c, t)
  BY <1>1, <1>2, <1>3, <1>4, Zenon DEF Filter
<1>6. c \notin DOMAIN Unknown => Promise(c) = PromiseTests(c)
  BY <1>1, <1>2, <1>3, <1>4, Zenon DEF Promise
<1>7. QED
  BY <1>5, <1>6, Zenon

\* The same for the build tools.
LEMMA BuildsAre ==
  ASSUME NEW c \in Builds
  PROVE  /\ \A t, d : Filter(c, t, d) = FilterBuilds(c, t)
         /\ c \notin DOMAIN Unknown => Promise(c) = PromiseBuilds(c)
<1>1. c \notin Tests
  BY Zenon DEF Builds, Tests
<1>2. c \notin Lints
  BY Zenon DEF Builds, Lints
<1>3. c \notin PackageCommands
  BY Zenon DEF Builds, PackageCommands
<1>4. c \notin FileCommands
  BY Zenon DEF Builds, FileCommands
<1>5. \A t, d : Filter(c, t, d) = FilterBuilds(c, t)
  BY <1>1, <1>2, <1>3, <1>4, Zenon DEF Filter
<1>6. c \notin DOMAIN Unknown => Promise(c) = PromiseBuilds(c)
  BY <1>1, <1>2, <1>3, <1>4, Zenon DEF Promise
<1>7. QED
  BY <1>5, <1>6, Zenon

\* The same for the linters.
LEMMA LintsAre ==
  ASSUME NEW c \in Lints
  PROVE  /\ \A t, d : Filter(c, t, d) = FilterLints(c, t)
         /\ c \notin DOMAIN Unknown => Promise(c) = PromiseLints(c)
<1>1. c \notin Tests
  BY Zenon DEF Lints, Tests
<1>2. c \notin Builds
  BY Zenon DEF Lints, Builds
<1>3. c \notin PackageCommands
  BY Zenon DEF Lints, PackageCommands
<1>4. c \notin FileCommands
  BY Zenon DEF Lints, FileCommands
<1>5. \A t, d : Filter(c, t, d) = FilterLints(c, t)
  BY <1>1, <1>2, <1>3, <1>4, Zenon DEF Filter
<1>6. c \notin DOMAIN Unknown => Promise(c) = PromiseLints(c)
  BY <1>1, <1>2, <1>3, <1>4, Zenon DEF Promise
<1>7. QED
  BY <1>5, <1>6, Zenon

\* The same for the package managers.
LEMMA PackageCommandsAre ==
  ASSUME NEW c \in PackageCommands
  PROVE  /\ \A t, d : Filter(c, t, d) = FilterPackages(c, t)
         /\ c \notin DOMAIN Unknown => Promise(c) = PromisePackages(c)
<1>1. c \notin Tests
  BY Zenon DEF PackageCommands, Tests
<1>2. c \notin Builds
  BY Zenon DEF PackageCommands, Builds
<1>3. c \notin Lints
  BY Zenon DEF PackageCommands, Lints
<1>4. c \notin FileCommands
  BY Zenon DEF PackageCommands, FileCommands
<1>5. \A t, d : Filter(c, t, d) = FilterPackages(c, t)
  BY <1>1, <1>2, <1>3, <1>4, Zenon DEF Filter
<1>6. c \notin DOMAIN Unknown => Promise(c) = PromisePackages(c)
  BY <1>1, <1>2, <1>3, <1>4, Zenon DEF Promise
<1>7. QED
  BY <1>5, <1>6, Zenon

\* The same for git and the files.
LEMMA FileCommandsAre ==
  ASSUME NEW c \in FileCommands
  PROVE  /\ \A t, d : Filter(c, t, d) = FilterFiles(c, t, d)
         /\ c \notin DOMAIN Unknown => Promise(c) = PromiseFiles(c)
<1>1. c \notin Tests
  BY Zenon DEF FileCommands, Tests
<1>2. c \notin Builds
  BY Zenon DEF FileCommands, Builds
<1>3. c \notin Lints
  BY Zenon DEF FileCommands, Lints
<1>4. c \notin PackageCommands
  BY Zenon DEF FileCommands, PackageCommands
<1>5. \A t, d : Filter(c, t, d) = FilterFiles(c, t, d)
  BY <1>1, <1>2, <1>3, <1>4, Zenon DEF Filter
<1>6. c \notin DOMAIN Unknown => Promise(c) = PromiseFiles(c)
  BY <1>1, <1>2, <1>3, <1>4, Zenon DEF Promise
<1>7. QED
  BY <1>5, <1>6, Zenon

\* The same for all others.
LEMMA ServicesAre ==
  ASSUME NEW c, c \notin Tests \cup Builds \cup Lints \cup PackageCommands \cup FileCommands
  PROVE  /\ \A t, d : Filter(c, t, d) = FilterServices(c, t)
         /\ c \notin DOMAIN Unknown => Promise(c) = PromiseServices(c)
<1>1. \A t, d : Filter(c, t, d) = FilterServices(c, t)
  BY Zenon DEF Filter
<1>2. c \notin DOMAIN Unknown => Promise(c) = PromiseServices(c)
  BY Zenon DEF Promise
<1>3. QED
  BY <1>1, <1>2, Zenon

\* Of an output that tells of a failure, the filter of any test runner makes lines of it
\* and honest notes.
LEMMA TestsTell ==
  ASSUME NEW t \in Seq(LineKind), NEW d, NEW c \in Tests,
         c \notin DOMAIN Unknown, c \notin {"go test -json"},
         Has(t, Promise(c).bad), ~Has(t, Clear)
  PROVE  Promise(c).success = {} \/ Tells(c, t, d)
<1>1. Filter(c, t, d) = FilterTests(c, t) /\ Promise(c) = PromiseTests(c)
  BY TestsAre, Zenon
<1>2. CASE c = "go test"
  <2> DEFINE N == {"truncated", "tests passed"}
             O == Outputs(N, Len(t))
  <2>1. Writes(O, N, t)
    BY Written, Zenon
  <2>2. Filter(c, t, d) = GoTest(t)
    BY <1>1, <1>2, Zenon DEF FilterTests
  <2>3. Promise(c).bad = {"--- FAIL", "FAIL pkg"} /\ Promise(c).success = {"all tests passed"}
    BY <1>1, <1>2, Zenon DEF PromiseTests, Nothing
  <2>4. Honest(N, c)
    BY <2>3, Zenon DEF Honest
  <2>0. Has(t, GoFailed) /\ ~Has(t, {"{output}", "{pass}", "{fail}", "{skip}", "{FAIL pkg}", "{ok pkg}"})
    BY <2>3, Zenon DEF Has, GoFailed, Clear, GoTestEvents
  <2>7. "truncated" \in N /\ "tests passed" \in N
    BY Zenon
  <2> HIDE DEF N
  <2> HIDE DEF O
  <2>5. GoTest(t) \in O
    BY <2>1, <2>3, <2>0, <2>7, GoTestSays, Zenon
  <2>6. QED
    BY <2>2, <2>4, <2>5, Zenon DEF Tells, O
<1>3. CASE c = "playwright test"
  <2> DEFINE N == {}
             O == Outputs(N, Len(t))
  <2>1. Writes(O, N, t)
    BY Written, Zenon
  <2>2. Filter(c, t, d) = Playwright(t)
    BY <1>1, <1>3, Zenon DEF FilterTests
  <2>3. Promise(c).bad = {"x spec"} /\ Promise(c).success = {"All tests passed"}
    BY <1>1, <1>3, Zenon DEF PromiseTests, Nothing
  <2>4. Honest(N, c)
    BY <2>3, Zenon DEF Honest
  <2> HIDE DEF O
  <2>5. Playwright(t) \in O
    BY <2>1, <2>3, PlaywrightSays, Zenon
  <2>6. QED
    BY <2>2, <2>4, <2>5, Zenon DEF Tells, O
<1>4. CASE c = "mvn"
  <2> DEFINE N == {"truncated", "[INFO] BUILD FAILURE"}
             O == Outputs(N, Len(t))
  <2>1. Writes(O, N, t)
    BY Written, Zenon
  <2>2. Filter(c, t, d) = Maven(t)
    BY <1>1, <1>4, Zenon DEF FilterTests
  <2>3. Promise(c).bad = {"[INFO] BUILD FAILURE"} /\ Promise(c).success = {"[INFO] BUILD SUCCESS"}
    BY <1>1, <1>4, Zenon DEF PromiseTests, Nothing
  <2>4. Honest(N, c)
    BY <2>3, Zenon DEF Honest
  <2>0. ~Has(t, {"[INFO] BUILD SUCCESS"})
    BY Zenon DEF Has, Clear
  <2>7. "truncated" \in N /\ "[INFO] BUILD FAILURE" \in N
    BY Zenon
  <2> HIDE DEF N
  <2> HIDE DEF O
  <2>5. Maven(t) \in O
    BY <2>1, <2>3, <2>0, <2>7, MavenSays, Zenon
  <2>6. QED
    BY <2>2, <2>4, <2>5, Zenon DEF Tells, O
<1>5. CASE c = "ember test"
  <2> DEFINE N == {"more failures"}
             O == Outputs(N, Len(t))
  <2>1. Writes(O, N, t)
    BY Written, Zenon
  <2>2. Filter(c, t, d) = EmberTest(t)
    BY <1>1, <1>5, Zenon DEF FilterTests
  <2>3. Promise(c).bad = {"not ok"} /\ Promise(c).success = {"all tests passed", "Ember Tests: passed"}
    BY <1>1, <1>5, Zenon DEF PromiseTests, Nothing
  <2>4. Honest(N, c)
    BY <2>3, Zenon DEF Honest
  <2> HIDE DEF O
  <2>5. EmberTest(t) \in O
    BY <2>1, <2>3, EmberTestSays, Zenon
  <2>6. QED
    BY <2>2, <2>4, <2>5, Zenon DEF Tells, O
<1>6. CASE c \notin {"go test", "playwright test", "mvn", "ember test"}
  <2>1. PromiseTests(c).success = {}
    BY <1>6, Zenon DEF PromiseTests, Nothing
  <2>2. QED
    BY <1>1, <2>1, Zenon
<1>7. QED
  BY <1>2, <1>3, <1>4, <1>5, <1>6, Zenon

\* So does the filter of any build tool.
LEMMA BuildsTell ==
  ASSUME NEW t \in Seq(LineKind), NEW d, NEW c \in Builds,
         c \notin DOMAIN Unknown,
         Has(t, Promise(c).bad), ~Has(t, Clear)
  PROVE  Promise(c).success = {} \/ Tells(c, t, d)
<1>1. Filter(c, t, d) = FilterBuilds(c, t) /\ Promise(c) = PromiseBuilds(c)
  BY BuildsAre, Zenon
<1>2. CASE c = "tsc"
  <2> DEFINE N == TsNames
             O == Outputs(N, Len(t))
  <2>1. Writes(O, N, t)
    BY Written, Zenon
  <2>2. Filter(c, t, d) = Tsc(t)
    BY <1>1, <1>2, Zenon DEF FilterBuilds
  <2>3. Promise(c).bad = DOMAIN TsFile /\ Promise(c).success = {"Build OK"}
    BY <1>1, <1>2, Zenon DEF PromiseBuilds, Nothing
  <2>4. Honest(N, c)
    BY <2>3, Zenon DEF Honest, TsNames
  <2>0. ~Has(t, {"Found 0 errors"}) /\ TsNames \subseteq N /\ Has(t, DOMAIN TsFile)
    BY <2>3, Zenon DEF Has, Clear
  <2>7. Tsc(t) \in Outputs(N, Len(t))
    BY <2>0, <2>1, TscSays, Zenon
  <2> HIDE DEF O
  <2>5. Tsc(t) \in O
    BY <2>7, <2>7, Zenon DEF O
  <2>6. QED
    BY <2>2, <2>4, <2>5, Zenon DEF Tells, O
<1>3. CASE c = "bazel build"
  <2> DEFINE N == {}
             O == Outputs(N, Len(t))
  <2>1. Writes(O, N, t)
    BY Written, Zenon
  <2>2. Filter(c, t, d) = BazelBuild(t)
    BY <1>1, <1>3, Zenon DEF FilterBuilds
  <2>3. Promise(c).bad = {"ERROR:"} /\ Promise(c).success = {"build OK"}
    BY <1>1, <1>3, Zenon DEF PromiseBuilds, Nothing
  <2>4. Honest(N, c)
    BY <2>3, Zenon DEF Honest
  <2> HIDE DEF O
  <2>5. BazelBuild(t) \in O
    BY <2>1, <2>3, BazelBuildSays, Zenon
  <2>6. QED
    BY <2>2, <2>4, <2>5, Zenon DEF Tells, O
<1>4. CASE c = "cargo build"
  <2> DEFINE N == CargoErrors \cup CargoWarnings \cup {"more unique errors", "total locations", "warnings", "Build FAILED"}
             O == Outputs(N, Len(t))
  <2>1. Writes(O, N, t)
    BY Written, Zenon
  <2>2. Filter(c, t, d) = CargoBuild(t)
    BY <1>1, <1>4, Zenon DEF FilterBuilds
  <2>3. Promise(c).bad = CargoErrors /\ Promise(c).success = {"Build OK"}
    BY <1>1, <1>4, Zenon DEF PromiseBuilds, Nothing
  <2>4. Honest(N, c)
    BY <2>3, Zenon DEF Honest, CargoErrors, CargoWarnings
  <2>7. CargoErrors \subseteq N /\ CargoWarnings \subseteq N
        /\ {"more unique errors", "total locations", "warnings", "Build FAILED"} \subseteq N
    BY Zenon
  <2> HIDE DEF N
  <2> HIDE DEF O
  <2>5. CargoBuild(t) \in O
    BY <2>1, <2>3, <2>7, CargoBuildSays, Zenon
  <2>6. QED
    BY <2>2, <2>4, <2>5, Zenon DEF Tells, O
<1>5. CASE c = "cargo check"
  <2> DEFINE N == CargoErrors \cup CargoWarnings \cup {"more unique errors", "total locations", "warnings", "Build FAILED"}
             O == Outputs(N, Len(t))
  <2>1. Writes(O, N, t)
    BY Written, Zenon
  <2>2. Filter(c, t, d) = CargoBuild(t)
    BY <1>1, <1>5, Zenon DEF FilterBuilds
  <2>3. Promise(c).bad = {"plain error", "error A"} /\ Promise(c).success = {"Build OK"}
    BY <1>1, <1>5, Zenon DEF PromiseBuilds, Nothing
  <2>4. Honest(N, c)
    BY <2>3, Zenon DEF Honest, CargoErrors, CargoWarnings
  <2>0. Has(t, CargoErrors)
    BY <2>3, Zenon DEF Has, CargoErrors
  <2>7. CargoErrors \subseteq N /\ CargoWarnings \subseteq N
        /\ {"more unique errors", "total locations", "warnings", "Build FAILED"} \subseteq N
    BY Zenon
  <2> HIDE DEF N
  <2> HIDE DEF O
  <2>5. CargoBuild(t) \in O
    BY <2>1, <2>3, <2>0, <2>7, CargoBuildSays, Zenon
  <2>6. QED
    BY <2>2, <2>4, <2>5, Zenon DEF Tells, O
<1>6. CASE c = "go build"
  <2> DEFINE N == {}
             O == Outputs(N, Len(t))
  <2>1. Writes(O, N, t)
    BY Written, Zenon
  <2>2. Filter(c, t, d) = GoBuild(t)
    BY <1>1, <1>6, Zenon DEF FilterBuilds
  <2>3. Promise(c).bad = {"x.go:1: undefined", "text"} /\ Promise(c).success = {"build OK"}
    BY <1>1, <1>6, Zenon DEF PromiseBuilds, Nothing
  <2>4. Honest(N, c)
    BY <2>3, Zenon DEF Honest
  <2> HIDE DEF O
  <2>5. GoBuild(t) \in O
    BY <2>1, <2>3, GoBuildSays, Zenon
  <2>6. QED
    BY <2>2, <2>4, <2>5, Zenon DEF Tells, O
<1>7. CASE c = "go vet"
  <2> DEFINE N == {"more", "vet issues"}
             O == Outputs(N, Len(t))
  <2>1. Writes(O, N, t)
    BY Written, Zenon
  <2>2. Filter(c, t, d) = GoVet(t)
    BY <1>1, <1>7, Zenon DEF FilterBuilds
  <2>3. Promise(c).bad = {"x.go:1: undefined"} /\ Promise(c).success = {"go vet: ok"}
    BY <1>1, <1>7, Zenon DEF PromiseBuilds, Nothing
  <2>4. Honest(N, c)
    BY <2>3, Zenon DEF Honest
  <2> HIDE DEF O
  <2>5. GoVet(t) \in O
    BY <2>1, <2>3, GoVetSays, Zenon
  <2>6. QED
    BY <2>2, <2>4, <2>5, Zenon DEF Tells, O
<1>8. CASE c = "go mod tidy"
  <2> DEFINE N == {}
             O == Outputs(N, Len(t))
  <2>1. Writes(O, N, t)
    BY Written, Zenon
  <2>2. Filter(c, t, d) = GoMod(t)
    BY <1>1, <1>8, Zenon DEF FilterBuilds
  <2>3. Promise(c).bad = {"error"} /\ Promise(c).success = {"go mod complete"}
    BY <1>1, <1>8, Zenon DEF PromiseBuilds, Nothing
  <2>4. Honest(N, c)
    BY <2>3, Zenon DEF Honest
  <2> HIDE DEF O
  <2>5. GoMod(t) \in O
    BY <2>1, <2>3, GoModSays, Zenon
  <2>6. QED
    BY <2>2, <2>4, <2>5, Zenon DEF Tells, O
<1>9. CASE c = "dotnet restore"
  <2> DEFINE N == {}
             O == Outputs(N, Len(t))
  <2>1. Writes(O, N, t)
    BY Written, Zenon
  <2>2. Filter(c, t, d) = DotnetRestore(t)
    BY <1>1, <1>9, Zenon DEF FilterBuilds
  <2>3. Promise(c).bad = {": error NU", "MSBUILD : error"} /\ Promise(c).success = {"restore complete"}
    BY <1>1, <1>9, Zenon DEF PromiseBuilds, Nothing
  <2>4. Honest(N, c)
    BY <2>3, Zenon DEF Honest
  <2> HIDE DEF O
  <2>5. DotnetRestore(t) \in O
    BY <2>1, <2>3, DotnetRestoreSays, Zenon
  <2>6. QED
    BY <2>2, <2>4, <2>5, Zenon DEF Tells, O
<1>10. CASE c = "next build"
  <2> DEFINE N == {"warnings"}
             O == Outputs(N, Len(t))
  <2>1. Writes(O, N, t)
    BY Written, Zenon
  <2>2. Filter(c, t, d) = NextBuild(t)
    BY <1>1, <1>10, Zenon DEF FilterBuilds
  <2>3. Promise(c).bad = {"Error:", "Type error:"} /\ Promise(c).success = {"Build complete"}
    BY <1>1, <1>10, Zenon DEF PromiseBuilds, Nothing
  <2>4. Honest(N, c)
    BY <2>3, Zenon DEF Honest
  <2> HIDE DEF O
  <2>5. NextBuild(t) \in O
    BY <2>1, <2>3, NextBuildSays, Zenon
  <2>6. QED
    BY <2>2, <2>4, <2>5, Zenon DEF Tells, O
<1>11. CASE c = "next lint"
  <2> DEFINE N == {"lint warnings"}
             O == Outputs(N, Len(t))
  <2>1. Writes(O, N, t)
    BY Written, Zenon
  <2>2. Filter(c, t, d) = NextLint(t)
    BY <1>1, <1>11, Zenon DEF FilterBuilds
  <2>3. Promise(c).bad = {"Error:", "Warning:"} /\ Promise(c).success = {"No lint errors found."}
    BY <1>1, <1>11, Zenon DEF PromiseBuilds, Nothing
  <2>4. Honest(N, c)
    BY <2>3, Zenon DEF Honest
  <2> HIDE DEF O
  <2>5. NextLint(t) \in O
    BY <2>1, <2>3, NextLintSays, Zenon
  <2>6. QED
    BY <2>2, <2>4, <2>5, Zenon DEF Tells, O
<1>12. CASE c = "make"
  <2> DEFINE N == {}
             O == Outputs(N, Len(t))
  <2>1. Writes(O, N, t)
    BY Written, Zenon
  <2>2. Filter(c, t, d) = Make(t)
    BY <1>1, <1>12, Zenon DEF FilterBuilds
  <2>3. Promise(c).bad = MakeErrors /\ Promise(c).success = {"make: ok (nothing to do)", "make: complete"}
    BY <1>1, <1>12, Zenon DEF PromiseBuilds, Nothing
  <2>4. Honest(N, c)
    BY <2>3, Zenon DEF Honest
  <2> HIDE DEF O
  <2>5. Make(t) \in O
    BY <2>1, <2>3, MakeSays, Zenon
  <2>6. QED
    BY <2>2, <2>4, <2>5, Zenon DEF Tells, O
<1>13. CASE c \notin {"tsc", "bazel build", "cargo build", "cargo check", "go build", "go vet", "go mod tidy", "dotnet restore", "next build", "next lint", "make"}
  <2>1. PromiseBuilds(c).success = {}
    BY <1>13, Zenon DEF PromiseBuilds, Nothing
  <2>2. QED
    BY <1>1, <2>1, Zenon
<1>14. QED
  BY <1>2, <1>3, <1>4, <1>5, <1>6, <1>7, <1>8, <1>9, <1>10, <1>11, <1>12, <1>13, Zenon

\* So does the filter of any linter.
LEMMA LintsTell ==
  ASSUME NEW t \in Seq(LineKind), NEW d, NEW c \in Lints,
         c \notin DOMAIN Unknown,
         Has(t, Promise(c).bad), ~Has(t, Clear)
  PROVE  Promise(c).success = {} \/ Tells(c, t, d)
<1>1. Filter(c, t, d) = FilterLints(c, t) /\ Promise(c) = PromiseLints(c)
  BY LintsAre, Zenon
<1>2. CASE c = "golangci-lint run"
  <2> DEFINE N == GoNotes
             O == Outputs(N, Len(t))
  <2>1. Writes(O, N, t)
    BY Written, Zenon
  <2>2. Filter(c, t, d) = Golangci(t)
    BY <1>1, <1>2, Zenon DEF FilterLints
  <2>3. Promise(c).bad = {"a.go: error", "a.go: warning", "ERR"} /\ Promise(c).success = {"No issues found."}
    BY <1>1, <1>2, Zenon DEF PromiseLints, Nothing
  <2>4. Honest(N, c)
    BY <2>3, Zenon DEF Honest, GoNotes
  <2>0. Has(t, Diagnostics \cup {"ERR"}) /\ GoNotes \subseteq N
    BY <2>3, Zenon DEF Has, Diagnostics
  <2> HIDE DEF O
  <2>5. Golangci(t) \in O
    BY <2>1, <2>3, <2>0, GolangciSays, Zenon
  <2>6. QED
    BY <2>2, <2>4, <2>5, Zenon DEF Tells, O
<1>3. CASE c = "eslint"
  <2> DEFINE N == {"more errors"}
             O == Outputs(N, Len(t))
  <2>1. Writes(O, N, t)
    BY Written, Zenon
  <2>2. Filter(c, t, d) = Eslint(t)
    BY <1>1, <1>3, Zenon DEF FilterLints
  <2>3. Promise(c).bad = Problems /\ Promise(c).success = {"All files clean"}
    BY <1>1, <1>3, Zenon DEF PromiseLints, Nothing
  <2>4. Honest(N, c)
    BY <2>3, Zenon DEF Honest
  <2> HIDE DEF O
  <2>5. Eslint(t) \in O
    BY <2>1, <2>3, EslintSays, Zenon
  <2>6. QED
    BY <2>2, <2>4, <2>5, Zenon DEF Tells, O
<1>4. CASE c = "stylelint"
  <2> DEFINE N == {"more issues", "issues found"}
             O == Outputs(N, Len(t))
  <2>1. Writes(O, N, t)
    BY Written, Zenon
  <2>2. Filter(c, t, d) = Stylelint(t)
    BY <1>1, <1>4, Zenon DEF FilterLints
  <2>3. Promise(c).bad = Problems /\ Promise(c).success = {"No issues found."}
    BY <1>1, <1>4, Zenon DEF PromiseLints, Nothing
  <2>4. Honest(N, c)
    BY <2>3, Zenon DEF Honest
  <2>7. "more issues" \in N /\ "issues found" \in N /\ Has(t, Problems)
    BY <2>3, Zenon
  <2> HIDE DEF N
  <2> HIDE DEF O
  <2>5. Stylelint(t) \in O
    BY <2>1, <2>3, <2>7, StylelintSays, Zenon
  <2>6. QED
    BY <2>2, <2>4, <2>5, Zenon DEF Tells, O
<1>5. CASE c = "ruff check"
  <2> DEFINE N == {"E501", "F401", "and more"}
             O == Outputs(N, Len(t))
  <2>1. Writes(O, N, t)
    BY Written, Zenon
  <2>2. Filter(c, t, d) = RuffCheck(t)
    BY <1>1, <1>5, Zenon DEF FilterLints
  <2>3. Promise(c).bad = {"E501", "F401", "text"} /\ Promise(c).success = {"ruff: ok"}
    BY <1>1, <1>5, Zenon DEF PromiseLints, Nothing
  <2>4. Honest(N, c)
    BY <2>3, Zenon DEF Honest
  <2>0. ~Has(t, {"All checks passed."})
    BY Zenon DEF Has, Clear
  <2> HIDE DEF O
  <2>5. RuffCheck(t) \in O
    BY <2>1, <2>3, <2>0, RuffCheckSays, Zenon
  <2>6. QED
    BY <2>2, <2>4, <2>5, Zenon DEF Tells, O
<1>6. CASE c = "prettier --check"
  <2> DEFINE N == {"need formatting", "more", "Run prettier --write"}
             O == Outputs(N, Len(t))
  <2>1. Writes(O, N, t)
    BY Written, Zenon
  <2>2. Filter(c, t, d) = Prettier(t, "--check")
    BY <1>1, <1>6, Zenon DEF FilterLints
  <2>3. Promise(c).bad = {"[warn] x.js", "SyntaxError"} /\ Promise(c).success = {"All files formatted correctly."}
    BY <1>1, <1>6, Zenon DEF PromiseLints, Nothing
  <2>4. Honest(N, c)
    BY <2>3, Zenon DEF Honest
  <2> HIDE DEF O
  <2>5. Prettier(t, "--check") \in O
    BY <2>1, <2>3, PrettierSays, Zenon
  <2>6. QED
    BY <2>2, <2>4, <2>5, Zenon DEF Tells, O
<1>7. CASE c = "prettier --write"
  <2> DEFINE N == {}
             O == Outputs(N, Len(t))
  <2>1. Writes(O, N, t)
    BY Written, Zenon
  <2>2. Filter(c, t, d) = Prettier(t, "--write")
    BY <1>1, <1>7, Zenon DEF FilterLints
  <2>3. Promise(c).bad = {"SyntaxError"} /\ Promise(c).success = {"formatted"}
    BY <1>1, <1>7, Zenon DEF PromiseLints, Nothing
  <2>4. Honest(N, c)
    BY <2>3, Zenon DEF Honest
  <2> HIDE DEF O
  <2>5. Prettier(t, "--write") \in O
    <3>1. PrettierWrite(t) \in O
      BY <2>1, <2>3, PrettierWriteSays, Zenon
    <3>2. QED
      BY <3>1, Zenon DEF Prettier
  <2>6. QED
    BY <2>2, <2>4, <2>5, Zenon DEF Tells, O
<1>8. CASE c = "prettier"
  <2> DEFINE N == {"need formatting", "more", "Run prettier --write"}
             O == Outputs(N, Len(t))
  <2>1. Writes(O, N, t)
    BY Written, Zenon
  <2>2. Filter(c, t, d) = Prettier(t, "")
    BY <1>1, <1>8, Zenon DEF FilterLints
  <2>3. Promise(c).bad = {"SyntaxError", "[warn] x.js"} /\ Promise(c).success = {"formatted", "All files formatted correctly."}
    BY <1>1, <1>8, Zenon DEF PromiseLints, Nothing
  <2>4. Honest(N, c)
    BY <2>3, Zenon DEF Honest
  <2>0. Has(t, {"[warn] x.js", "SyntaxError"})
    BY <2>3, Zenon DEF Has
  <2> HIDE DEF O
  <2>5. Prettier(t, "") \in O
    BY <2>1, <2>3, <2>0, PrettierSays, Zenon
  <2>6. QED
    BY <2>2, <2>4, <2>5, Zenon DEF Tells, O
<1>9. CASE c = "rubocop"
  <2> DEFINE N == {"more convention/style offenses", "offenses"}
             O == Outputs(N, Len(t))
  <2>1. Writes(O, N, t)
    BY Written, Zenon
  <2>2. Filter(c, t, d) = Rubocop(t)
    BY <1>1, <1>9, Zenon DEF FilterLints
  <2>3. Promise(c).bad = {"{error}", "{warning}", "{convention}"} /\ Promise(c).success = {"no offenses"}
    BY <1>1, <1>9, Zenon DEF PromiseLints, Nothing
  <2>4. Honest(N, c)
    BY <2>3, Zenon DEF Honest
  <2> HIDE DEF O
  <2>5. Rubocop(t) \in O
    BY <2>1, <2>3, RubocopSays, Zenon
  <2>6. QED
    BY <2>2, <2>4, <2>5, Zenon DEF Tells, O
<1>10. CASE c \notin {"golangci-lint run", "eslint", "stylelint", "ruff check", "prettier --check", "prettier --write", "prettier", "rubocop"}
  <2>1. PromiseLints(c).success = {}
    BY <1>10, Zenon DEF PromiseLints, Nothing
  <2>2. QED
    BY <1>1, <2>1, Zenon
<1>11. QED
  BY <1>2, <1>3, <1>4, <1>5, <1>6, <1>7, <1>8, <1>9, <1>10, Zenon

\* So does the filter of any package manager but npm outdated.
LEMMA PackagesTell ==
  ASSUME NEW t \in Seq(LineKind), NEW d, NEW c \in PackageCommands,
         c \notin DOMAIN Unknown, c \notin {"npm outdated"},
         Has(t, Promise(c).bad), ~Has(t, Clear)
  PROVE  Promise(c).success = {} \/ Tells(c, t, d)
<1>1. Filter(c, t, d) = FilterPackages(c, t) /\ Promise(c) = PromisePackages(c)
  BY PackageCommandsAre, Zenon
<1>2. CASE c = "pnpm install"
  <2> DEFINE N == {}
             O == Outputs(N, Len(t))
  <2>1. Writes(O, N, t)
    BY Written, Zenon
  <2>2. Filter(c, t, d) = PnpmInstall(t)
    BY <1>1, <1>2, Zenon DEF FilterPackages
  <2>3. Promise(c).bad = {"ERR_PNPM"} /\ Promise(c).success = {"install complete"}
    BY <1>1, <1>2, Zenon DEF PromisePackages, Nothing
  <2>4. Honest(N, c)
    BY <2>3, Zenon DEF Honest
  <2> HIDE DEF O
  <2>5. PnpmInstall(t) \in O
    BY <2>1, <2>3, PnpmInstallSays, Zenon
  <2>6. QED
    BY <2>2, <2>4, <2>5, Zenon DEF Tells, O
<1>3. CASE c = "npm audit"
  <2> DEFINE N == {"package"}
             O == Outputs(N, Len(t))
  <2>1. Writes(O, N, t)
    BY Written, Zenon
  <2>2. Filter(c, t, d) = NpmAudit(t)
    BY <1>1, <1>3, Zenon DEF FilterPackages
  <2>3. Promise(c).bad = {"Severity: high", "3 vulnerabilities"} /\ Promise(c).success = {"no vulnerabilities found"}
    BY <1>1, <1>3, Zenon DEF PromisePackages, Nothing
  <2>4. Honest(N, c)
    BY <2>3, Zenon DEF Honest
  <2>0. ~Has(t, {"found 0 vulnerabilities", "10 vulnerabilities"})
    BY Zenon DEF Has, Clear
  <2> HIDE DEF O
  <2>5. NpmAudit(t) \in O
    BY <2>1, <2>3, <2>0, NpmAuditSays, Zenon
  <2>6. QED
    BY <2>2, <2>4, <2>5, Zenon DEF Tells, O
<1>4. CASE c = "pip install"
  <2> DEFINE N == {"pip install complete"}
             O == Outputs(N, Len(t))
  <2>1. Writes(O, N, t)
    BY Written, Zenon
  <2>2. Filter(c, t, d) = PipInstall(t)
    BY <1>1, <1>4, Zenon DEF FilterPackages
  <2>3. Promise(c).bad = {"ERROR:", "Failed to build"} /\ Promise(c).success = {"ok (already satisfied)"}
    BY <1>1, <1>4, Zenon DEF PromisePackages, Nothing
  <2>4. Honest(N, c)
    BY <2>3, Zenon DEF Honest
  <2> HIDE DEF O
  <2>5. PipInstall(t) \in O
    BY <2>1, <2>3, PipInstallSays, Zenon
  <2>6. QED
    BY <2>2, <2>4, <2>5, Zenon DEF Tells, O
<1>5. CASE c = "poetry install"
  <2> DEFINE N == {"poetry install complete"}
             O == Outputs(N, Len(t))
  <2>1. Writes(O, N, t)
    BY Written, Zenon
  <2>2. Filter(c, t, d) = PoetryInstall(t)
    BY <1>1, <1>5, Zenon DEF FilterPackages
  <2>3. Promise(c).bad = {"ERROR:"} /\ Promise(c).success = {"ok (up to date)"}
    BY <1>1, <1>5, Zenon DEF PromisePackages, Nothing
  <2>4. Honest(N, c)
    BY <2>3, Zenon DEF Honest
  <2> HIDE DEF O
  <2>5. PoetryInstall(t) \in O
    BY <2>1, <2>3, PoetryInstallSays, Zenon
  <2>6. QED
    BY <2>2, <2>4, <2>5, Zenon DEF Tells, O
<1>6. CASE c = "brew update"
  <2> DEFINE N == {}
             O == Outputs(N, Len(t))
  <2>1. Writes(O, N, t)
    BY Written, Zenon
  <2>2. Filter(c, t, d) = BrewUpdate(t)
    BY <1>1, <1>6, Zenon DEF FilterPackages
  <2>3. Promise(c).bad = {"Error:"} /\ Promise(c).success = {"brew update complete"}
    BY <1>1, <1>6, Zenon DEF PromisePackages, Nothing
  <2>4. Honest(N, c)
    BY <2>3, Zenon DEF Honest
  <2> HIDE DEF O
  <2>5. BrewUpdate(t) \in O
    BY <2>1, <2>3, BrewUpdateSays, Zenon
  <2>6. QED
    BY <2>2, <2>4, <2>5, Zenon DEF Tells, O
<1>7. CASE c = "prisma generate"
  <2> DEFINE N == {}
             O == Outputs(N, Len(t))
  <2>1. Writes(O, N, t)
    BY Written, Zenon
  <2>2. Filter(c, t, d) = PrismaGenerate(t)
    BY <1>1, <1>7, Zenon DEF FilterPackages
  <2>3. Promise(c).bad = {"Error"} /\ Promise(c).success = {"generate complete"}
    BY <1>1, <1>7, Zenon DEF PromisePackages, Nothing
  <2>4. Honest(N, c)
    BY <2>3, Zenon DEF Honest
  <2> HIDE DEF O
  <2>5. PrismaGenerate(t) \in O
    BY <2>1, <2>3, PrismaGenerateSays, Zenon
  <2>6. QED
    BY <2>2, <2>4, <2>5, Zenon DEF Tells, O
<1>8. CASE c = "prisma migrate"
  <2> DEFINE N == {}
             O == Outputs(N, Len(t))
  <2>1. Writes(O, N, t)
    BY Written, Zenon
  <2>2. Filter(c, t, d) = PrismaMigrate(t)
    BY <1>1, <1>8, Zenon DEF FilterPackages
  <2>3. Promise(c).bad = {"Error"} /\ Promise(c).success = {"migrate complete", "migrations applied"}
    BY <1>1, <1>8, Zenon DEF PromisePackages, Nothing
  <2>4. Honest(N, c)
    BY <2>3, Zenon DEF Honest
  <2> HIDE DEF O
  <2>5. PrismaMigrate(t) \in O
    BY <2>1, <2>3, PrismaMigrateSays, Zenon
  <2>6. QED
    BY <2>2, <2>4, <2>5, Zenon DEF Tells, O
<1>9. CASE c = "prisma db push"
  <2> DEFINE N == {}
             O == Outputs(N, Len(t))
  <2>1. Writes(O, N, t)
    BY Written, Zenon
  <2>2. Filter(c, t, d) = PrismaPush(t)
    BY <1>1, <1>9, Zenon DEF FilterPackages
  <2>3. Promise(c).bad = {"Error"} /\ Promise(c).success = {"db push complete"}
    BY <1>1, <1>9, Zenon DEF PromisePackages, Nothing
  <2>4. Honest(N, c)
    BY <2>3, Zenon DEF Honest
  <2> HIDE DEF O
  <2>5. PrismaPush(t) \in O
    BY <2>1, <2>3, PrismaPushSays, Zenon
  <2>6. QED
    BY <2>2, <2>4, <2>5, Zenon DEF Tells, O
<1>10. CASE c = "prisma db seed"
  <2> DEFINE N == {}
             O == Outputs(N, Len(t))
  <2>1. Writes(O, N, t)
    BY Written, Zenon
  <2>2. Filter(c, t, d) = PrismaSeed(t)
    BY <1>1, <1>10, Zenon DEF FilterPackages
  <2>3. Promise(c).bad = {"Error"} /\ Promise(c).success = {"seed complete"}
    BY <1>1, <1>10, Zenon DEF PromisePackages, Nothing
  <2>4. Honest(N, c)
    BY <2>3, Zenon DEF Honest
  <2> HIDE DEF O
  <2>5. PrismaSeed(t) \in O
    BY <2>1, <2>3, PrismaSeedSays, Zenon
  <2>6. QED
    BY <2>2, <2>4, <2>5, Zenon DEF Tells, O
<1>11. CASE c = "prisma studio"
  <2> DEFINE N == {}
             O == Outputs(N, Len(t))
  <2>1. Writes(O, N, t)
    BY Written, Zenon
  <2>2. Filter(c, t, d) = PrismaStudio(t)
    BY <1>1, <1>11, Zenon DEF FilterPackages
  <2>3. Promise(c).bad = {"Error"} /\ Promise(c).success = {"studio started"}
    BY <1>1, <1>11, Zenon DEF PromisePackages, Nothing
  <2>4. Honest(N, c)
    BY <2>3, Zenon DEF Honest
  <2> HIDE DEF O
  <2>5. PrismaStudio(t) \in O
    BY <2>1, <2>3, PrismaStudioSays, Zenon
  <2>6. QED
    BY <2>2, <2>4, <2>5, Zenon DEF Tells, O
<1>12. CASE c = "prisma validate"
  <2> DEFINE N == {}
             O == Outputs(N, Len(t))
  <2>1. Writes(O, N, t)
    BY Written, Zenon
  <2>2. Filter(c, t, d) = PrismaValidate(t)
    BY <1>1, <1>12, Zenon DEF FilterPackages
  <2>3. Promise(c).bad = {"Error"} /\ Promise(c).success = {"Schema is valid."}
    BY <1>1, <1>12, Zenon DEF PromisePackages, Nothing
  <2>4. Honest(N, c)
    BY <2>3, Zenon DEF Honest
  <2> HIDE DEF O
  <2>5. PrismaValidate(t) \in O
    BY <2>1, <2>3, PrismaValidateSays, Zenon
  <2>6. QED
    BY <2>2, <2>4, <2>5, Zenon DEF Tells, O
<1>13. CASE c \notin {"pnpm install", "npm audit", "pip install", "poetry install", "brew update", "prisma generate", "prisma migrate", "prisma db push", "prisma db seed", "prisma studio", "prisma validate"}
  <2>1. PromisePackages(c).success = {}
    BY <1>13, Zenon DEF PromisePackages, Nothing
  <2>2. QED
    BY <1>1, <2>1, Zenon
<1>14. QED
  BY <1>2, <1>3, <1>4, <1>5, <1>6, <1>7, <1>8, <1>9, <1>10, <1>11, <1>12, <1>13, Zenon

\* So does that of any command on git or files.
LEMMA FilesTell ==
  ASSUME NEW t \in Seq(LineKind), NEW d, NEW c \in FileCommands,
         c \notin DOMAIN Unknown,
         Has(t, Promise(c).bad), ~Has(t, Clear)
  PROVE  Promise(c).success = {} \/ Tells(c, t, d)
<1>1. Filter(c, t, d) = FilterFiles(c, t, d) /\ Promise(c) = PromiseFiles(c)
  BY FileCommandsAre, Zenon
<1>2. CASE c = "git status"
  <2> DEFINE N == InProgress \cup {"merge in progress, no conflicts", "Staged", "Modified", "Untracked", "more staged/modified", "more untracked"}
             O == Outputs(N, Len(t))
  <2>1. Writes(O, N, t)
    BY Written, Zenon
  <2>2. Filter(c, t, d) = FilterStatus(t, d)
    BY <1>1, <1>2, Zenon DEF FilterFiles
  <2>3. Promise(c).bad = {" M a", "M  a", "?? a"} /\ Promise(c).success = {"nothing to commit, working tree clean"}
    BY <1>1, <1>2, Zenon DEF PromiseFiles, Nothing
  <2>4. Honest(N, c)
    BY <2>3, Zenon DEF Honest, InProgress
  <2>0. ~Has(t, {"nothing to commit"}) /\ Has(t, {" M a", "M  a", "?? a"} \cup UnmergedKinds)
    BY <2>3, Zenon DEF Has, Clear
  <2>7. InProgress \subseteq N /\ {"Staged", "Modified", "Untracked", "more staged/modified", "more untracked"} \subseteq N /\ "merge in progress, no conflicts" \in N
    BY Zenon
  <2> HIDE DEF N
  <2> HIDE DEF O
  <2>5. FilterStatus(t, d) \in O
    BY <2>1, <2>3, <2>0, <2>7, FilterStatusSays, Zenon
  <2>6. QED
    BY <2>2, <2>4, <2>5, Zenon DEF Tells, O
<1>3. CASE c = "git status merging"
  <2> DEFINE N == InProgress \cup {"Staged", "Modified", "Untracked", "more staged/modified", "more untracked"}
             O == Outputs(N, Len(t))
  <2>1. Writes(O, N, t)
    BY Written, Zenon
  <2>2. Filter(c, t, d) = FilterStatus(t, d)
    BY <1>1, <1>3, Zenon DEF FilterFiles
  <2>3. Promise(c).bad = {"UU a", "AA a", "DD a", "UD a", "UA a"} /\ Promise(c).success = {"merge in progress, no conflicts", "nothing to commit, working tree clean"}
    BY <1>1, <1>3, Zenon DEF PromiseFiles, Nothing
  <2>4. Honest(N, c)
    BY <2>3, Zenon DEF Honest, InProgress
  <2>0. ~Has(t, {"nothing to commit"}) /\ Has(t, {" M a", "M  a", "?? a"} \cup UnmergedKinds) /\ Has(t, UnmergedKinds)
    BY <2>3, Zenon DEF Has, Clear, UnmergedKinds
  <2>7. InProgress \subseteq N /\ {"Staged", "Modified", "Untracked", "more staged/modified", "more untracked"} \subseteq N
    BY Zenon
  <2> HIDE DEF N
  <2> HIDE DEF O
  <2>5. FilterStatus(t, d) \in O
    BY <2>1, <2>3, <2>0, <2>7, FilterStatusSays, Zenon
  <2>6. QED
    BY <2>2, <2>4, <2>5, Zenon DEF Tells, O
<1>4. CASE c = "git push"
  <2> DEFINE N == {"..."}
             O == Outputs(N, Len(t))
  <2>1. Writes(O, N, t)
    BY Written, Zenon
  <2>2. Filter(c, t, d) = FilterPushPull(t)
    BY <1>1, <1>4, Zenon DEF FilterFiles
  <2>3. Promise(c).bad = PushPullErrorTerms /\ Promise(c).success = {"ok", "ok (up to date)"}
    BY <1>1, <1>4, Zenon DEF PromiseFiles, Nothing
  <2>4. Honest(N, c)
    BY <2>3, Zenon DEF Honest
  <2>0. DOMAIN t \subseteq Int /\ Has(t, PushPullErrorTerms)
    <3>1. DOMAIN t \subseteq Int
      OBVIOUS
    <3>2. Has(t, PushPullErrorTerms)
      BY <2>3, Zenon DEF Has, PushPullErrorTerms
    <3>3. QED
      BY <3>1, <3>2
  <2> HIDE DEF O
  <2>5. FilterPushPull(t) \in O
    BY <2>1, <2>3, <2>0, FilterPushPullSays, Zenon
  <2>6. QED
    BY <2>2, <2>4, <2>5, Zenon DEF Tells, O
<1>5. CASE c = "git push again"
  <2> DEFINE N == {"..."}
             O == Outputs(N, Len(t))
  <2>1. Writes(O, N, t)
    BY Written, Zenon
  <2>2. Filter(c, t, d) = FilterPushPull(t)
    BY <1>1, <1>5, Zenon DEF FilterFiles
  <2>3. Promise(c).bad = {"error:"} /\ Promise(c).success = {"ok"}
    BY <1>1, <1>5, Zenon DEF PromiseFiles, Nothing
  <2>4. Honest(N, c)
    BY <2>3, Zenon DEF Honest
  <2>0. DOMAIN t \subseteq Int /\ Has(t, PushPullErrorTerms)
    <3>1. DOMAIN t \subseteq Int
      OBVIOUS
    <3>2. Has(t, PushPullErrorTerms)
      BY <2>3, Zenon DEF Has, PushPullErrorTerms
    <3>3. QED
      BY <3>1, <3>2
  <2> HIDE DEF O
  <2>5. FilterPushPull(t) \in O
    BY <2>1, <2>3, <2>0, FilterPushPullSays, Zenon
  <2>6. QED
    BY <2>2, <2>4, <2>5, Zenon DEF Tells, O
<1>6. CASE c = "git merge"
  <2> DEFINE N == {}
             O == Outputs(N, Len(t))
  <2>1. Writes(O, N, t)
    BY Written, Zenon
  <2>2. Filter(c, t, d) = FilterMerge(t)
    BY <1>1, <1>6, Zenon DEF FilterFiles
  <2>3. Promise(c).bad = {"CONFLICT"} /\ Promise(c).success = {"ok (already up to date)", "ok (fast-forward)"}
    BY <1>1, <1>6, Zenon DEF PromiseFiles, Nothing
  <2>4. Honest(N, c)
    BY <2>3, Zenon DEF Honest
  <2> HIDE DEF O
  <2>5. FilterMerge(t) \in O
    BY <2>1, <2>3, FilterMergeSays, Zenon
  <2>6. QED
    BY <2>2, <2>4, <2>5, Zenon DEF Tells, O
<1>7. CASE c = "git rebase"
  <2> DEFINE N == {}
             O == Outputs(N, Len(t))
  <2>1. Writes(O, N, t)
    BY Written, Zenon
  <2>2. Filter(c, t, d) = FilterRebase(t)
    BY <1>1, <1>7, Zenon DEF FilterFiles
  <2>3. Promise(c).bad = {"CONFLICT"} /\ Promise(c).success = {"ok", "ok (already up to date)"}
    BY <1>1, <1>7, Zenon DEF PromiseFiles, Nothing
  <2>4. Honest(N, c)
    BY <2>3, Zenon DEF Honest
  <2> HIDE DEF O
  <2>5. FilterRebase(t) \in O
    BY <2>1, <2>3, FilterRebaseSays, Zenon
  <2>6. QED
    BY <2>2, <2>4, <2>5, Zenon DEF Tells, O
<1>8. CASE c = "git clone"
  <2> DEFINE N == {}
             O == Outputs(N, Len(t))
  <2>1. Writes(O, N, t)
    BY Written, Zenon
  <2>2. Filter(c, t, d) = FilterClone(t)
    BY <1>1, <1>8, Zenon DEF FilterFiles
  <2>3. Promise(c).bad = {"fatal:", "error:"} /\ Promise(c).success = {"ok, cloned"}
    BY <1>1, <1>8, Zenon DEF PromiseFiles, Nothing
  <2>4. Honest(N, c)
    BY <2>3, Zenon DEF Honest
  <2> HIDE DEF O
  <2>5. FilterClone(t) \in O
    BY <2>1, <2>3, FilterCloneSays, Zenon
  <2>6. QED
    BY <2>2, <2>4, <2>5, Zenon DEF Tells, O
<1>9. CASE c = "git checkout"
  <2> DEFINE N == {}
             O == Outputs(N, Len(t))
  <2>1. Writes(O, N, t)
    BY Written, Zenon
  <2>2. Filter(c, t, d) = FilterCheckout(t)
    BY <1>1, <1>9, Zenon DEF FilterFiles
  <2>3. Promise(c).bad = {"error:"} /\ Promise(c).success = {"ok"}
    BY <1>1, <1>9, Zenon DEF PromiseFiles, Nothing
  <2>4. Honest(N, c)
    BY <2>3, Zenon DEF Honest
  <2> HIDE DEF O
  <2>5. FilterCheckout(t) \in O
    BY <2>1, <2>3, FilterCheckoutSays, Zenon
  <2>6. QED
    BY <2>2, <2>4, <2>5, Zenon DEF Tells, O
<1>10. CASE c \notin {"git status", "git status merging", "git push", "git push again", "git merge", "git rebase", "git clone", "git checkout"}
  <2>1. PromiseFiles(c).success = {}
    BY <1>10, Zenon DEF PromiseFiles, Nothing
  <2>2. QED
    BY <1>1, <2>1, Zenon
<1>11. QED
  BY <1>2, <1>3, <1>4, <1>5, <1>6, <1>7, <1>8, <1>9, <1>10, Zenon

\* So does that of any other command.
LEMMA ServicesTell ==
  ASSUME NEW t \in Seq(LineKind), NEW d, NEW c, c \notin Tests \cup Builds \cup Lints \cup PackageCommands \cup FileCommands,
         c \notin DOMAIN Unknown,
         Has(t, Promise(c).bad), ~Has(t, Clear)
  PROVE  Promise(c).success = {} \/ Tells(c, t, d)
<1>1. Filter(c, t, d) = FilterServices(c, t) /\ Promise(c) = PromiseServices(c)
  BY ServicesAre, Zenon
<1>2. CASE c = "docker build"
  <2> DEFINE N == {}
             O == Outputs(N, Len(t))
  <2>1. Writes(O, N, t)
    BY Written, Zenon
  <2>2. Filter(c, t, d) = DockerBuild(t)
    BY <1>1, <1>2, Zenon DEF FilterServices
  <2>3. Promise(c).bad = {"ERROR"} /\ Promise(c).success = {"Build OK"}
    BY <1>1, <1>2, Zenon DEF PromiseServices, Nothing
  <2>4. Honest(N, c)
    BY <2>3, Zenon DEF Honest
  <2> HIDE DEF O
  <2>5. DockerBuild(t) \in O
    BY <2>1, <2>3, DockerBuildSays, Zenon
  <2>6. QED
    BY <2>2, <2>4, <2>5, Zenon DEF Tells, O
<1>3. CASE c = "kubectl get pods"
  <2> DEFINE N == {t[i] : i \in DOMAIN t} \cup {"more", "running"}
             O == Outputs(N, Len(t))
  <2>1. Writes(O, N, t)
    BY Written, Zenon
  <2>2. Filter(c, t, d) = KubectlGetPods(t)
    BY <1>1, <1>3, Zenon DEF FilterServices
  <2>3. Promise(c).bad = {"pod Error", "pod Pending"} /\ Promise(c).success = {"pods, all running"}
    BY <1>1, <1>3, Zenon DEF PromiseServices, Nothing
  <2>0. \A i \in DOMAIN t : t[i] \notin {"line", "pods, all running"}
    BY DotsAre, Zenon DEF Has, Clear
  <2>4. Honest(N, c)
    BY <2>0, <2>3, Zenon DEF Honest
  <2>7. (\A i \in DOMAIN t : t[i] \in N) /\ {"more", "running"} \subseteq N
    BY Zenon
  <2> HIDE DEF N
  <2> HIDE DEF O
  <2>5. KubectlGetPods(t) \in O
    BY <2>1, <2>3, <2>7, KubectlGetPodsSays, Zenon
  <2>6. QED
    BY <2>2, <2>4, <2>5, Zenon DEF Tells, O
<1>4. CASE c = "helm diff"
  <2> DEFINE N == {}
             O == Outputs(N, Len(t))
  <2>1. Writes(O, N, t)
    BY Written, Zenon
  <2>2. Filter(c, t, d) = HelmDiff(t)
    BY <1>1, <1>4, Zenon DEF FilterServices
  <2>3. Promise(c).bad = {"+a", "-a"} /\ Promise(c).success = {"no diff"}
    BY <1>1, <1>4, Zenon DEF PromiseServices, Nothing
  <2>4. Honest(N, c)
    BY <2>3, Zenon DEF Honest
  <2> HIDE DEF O
  <2>5. HelmDiff(t) \in O
    BY <2>1, <2>3, HelmDiffSays, Zenon
  <2>6. QED
    BY <2>2, <2>4, <2>5, Zenon DEF Tells, O
<1>5. CASE c = "terraform plan clean"
  <2> DEFINE N == {"will be created", "will be updated in-place", "must be replaced", "will be destroyed", "more", "to add", "to change", "to destroy"}
             O == Outputs(N, Len(t))
  <2>1. Writes(O, N, t)
    BY Written, Zenon
  <2>2. Filter(c, t, d) = TerraformPlan(t)
    BY <1>1, <1>5, Zenon DEF FilterServices
  <2>3. Promise(c).bad = {"Error:", "| Error:"} /\ Promise(c).success = {"no changes detected"}
    BY <1>1, <1>5, Zenon DEF PromiseServices, Nothing
  <2>4. Honest(N, c)
    BY <2>3, Zenon DEF Honest
  <2> HIDE DEF O
  <2>5. TerraformPlan(t) \in O
    BY <2>1, <2>3, TerraformPlanSays, Zenon
  <2>6. QED
    BY <2>2, <2>4, <2>5, Zenon DEF Tells, O
<1>6. CASE c = "terraform init"
  <2> DEFINE N == {}
             O == Outputs(N, Len(t))
  <2>1. Writes(O, N, t)
    BY Written, Zenon
  <2>2. Filter(c, t, d) = TerraformInit(t)
    BY <1>1, <1>6, Zenon DEF FilterServices
  <2>3. Promise(c).bad = {"Error:"} /\ Promise(c).success = {"terraform init complete"}
    BY <1>1, <1>6, Zenon DEF PromiseServices, Nothing
  <2>4. Honest(N, c)
    BY <2>3, Zenon DEF Honest
  <2> HIDE DEF O
  <2>5. TerraformInit(t) \in O
    BY <2>1, <2>3, TerraformInitSays, Zenon
  <2>6. QED
    BY <2>2, <2>4, <2>5, Zenon DEF Tells, O
<1>7. CASE c = "terraform validate"
  <2> DEFINE N == {}
             O == Outputs(N, Len(t))
  <2>1. Writes(O, N, t)
    BY Written, Zenon
  <2>2. Filter(c, t, d) = TerraformValidate(t)
    BY <1>1, <1>7, Zenon DEF FilterServices
  <2>3. Promise(c).bad = {"Error:", "| Error:"} /\ Promise(c).success = {"terraform validate: ok"}
    BY <1>1, <1>7, Zenon DEF PromiseServices, Nothing
  <2>4. Honest(N, c)
    BY <2>3, Zenon DEF Honest
  <2> HIDE DEF O
  <2>5. TerraformValidate(t) \in O
    BY <2>1, <2>3, TerraformValidateSays, Zenon
  <2>6. QED
    BY <2>2, <2>4, <2>5, Zenon DEF Tells, O
<1>8. CASE c \notin {"docker build", "kubectl get pods", "helm diff", "terraform plan clean", "terraform init", "terraform validate"}
  <2>1. PromiseServices(c).success = {}
    BY <1>8, Zenon DEF PromiseServices, Nothing
  <2>2. QED
    BY <1>1, <2>1, Zenon
<1>9. QED
  BY <1>2, <1>3, <1>4, <1>5, <1>6, <1>7, <1>8, Zenon

-----------------------------------------------------------------------------
\* From the commands to the hook: what the agent is shown.

\* The two commands whose filters can read failures as success.
Unproved == {"go test -json", "npm outdated"}
\* c's filter promises no success, or tells.
FilterTells(c, t, d) == Promise(c).success = {} \/ Tells(c, t, d)

\* Every filter of a command not left out tells of a failure.
LEMMA EachTells ==
  ASSUME NEW t \in Seq(LineKind), NEW d, NEW c, c \notin DOMAIN Unknown, c \notin Unproved,
         Has(t, Promise(c).bad), ~Has(t, Clear)
  PROVE  FilterTells(c, t, d)
<1>1. CASE c \in Tests
  <2>1. c \notin {"go test -json"}
    BY Zenon DEF Unproved
  <2>2. QED
    BY <1>1, <2>1, TestsTell, Zenon DEF FilterTells
<1>2. CASE c \in Builds
  BY <1>2, BuildsTell, Zenon DEF FilterTells
<1>3. CASE c \in Lints
  BY <1>3, LintsTell, Zenon DEF FilterTells
<1>4. CASE c \in PackageCommands
  <2>1. c \notin {"npm outdated"}
    BY Zenon DEF Unproved
  <2>2. QED
    BY <1>4, <2>1, PackagesTell, Zenon DEF FilterTells
<1>5. CASE c \in FileCommands
  BY <1>5, FilesTell, Zenon DEF FilterTells
<1>6. CASE c \notin Tests \cup Builds \cup Lints \cup PackageCommands \cup FileCommands
  BY <1>6, ServicesTell, Zenon DEF FilterTells
<1>7. QED
  BY <1>1, <1>2, <1>3, <1>4, <1>5, <1>6, Zenon

\* What is shown is what the filter made of the lines that were left.
LEMMA ThroughTells ==
  ASSUME NEW N, NEW c, Honest(N, c), NEW left, NEW r \in Outputs(N, Len(left)), NEW m \in Nat, left \in Seq(1..m)
  PROVE  \A j \in DOMAIN Through(Lines(left), r) : Through(Lines(left), r)[j][1] \notin Promise(c).success
<1> DEFINE out1 == Through(Lines(left), r)
           n == Len(left)
<1>1. DOMAIN out1 = DOMAIN r /\ \A j \in DOMAIN r : out1[j] = IF r[j][1] = "line" THEN Lines(left)[r[j][2]] ELSE r[j]
  BY DEF Through
<1>2. \A j \in DOMAIN r : r[j] \in Entries(N, n)
  <2> HIDE DEF Entries
  <2>1. QED
    BY DEF Outputs
<1>3. \A i \in 1..n : Lines(left)[i][1] = "line"
  BY DEF Lines, Line
<1> HIDE DEF out1, n
<1>4. ASSUME NEW j \in DOMAIN r
      PROVE  out1[j][1] \notin Promise(c).success
  <2>1. CASE r[j] \in {"line"} \X (1..n)
    <3>1. r[j][1] = "line" /\ r[j][2] \in 1..n
      BY <2>1
    <3>2. out1[j][1] = "line"
      BY <1>1, <1>3, <3>1, Zenon
    <3>3. QED
      BY <3>2, Zenon DEF Honest
  <2>2. CASE r[j] \in N \X Int
    <3>1. r[j][1] \in N
      BY <2>2
    <3>2. r[j][1] # "line"
      BY <3>1, Zenon DEF Honest
    <3>3. QED
      BY <1>1, <3>1, <3>2, Zenon DEF Honest
  <2>3. QED
    BY <1>2, <2>1, <2>2, Zenon DEF Entries
<1>5. QED
  BY <1>1, <1>4, Zenon DEF out1

\* The run is of a command not left out, its failure passes the noise store, and the
\* program does not itself say that all is well.
Handled == /\ cmd \notin DOMAIN Unknown \cup Unproved
           /\ Commands[cmd].runs = 1 \/ Promise(cmd).bad \subseteq Critical
           /\ ~Has(text, Clear)
\* The inductive invariant: the lines are those of programs, nothing is shown before a
\* command ends, and a command that runs once meets no learned noise.
ReportInv ==
  /\ cmd # "" => cmd \in DOMAIN Commands
  /\ text \in Seq(LineKind)
  /\ cmd = "" => out = Running
  /\ (cmd # "" => Commands[cmd].runs = 1) => noise = NoStore
  /\ Handled => NoFalseSuccess

\* What passes the noise store.
LEMMA PreFilterIs ==
  ASSUME NEW store, NEW t \in Seq(LineKind)
  PROVE  LET left == Where(t, LAMBDA i : t[i] \in Critical \/ ~Promoted(store, t[i]))
             u == ApplyPreFilter(store, t)
         IN  /\ left \in Seq(1..Len(t)) /\ u \in Seq(LineKind) /\ Len(left) = Len(u)
             /\ DOMAIN u = DOMAIN left /\ \A j \in DOMAIN left : u[j] = t[left[j]]
             /\ \A K : Has(u, K) => Has(t, K)
             /\ \A K : (store = NoStore \/ K \subseteq Critical) /\ Has(t, K) => Has(u, K)
<1> DEFINE S == {i \in DOMAIN t : t[i] \in Critical \/ ~Promoted(store, t[i])}
           left == InOrder(S, t)
           u == [j \in DOMAIN left |-> t[left[j]]]
<1>1. Where(t, LAMBDA i : t[i] \in Critical \/ ~Promoted(store, t[i])) = left
  BY Zenon DEF Where
<1>2. ApplyPreFilter(store, t) = u
  BY Zenon DEF ApplyPreFilter, Only, Where
<1>3. left \in Seq(1..Len(t))
  BY InOrderIs
<1>4. /\ u \in Seq(LineKind)
      /\ \A i \in S \cap (1..Len(t)) : \E j \in DOMAIN left : left[j] = i
      /\ \A j \in DOMAIN left : left[j] \in S \cap (1..Len(t))
  <2> HIDE DEF S, LineKind
  <2>1. QED
    BY ChosenIs
<1>5. DOMAIN t = 1..Len(t)
  OBVIOUS
<1>6. DOMAIN u = DOMAIN left /\ \A j \in DOMAIN left : u[j] = t[left[j]]
  BY Zenon
<1>7. Len(left) = Len(u)
  <2> HIDE DEF u, left, LineKind
  <2>1. QED
    BY <1>3, <1>4, <1>6
<1> HIDE DEF u, left
<1>8. \A K : Has(u, K) => Has(t, K)
  BY <1>4, <1>5, <1>6, Zenon DEF Has
<1>9. ASSUME NEW K, store = NoStore \/ K \subseteq Critical, Has(t, K)
      PROVE  Has(u, K)
  <2>1. PICK i \in DOMAIN t : t[i] \in K
    BY <1>9, Zenon DEF Has
  <2>2. DOMAIN NoStore = {}
    BY DEF NoStore
  <2>3. i \in S
    BY <1>9, <2>1, <2>2, Zenon DEF Promoted
  <2>4. PICK j \in DOMAIN left : left[j] = i
    BY <1>4, <1>5, <2>3, Zenon
  <2>5. QED
    BY <1>6, <2>1, <2>4, Zenon DEF Has
<1>10. QED
  BY <1>1, <1>2, <1>3, <1>4, <1>6, <1>7, <1>8, <1>9, Zenon

\* The step in which a command ends and its output is shown.
LEMMA ExitTells ==
  ASSUME ReportInv, Exit, Handled'
  PROVE  NoFalseSuccess'
<1> DEFINE left == Where(text, LAMBDA i : text[i] \in Critical \/ ~Promoted(noise, text[i]))
           u == ApplyPreFilter(noise, text)
<1>1. /\ left \in Seq(1..Len(text)) /\ u \in Seq(LineKind) /\ Len(left) = Len(u)
      /\ DOMAIN u = DOMAIN left /\ \A j \in DOMAIN left : u[j] = text[left[j]]
      /\ \A K : Has(u, K) => Has(text, K)
      /\ \A K : (noise = NoStore \/ K \subseteq Critical) /\ Has(text, K) => Has(u, K)
  BY PreFilterIs, Zenon DEF ReportInv
<1>2. PICK r \in Results(cmd, u, dotgit) : out' = Through(Lines(left), r)
  BY Zenon DEF Exit
<1>3. cmd # "" /\ cmd' = cmd /\ text' = text
  BY Zenon DEF Exit
<1>4. /\ cmd \notin DOMAIN Unknown /\ cmd \notin Unproved
      /\ Commands[cmd].runs = 1 \/ Promise(cmd).bad \subseteq Critical
      /\ ~Has(text, Clear)
  BY <1>3, Zenon DEF Handled
<1>5. r = Filter(cmd, u, dotgit)
  BY <1>2, <1>4, Zenon DEF Results
<1>6. CASE ~Has(text, Promise(cmd).bad)
  BY <1>3, <1>6, Zenon DEF NoFalseSuccess
<1>7. CASE Promise(cmd).success = {}
  BY <1>3, <1>7, Zenon DEF NoFalseSuccess
<1>8. CASE Has(text, Promise(cmd).bad) /\ Promise(cmd).success # {}
  <2>1. noise = NoStore \/ Promise(cmd).bad \subseteq Critical
    BY <1>3, <1>4, Zenon DEF ReportInv
  <2>2. Has(u, Promise(cmd).bad) /\ ~Has(u, Clear)
    BY <1>1, <1>4, <1>8, <2>1, Zenon
  <2> HIDE DEF u, left
  <2>3. FilterTells(cmd, u, dotgit)
    BY <1>1, <1>4, <2>2, EachTells, Zenon
  <2>4. PICK N : Honest(N, cmd) /\ r \in Outputs(N, Len(left))
    BY <1>1, <1>5, <1>8, <2>3, Zenon DEF FilterTells, Tells
  <2>5. Len(text) \in Nat
    BY LenProperties, Zenon DEF ReportInv
  <2>6. \A j \in DOMAIN Through(Lines(left), r) : Through(Lines(left), r)[j][1] \notin Promise(cmd).success
    BY <1>1, <2>4, <2>5, ThroughTells, Zenon
  <2>7. QED
    BY <1>2, <1>3, <2>6, Zenon DEF NoFalseSuccess
<1>9. QED
  BY <1>6, <1>7, <1>8, Zenon

\* Every step keeps the invariant.
LEMMA ReportNext ==
  ASSUME ReportInv, [Next]_vars
  PROVE  ReportInv'
<1>1. CASE Rewrite \/ Route \/ Hook \/ Run
  <2>1. UNCHANGED <<cmd, text, out, noise>>
    BY <1>1, Zenon DEF Rewrite, Route, Hook, Run
  <2>2. QED
    BY <2>1, Zenon DEF ReportInv, Handled, NoFalseSuccess, Exited
<1>2. ASSUME NEW c \in DOMAIN Commands, Launch(c)
      PROVE  ReportInv'
  <2>1. cmd = "" /\ cmd' = c /\ UNCHANGED <<text, out, noise>>
    BY <1>2, Zenon DEF Launch
  <2>2. QED
    BY <2>1, Zenon DEF ReportInv, Handled, NoFalseSuccess, Exited
<1>3. ASSUME cmd # "", NEW block \in Commands[cmd].blocks, Emit(block)
      PROVE  ReportInv'
  <2>1. text' = text \o block /\ out = Running /\ UNCHANGED <<cmd, out, noise>>
    BY <1>3, Zenon DEF Emit
  <2>2. block \in Seq(LineKind)
    BY <1>3, CommandsAssumption, Zenon DEF ReportInv, LineKind
  <2>3. text' \in Seq(LineKind)
    <3>1. \A a, b \in Seq(LineKind) : a \o b \in Seq(LineKind)
      BY ConcatProperties, Zenon
    <3>2. QED
      BY <2>1, <2>2, <3>1, Zenon DEF ReportInv
  <2>4. QED
    BY <2>1, <2>3, Zenon DEF ReportInv, NoFalseSuccess, Exited
<1>4. CASE Exit
  <2>1. cmd # "" /\ UNCHANGED <<cmd, text>> /\ (Commands[cmd].runs = 1 => noise' = noise)
    BY <1>4, Zenon DEF Exit
  <2>2. Handled' => NoFalseSuccess'
    BY <1>4, ExitTells, Zenon
  <2>3. QED
    BY <2>1, <2>2, Zenon DEF ReportInv
<1>5. CASE Again
  <2>1. text' = <<>> /\ out' = Running /\ UNCHANGED <<cmd, noise>>
    BY <1>5, Zenon DEF Again
  <2>2. <<>> \in Seq(LineKind)
    OBVIOUS
  <2>3. QED
    BY <2>1, <2>2, Zenon DEF ReportInv, NoFalseSuccess, Exited
<1>6. CASE UNCHANGED vars
  <2>1. UNCHANGED <<cmd, text, out, noise>>
    BY <1>6, Zenon DEF vars
  <2>2. QED
    BY <2>1, Zenon DEF ReportInv, Handled, NoFalseSuccess, Exited
<1>7. QED
  BY <1>1, <1>2, <1>3, <1>4, <1>5, <1>6, Zenon DEF Next

\* For every run of a command that is not left out, whatever the program writes and in
\* whatever order: when a line tells of a failure, nothing that the agent is shown says
\* that all is well, unless the program says so itself. When a command ran before, lines
\* that were learned as noise may be missing from what its filter sees: then the failure
\* must be one that is never taken for noise.
THEOREM ReportsSafe == Spec => [](Handled => NoFalseSuccess)
<1>1. Init => ReportInv
  <2>1. <<>> \in Seq(LineKind)
    OBVIOUS
  <2>2. QED
    BY <2>1, Zenon DEF Init, ReportInv, NoFalseSuccess, Exited
<1>2. ReportInv /\ [Next]_vars => ReportInv'
  BY ReportNext
<1>3. ReportInv => (Handled => NoFalseSuccess)
  BY DEF ReportInv
<1>4. QED
  BY <1>1, <1>2, <1>3, PTL DEF Spec

-----------------------------------------------------------------------------
\* The lines that say how a command ended: each filter leaves one of them.

\* Notes are outputs.
LEMMA Noted ==
  ASSUME NEW O, NEW N, NEW t, Writes(O, N, t), NEW what \in N, NEW k \in Int
  PROVE  Note(what, k) \in O /\ Counted(what, k) \in O
BY DEF Writes, NoteIn

\* What is shown stays so when anything comes before or after it.
LEMMA Stays ==
  ASSUME NEW H, NEW O, NEW t, NEW K, Keeps(H, O, t, K)
  PROVE  /\ \A a \in H : a \in O /\ a # <<>>
         /\ \A a \in H : \A b \in O : a \o b \in H /\ b \o a \in H
BY DEF Keeps, ShownInOutput, ShownInJoin

\* Sizes that filters cut at.
LEMMA CutsAt == 1 \in Limits /\ 25 \in Limits
BY DEF Limits

\* What is left of a number is a number.
LEMMA Rest == \A x \in Nat : \A y \in Int : x - 25 - y \in Int
OBVIOUS

\* Lines are the same of kinds of which the output has the same lines.
LEMMA SameAt ==
  ASSUME NEW t, NEW K, NEW L, \A i \in DOMAIN t : t[i] \in L <=> t[i] \in K
  PROVE  At(t, L) = At(t, K)
<1>1. {i \in DOMAIN t : t[i] \in L} = {i \in DOMAIN t : t[i] \in K}
  OBVIOUS
<1>2. QED
  BY <1>1, Zenon DEF At, Where

\* The greatest of numbers up to n is one of them.
LEMMA MaxIn ==
  ASSUME NEW n \in Nat, NEW S, S \subseteq 1..n, S # {}
  PROVE  Max(S) \in S
<1> DEFINE R == {n + 1 - x : x \in S}
<1>1. R \subseteq 1..n /\ R # {}
  <2>1. \A x \in S : n + 1 - x \in 1..n
    OBVIOUS
  <2>2. QED
    BY <2>1, Zenon
<1>2. PICK r \in R : \A j \in R : r <= j
  <2> HIDE DEF R
  <2>1. QED
    BY <1>1, Least
<1>3. PICK m \in S : r = n + 1 - m
  BY <1>2
<1>4. \A j \in S : j <= m
  <2>1. TAKE j \in S
  <2>2. n + 1 - j \in R
    OBVIOUS
  <2>3. r <= n + 1 - j
    BY <1>2, <2>2
  <2>4. j \in Int /\ m \in Int
    OBVIOUS
  <2>5. QED
    BY <1>3, <2>3, <2>4
<1>5. \E x \in S : \A j \in S : x >= j
  <2>1. \A j \in S : m >= j
    <3>1. \A j \in S : j \in Int
      OBVIOUS
    <3>2. m \in Int
      BY <3>1
    <3> HIDE DEF R
    <3>3. QED
      BY <1>4, <3>1, <3>2
  <2>2. QED
    BY <2>1
<1>6. QED
  BY <1>5 DEF Max

\* The number of the last line of a kind of K is a number.
LEMMA LastAtIs ==
  ASSUME NEW Kind, NEW t \in Seq(Kind), NEW K
  PROVE  LastAt(t, K) \in Int
<1>1. At(t, K) \in Seq(1..Len(t)) /\ (At(t, K) # <<>> <=> Has(t, K))
  BY AtIs
<1>2. Len(t) \in Nat
  BY LenProperties, Zenon
<1> DEFINE s == At(t, K)
<1> HIDE DEF s
<1>3. s \in Seq(1..Len(t)) /\ (s # <<>> <=> Has(t, K))
  BY <1>1 DEF s
<1>4. ToSet(s) \subseteq 1..Len(t) /\ (s # <<>> => ToSet(s) # {})
  <2>1. Len(s) \in Nat /\ DOMAIN s = 1..Len(s) /\ (s # <<>> => 1 \in DOMAIN s) /\ \A j \in DOMAIN s : s[j] \in 1..Len(t)
    BY <1>3
  <2>2. QED
    BY <2>1, Zenon DEF ToSet
<1>5. Has(t, K) => Max(ToSet(s)) \in 1..Len(t)
  BY <1>2, <1>3, <1>4, MaxIn, Zenon
<1>6. LastAt(t, K) = IF Has(t, K) THEN Max(ToSet(s)) ELSE 0
  BY Zenon DEF LastAt, s
<1>7. QED
  BY <1>2, <1>5, <1>6

\* Lines of K stay shown after other lines.
LEMMA ChainShows ==
  ASSUME NEW H, NEW O, NEW N, NEW t, NEW K, NEW L, Writes(O, N, t), Keeps(H, O, t, K), Has(t, K)
  PROVE  Lines(At(t, L) \o At(t, K)) \in H
<1> DEFINE a == At(t, L)
           b == At(t, K)
           T == {i \in DOMAIN t : t[i] \in K}
<1>1. a \in Rows(t) /\ b \in Rows(t) /\ b # <<>>
  BY Zenon DEF Writes, Picks, AtIn
<1>2. \A j \in DOMAIN b : t[b[j]] \in K /\ b[j] \in DOMAIN t
  BY <1>1, Zenon DEF Writes, Picks, ChosenIn
<1> HIDE DEF a, b
<1>3. \E j \in DOMAIN b : TRUE
  <2>1. \A s \in Seq(1..Len(t)) : s # <<>> => \E j \in DOMAIN s : TRUE
    <3>1. TAKE s \in Seq(1..Len(t))
    <3>2. Len(s) \in Nat /\ DOMAIN s = 1..Len(s) /\ (s # <<>> => 1 \in DOMAIN s)
      OBVIOUS
    <3>3. QED
      BY <3>2, Zenon
  <2>2. QED
    BY <1>1, <2>1, Zenon DEF Rows
<1>4. \E j \in DOMAIN b : b[j] \in T
  BY <1>2, <1>3, Zenon
<1>5. \E j \in DOMAIN (a \o b) : (a \o b)[j] \in T
  <2> HIDE DEF T
  <2>1. QED
    BY <1>1, <1>4, JoinShows, Zenon DEF Rows
<1>6. a \o b \in Rows(t)
  BY <1>1, Zenon DEF Writes, Chains
<1>7. QED
  BY <1>5, <1>6, Zenon DEF Keeps, ShownInLines, a, b

\* The filter of swift test leaves the count of tests.
LEMMA SwiftTestKeeps ==
  ASSUME NEW H, NEW O, NEW t, NEW N, Writes(O, N, t), Keeps(H, O, t, {"Executed 2 tests"})
  PROVE  SwiftTest(t) \in H
BY Zenon DEF SwiftTest, Keeps, ShownInAt, ShownInWhole

\* The filter of ember serve leaves the address.
LEMMA EmberServeKeeps ==
  ASSUME NEW H, NEW O, NEW t, NEW N, Writes(O, N, t), Keeps(H, O, t, {"Serving on"})
  PROVE  EmberServe(t) \in H
BY Zenon DEF EmberServe, Keeps, ShownInCut, ShownInWhole, Writes, Sizes

\* The filter of ember build leaves the build's verdict.
LEMMA EmberBuildKeeps ==
  ASSUME NEW H, NEW O, NEW t, NEW N, {"more errors"} \subseteq N, Writes(O, N, t), Keeps(H, O, t, {"Build successful", "Build failed"})
  PROVE  EmberBuild(t) \in H
<1> DEFINE a == Capped(At(t, {"x.ts:1"}), 40, "more errors")
           b == Lines(Final(At(t, {"Build successful", "Build failed"}), 1))
<1>0. /\ \A x \in H : x \in O /\ x # <<>>
      /\ \A x \in H : \A y \in O : x \o y \in H /\ y \o x \in H
  BY Zenon DEF Keeps, ShownInOutput, ShownInJoin
<1>1. a \in O
  BY Zenon DEF Writes, CappedIn, Sizes
<1>2. b \in H
  BY Zenon DEF Keeps, ShownInCut, Writes, Sizes
<1>3. EmberBuild(t) = OrWhole(a \o b, t)
  BY Zenon DEF EmberBuild
<1> HIDE DEF a, b
<1>4. a \o b \in H
  BY <1>0, <1>1, <1>2, Zenon
<1>5. QED
  BY <1>3, <1>4, Zenon DEF Keeps, ShownInWhole

\* The filter of clippy leaves the number of errors or warnings.
LEMMA ClippyKeeps ==
  ASSUME NEW H, NEW O, NEW t, NEW N, {"clippy warnings", "more"} \subseteq N, Writes(O, N, t), Keeps(H, O, t, {"error: aborting", "2 warnings emitted"})
  PROVE  Clippy(t) \in H
<1> DEFINE errors == FirstOf(t, {"error[A]", "error[B]"})
           warns  == FirstOf(t, {"warning: 1", "warning: 2", "warning: 3", "warning: 4", "warning: 5", "warning: 6"})
           summary == Lines(Final(At(t, {"error: aborting", "2 warnings emitted"}), 1))
           a == Lines(errors)
           b == Counted("clippy warnings", Len(warns))
           c == Capped(warns, 5, "more")
           d == Lines(Take(At(t, {"help:"}), 1))
<1>0. /\ \A x \in H : x \in O /\ x # <<>>
      /\ \A x \in H : \A y \in O : x \o y \in H /\ y \o x \in H
  BY Zenon DEF Keeps, ShownInOutput, ShownInJoin
<1>1. errors \in Rows(t) /\ warns \in Rows(t)
  BY Zenon DEF Writes, Picks
<1>2. summary \in H
  BY Zenon DEF Keeps, ShownInCut, Writes, Sizes
<1>3. a \in O /\ Len(warns) \in Int
  BY <1>1, Zenon DEF Writes, LinesIn
<1>4. b \in O /\ c \in O /\ d \in O
  BY <1>1, <1>3, Zenon DEF Writes, NoteIn, MoreIn, TakeIn, Sizes
<1>5. Clippy(t) = IF errors \o warns = <<>> THEN OrWhole(summary, t) ELSE a \o b \o c \o d \o summary
  BY Zenon DEF Clippy
<1>6. OrWhole(summary, t) \in H
  BY <1>2, Zenon DEF Keeps, ShownInWhole
<1> HIDE DEF a, b, c, d, summary
<1>7. a \o b \o c \in O
  BY <1>3, <1>4, Joins, Zenon
<1>8. a \o b \o c \o d \in O
  BY <1>4, <1>7, Joins, Zenon
<1>9. a \o b \o c \o d \o summary \in H
  BY <1>0, <1>2, <1>8, Zenon
<1>10. QED
  BY <1>5, <1>6, <1>9, Zenon

\* The filter of ruff check leaves the number of errors.
LEMMA RuffCheckKeeps ==
  ASSUME NEW H, NEW O, NEW t, NEW N, {"E501", "F401", "and more"} \subseteq N, Writes(O, N, t), Keeps(H, O, t, {"Found 2 errors"}),
         Has(t, {"Found 2 errors"}), ~Has(t, {"All checks passed."})
  PROVE  RuffCheck(t) \in H
<1> DEFINE group(c) == IF Has(t, {c})
                  THEN Note(c, Len(At(t, {c}))) \o Capped(At(t, {c}), 3, "and more") ELSE <<>>
           a == group("E501")
           b == group("F401")
           d == Lines(At(t, {"text"}) \o At(t, {"Found 2 errors"}))
<1>0. /\ \A x \in H : x \in O /\ x # <<>>
      /\ \A x \in H : \A y \in O : x \o y \in H /\ y \o x \in H
  BY Stays
<1>1. ~ \A i \in DOMAIN t : t[i] = ""
  BY Zenon DEF Has
<1>2. a \in O /\ b \in O
  BY Zenon DEF Writes, AtIn, NoteIn, CappedIn, Sizes, JoinIn, WholeIn
<1>3. d \in H
  BY ChainShows, Zenon
<1>4. RuffCheck(t) = a \o b \o d
  BY <1>1, Zenon DEF RuffCheck
<1> HIDE DEF a, b, d
<1>5. a \o b \in O
  BY <1>2, Joins, Zenon
<1>6. QED
  BY <1>0, <1>3, <1>4, <1>5, Zenon

\* The filter of ruff format leaves the number of files.
LEMMA RuffFormatKeeps ==
  ASSUME NEW H, NEW O, NEW t, NEW N, Writes(O, N, t), Keeps(H, O, t, {"2 files reformatted"})
  PROVE  RuffFormat(t) \in H
BY Zenon DEF RuffFormat, Keeps, ShownInOutput, ShownInCut, Writes, Sizes

\* The filter of mypy leaves the number of errors.
LEMMA MypyKeeps ==
  ASSUME NEW H, NEW O, NEW t, NEW N, {"a.py", "b.py", "more in file", "mypy: errors"} \subseteq N, Writes(O, N, t), Keeps(H, O, t, {"Found 1 error"}),
         ~Has(t, {"Success: no issues found"})
  PROVE  Mypy(t) \in H
<1> DEFINE file(f, k) == LET es == At(t, {k}) IN
        IF es = <<>> THEN <<>> ELSE Note(f, 0) \o Capped(es, 5, "more in file")
           a == file("a.py", "a.py: error")
           b == file("b.py", "b.py: error")
           c == Lines(At(t, {"text", "Found 1 error"}))
           d == Counted("mypy: errors", Len(At(t, {"a.py: error", "b.py: error"})))
<1>0. /\ \A x \in H : x \in O /\ x # <<>>
      /\ \A x \in H : \A y \in O : x \o y \in H /\ y \o x \in H
  BY Stays
<1>1. a \in O /\ b \in O
  BY Zenon DEF Writes, NoteIn, CappedIn, Sizes, JoinIn, WholeIn
<1>2. c \in H
  BY Zenon DEF Keeps, ShownInAt
<1>3. d \in O
  BY Zenon DEF Writes, AtIn, NoteIn
<1>4. Mypy(t) = a \o b \o c \o d
  BY Zenon DEF Mypy
<1> HIDE DEF a, b, c, d
<1>5. a \o b \in O
  BY <1>1, Joins, Zenon
<1>6. a \o b \o c \in H
  BY <1>0, <1>2, <1>5, Zenon
<1>7. QED
  BY <1>0, <1>3, <1>4, <1>6, Zenon

\* The filter of prettier leaves a syntax error.
LEMMA PrettierKeeps ==
  ASSUME NEW H, NEW O, NEW t, NEW N, Writes(O, N, t), Keeps(H, O, t, {"SyntaxError"}),
         Has(t, {"SyntaxError"}), NEW flag
  PROVE  Prettier(t, flag) \in H
<1>1. Lines(At(t, {"SyntaxError"})) \in H /\ At(t, {"SyntaxError"}) # <<>>
  BY Zenon DEF Keeps, ShownInAt, Writes, AtIn
<1>2. QED
  BY <1>1, Zenon DEF Prettier, PrettierCheck, PrettierWrite

\* The filter of npm install leaves the audit line.
LEMMA NpmInstallKeeps ==
  ASSUME NEW H, NEW O, NEW Kind, NEW t \in Seq(Kind), NEW N, {"install complete"} \subseteq N, Writes(O, N, t), Keeps(H, O, t, {"3 vulnerabilities"})
  PROVE  NpmInstall(t) \in H
<1> DEFINE m == LastAt(t, {"added 3 packages"})
           a == Note("install complete", m)
           b == Lines(Final(At(t, {"3 vulnerabilities"}), 1))
<1>0. /\ \A x \in H : x \in O /\ x # <<>>
      /\ \A x \in H : \A y \in O : x \o y \in H /\ y \o x \in H
  BY Stays
<1>1. m \in Int
  BY LastAtIs
<1>2. a \in O
  BY <1>1, Noted, Zenon
<1>3. b \in H
  BY Zenon DEF Keeps, ShownInCut, Writes, Sizes
<1>4. NpmInstall(t) = a \o b
  BY Zenon DEF NpmInstall
<1> HIDE DEF a, b
<1>5. QED
  BY <1>0, <1>2, <1>3, <1>4, Zenon

\* The filter of npm audit leaves the number of vulnerabilities.
LEMMA NpmAuditKeeps ==
  ASSUME NEW H, NEW O, NEW t, NEW N, {"package"} \subseteq N, Writes(O, N, t), Keeps(H, O, t, {"3 vulnerabilities"}),
         ~Has(t, {"found 0 vulnerabilities", "10 vulnerabilities"})
  PROVE  NpmAudit(t) \in H
<1> DEFINE named(i) == LET above == {j \in 1..(i - 1) : t[j] \notin {"", "node_modules/a", "fix available"}}
                       IN  IF above = {} THEN 0 ELSE Max(above)
           severe == Take(At(t, {"Severity: high"}), 15)
           last == Lines(Final(At(t, {"3 vulnerabilities", "10 vulnerabilities"}), 1))
           names == [j \in DOMAIN severe |-> <<"package", named(severe[j])>>]
           shown == last \o names
<1>0. /\ \A x \in H : x \in O /\ x # <<>>
      /\ \A x \in H : \A y \in O : x \o y \in H /\ y \o x \in H
  BY Stays
<1>1. severe \in Rows(t)
  <2>1. At(t, {"Severity: high"}) \in Rows(t)
    BY Zenon DEF Writes, Picks
  <2>2. QED
    BY <2>1, Zenon DEF Writes, Cuts, Sizes
<1>2. last \in H
  <2>1. At(t, {"3 vulnerabilities", "10 vulnerabilities"}) = At(t, {"3 vulnerabilities"})
    <3>1. \A i \in DOMAIN t : t[i] \in {"3 vulnerabilities", "10 vulnerabilities"} <=> t[i] \in {"3 vulnerabilities"}
      BY Zenon DEF Has
    <3>2. QED
      BY <3>1, SameAt, Zenon
  <2>2. QED
    BY <2>1, Zenon DEF Keeps, ShownInCut, Writes, Sizes
<1>4. ASSUME NEW i \in DOMAIN t
      PROVE  named(i) \in Int
  <2> DEFINE above == {j \in 1..(i - 1) : t[j] \notin {"", "node_modules/a", "fix available"}}
  <2>1. above \subseteq 1..(i - 1)
    BY Zenon
  <2>2. above # {} => Max(above) \in Int
    BY <2>1, Zenon DEF Writes, Counts
  <2> HIDE DEF above
  <2>3. (IF above = {} THEN 0 ELSE Max(above)) \in Int
    BY <2>2, Zenon DEF Writes, Sizes
  <2>4. QED
    BY <2>3, Zenon DEF above
<1> HIDE DEF named
<1>5. ASSUME NEW j \in DOMAIN severe
      PROVE  <<"package", named(severe[j])>> \in N \X Int
  <2> HIDE DEF severe
  <2>1. severe[j] \in DOMAIN t
    BY <1>1, Zenon DEF Writes, ChosenIn
  <2>2. QED
    BY <1>4, <2>1, Zenon
<1>6. names \in [DOMAIN severe -> N \X Int]
  <2> HIDE DEF severe
  <2>1. QED
    BY <1>5, Zenon
<1>7. names \in O
  <2> HIDE DEF names, severe
  <2>1. QED
    BY <1>1, <1>6, Zenon DEF Writes, TallyIn
<1>8. NpmAudit(t) = IF shown # <<>> THEN shown
                    ELSE OrWhole(Lines(Take(Where(t, LAMBDA i : t[i] \notin {"", "node_modules/a"}), 20)), t)
  BY Zenon DEF NpmAudit, named
<1> HIDE DEF names, last, severe
<1>9. shown \in H /\ shown # <<>>
  BY <1>0, <1>2, <1>7, Zenon
<1>10. QED
  BY <1>8, <1>9, Zenon

\* The filter of tree leaves the totals.
LEMMA TreeKeeps ==
  ASSUME NEW H, NEW O, NEW Kind, NEW t \in Seq(Kind), NEW N, {"more entries"} \subseteq N, Writes(O, N, t), Keeps(H, O, t, {"2 directories, 3 files"})
  PROVE  Tree(t) \in H
<1> DEFINE s == Final(At(t, {"2 directories, 3 files"}), 1)
           m == Len(t) - 25 - Len(s)
           a == Lines(Take(Every(t), 25))
           b == Note("more entries", m)
           c == Lines(s)
<1>0. /\ \A x \in H : x \in O /\ x # <<>>
      /\ \A x \in H : \A y \in O : x \o y \in H /\ y \o x \in H
  BY Stays
<1>1. c \in H
  BY Zenon DEF Keeps, ShownInCut, Writes, Sizes
<1>2. s \in Rows(t) /\ a \in O
  <2>1. At(t, {"2 directories, 3 files"}) \in Rows(t) /\ Every(t) \in Rows(t)
    BY Zenon DEF Writes, Picks
  <2>2. 1 \in Limits /\ 25 \in Limits
    BY CutsAt
  <2>3. s \in Rows(t) /\ Take(Every(t), 25) \in Rows(t)
    BY <2>1, <2>2, Zenon DEF Writes, Cuts
  <2>4. QED
    BY <2>3, Zenon DEF Writes, LinesIn
<1>3. m \in Int
  <2> HIDE DEF s, a, b, c
  <2>1. Len(s) \in Int
    BY <1>2, Zenon DEF Writes, LinesIn
  <2>2. Len(t) \in Nat
    BY Indices, Zenon
  <2>3. \A x \in Nat : \A y \in Int : x - 25 - y \in Int
    BY Rest, Zenon
  <2>4. QED
    BY <2>1, <2>2, <2>3, Zenon
<1>4. b \in O
  BY <1>3, Noted, Zenon
<1>5. Tree(t) = IF Len(t) <= 30 THEN Whole(t) ELSE a \o b \o c
  BY Zenon DEF Tree
<1> HIDE DEF a, b, c
<1>6. a \o b \in O
  BY <1>2, <1>4, Joins, Zenon
<1>7. a \o b \o c \in H
  BY <1>0, <1>1, <1>6, Zenon
<1>8. QED
  BY <1>5, <1>7, Zenon DEF Keeps, ShownInWhole

\* The filter of git commit leaves the commit's line.
LEMMA FilterCommitKeeps ==
  ASSUME NEW H, NEW O, NEW t, NEW N, {"ok"} \subseteq N, Writes(O, N, t), Keeps(H, O, t, {"[main 1a2b3c]"})
  PROVE  FilterCommit(t) \in H
<1> DEFINE a == Note("ok", 0)
           b == FirstLine(t, {"[main 1a2b3c]"})
           c == LastLine(t, {"1 file changed"})
<1>0. /\ \A x \in H : x \in O /\ x # <<>>
      /\ \A x \in H : \A y \in O : x \o y \in H /\ y \o x \in H
  BY Stays
<1>1. a \in O /\ c \in O
  BY Zenon DEF Writes, NoteIn, FinalIn, Sizes, LastLine
<1>2. b \in H
  BY Zenon DEF Keeps, ShownInCut, Writes, Sizes, FirstLine
<1>3. FilterCommit(t) = IF ~Has(t, {"[main 1a2b3c]"}) THEN Whole(t) ELSE a \o b \o c
  BY Zenon DEF FilterCommit
<1> HIDE DEF a, b, c
<1>4. a \o b \in H
  BY <1>0, <1>1, <1>2, Zenon
<1>5. a \o b \o c \in H
  BY <1>0, <1>1, <1>4, Zenon
<1>6. QED
  BY <1>3, <1>5, Zenon DEF Keeps, ShownInWhole

\* The filters of helm install and helm status leave an error.
LEMMA HelmKeeps ==
  ASSUME NEW H, NEW O, NEW t, NEW N, Writes(O, N, t), Keeps(H, O, t, {"Error:"})
  PROVE  HelmDeploy(t) \in H /\ HelmStatus(t) \in H
<1>1. Lines(At(t, {"NAME:", "STATUS:", "NOTES:", "has been upgraded", "Error:"})) \in H
  BY Zenon DEF Keeps, ShownInAt
<1>2. Lines(At(t, {"NAME:", "STATUS:", "NOTES:", "READY:", "Error:"})) \in H
  BY Zenon DEF Keeps, ShownInAt
<1>3. \A a \in H : OrWhole(a, t) \in H
  BY Zenon DEF Keeps, ShownInWhole
<1>4. QED
  BY <1>1, <1>2, <1>3, Zenon DEF HelmDeploy, HelmStatus, KeepOrWhole

\* The filter of terraform state show leaves the resource.
LEMMA TerraformStateShowKeeps ==
  ASSUME NEW H, NEW O, NEW t, NEW N, Writes(O, N, t), Keeps(H, O, t, {"resource a"})
  PROVE  TerraformStateShow(t) \in H
BY Zenon DEF TerraformStateShow, KeepOrWhole, Keeps, ShownInAt, ShownInWhole

\* The first line of a kind is among the first lines of more kinds.
LEMMA FirstShows ==
  ASSUME NEW Kind, NEW t \in Seq(Kind), NEW L, NEW k \in L, Has(t, {k})
  PROVE  Among(FirstOf(t, L), t, {k})
<1> DEFINE S == {i \in DOMAIN t : t[i] \in L /\ \A j \in 1..(i - 1) : t[j] # t[i]}
           w == FirstOf(t, L)
           T == {i \in 1..Len(t) : t[i] = k}
<1>1. DOMAIN t = 1..Len(t) /\ Len(t) \in Nat
  BY LenProperties, Zenon
<1>2. w = InOrder(S, t)
  BY Zenon DEF FirstOf, Where
<1>3. /\ w \in Seq(1..Len(t))
      /\ \A i \in S \cap (1..Len(t)) : \E j \in 1..Len(w) : w[j] = i
  <2> HIDE DEF S
  <2>1. QED
    BY <1>2, InOrderIs
<1>4. T # {} /\ T \subseteq 1..Len(t)
  BY <1>1, Zenon DEF Has
<1>5. PICK i \in T : \A j \in T : i <= j
  <2> HIDE DEF T
  <2>1. QED
    BY <1>1, <1>4, Least
<1>6. \A j \in 1..(i - 1) : j \in 1..Len(t) /\ j \notin T
  BY <1>1, <1>5
<1>7. i \in S /\ i \in 1..Len(t) /\ t[i] = k
  BY <1>1, <1>5, <1>6, Zenon
<1> HIDE DEF S, w
<1>8. PICK j \in 1..Len(w) : w[j] = i
  BY <1>3, <1>7
<1>9. j \in DOMAIN w
  BY <1>3, <1>8
<1>10. QED
  BY <1>7, <1>8, <1>9, Zenon DEF Among, w

\* The filter of aws s3 ls leaves a prefix.
LEMMA AwsS3LsKeeps ==
  ASSUME NEW H, NEW O, NEW Kind, NEW t \in Seq(Kind), NEW N, {"objects"} \subseteq N, Writes(O, N, t), Keeps(H, O, t, {"PRE a/"}),
         Has(t, {"PRE a/"})
  PROVE  AwsS3Ls(t) \in H
<1> DEFINE n == Len(At(t, {"object"}))
           s == FirstOf(t, {"PRE a/", "PRE b/"})
           a == Counted("objects", n)
           b == Lines(s)
<1>0. /\ \A x \in H : x \in O /\ x # <<>>
      /\ \A x \in H : \A y \in O : x \o y \in H /\ y \o x \in H
  BY Zenon DEF Keeps, ShownInOutput, ShownInJoin
<1>1. n \in Int /\ s \in Rows(t)
  BY Zenon DEF Writes, AtIn, Picks
<1>2. a \in O
  BY <1>1, Noted, Zenon
<1>3. b \in H
  <2>1. "PRE a/" \in {"PRE a/", "PRE b/"}
    BY Zenon
  <2>2. Among(s, t, {"PRE a/"})
    BY <2>1, FirstShows, Zenon
  <2> HIDE DEF s
  <2>3. QED
    BY <1>1, <2>2, Zenon DEF Among, Keeps, ShownInLines
<1>4. AwsS3Ls(t) = OrWhole(a \o b, t)
  BY Zenon DEF AwsS3Ls
<1> HIDE DEF a, b
<1>5. QED
  BY <1>0, <1>2, <1>3, <1>4, Zenon DEF Keeps, ShownInWhole

\* The filter of cargo nextest run leaves the summary.
LEMMA NextestKeeps ==
  ASSUME NEW H, NEW O, NEW t, NEW N, {"block"} \subseteq N, Writes(O, N, t), Keeps(H, O, t, {"Summary"}),
         Has(t, {"Summary"})
  PROVE  Nextest(t) \in H
<1> DEFINE fails == At(t, DOMAIN StdoutOf)
           summary == Final(At(t, {"Summary"}), 1)
           headers == {StdoutOf[k] : k \in DOMAIN StdoutOf}
           details(f) == Where(t, LAMBDA i : /\ t[i] = StdoutOf[t[f]]
                                             /\ i < Len(t) /\ t[i + 1] \notin headers)
           last(f) == Final(details(f), 1)
           block(f) == [n \in DOMAIN last(f) |-> <<"block", Last(details(f))>>]
           F == [j \in DOMAIN fails |-> <<Line(fails[j])>> \o block(fails[j])]
           a == FlattenSeq(F)
           b == Lines(summary)
<1>0. /\ \A x \in H : x \in O /\ x # <<>>
      /\ \A x \in H : \A y \in O : x \o y \in H /\ y \o x \in H
  BY Zenon DEF Keeps, ShownInOutput, ShownInJoin
<1>1. fails \in Rows(t) /\ summary \in Rows(t) /\ summary # <<>>
  <2>1. fails \in Rows(t) /\ At(t, {"Summary"}) \in Rows(t)
    BY Zenon DEF Writes, Picks
  <2>2. summary # <<>>
    BY Zenon DEF Writes, FinalIn, Sizes
  <2>3. summary \in Rows(t)
    BY <2>1, Zenon DEF Writes, Cuts, Sizes
  <2>4. QED
    BY <2>1, <2>2, <2>3, Zenon
<1>2. b \in H
  BY Zenon DEF Keeps, ShownInCut, Writes, Sizes
<1>3. Nextest(t) = IF fails \o summary = <<>> THEN Whole(t) ELSE a \o b
  BY Zenon DEF Nextest
<1>4. ASSUME NEW f
      PROVE  block(f) \in O
  <2> DEFINE d == details(f)
             S == {i \in DOMAIN t : /\ t[i] = StdoutOf[t[f]] /\ i < Len(t) /\ t[i + 1] \notin headers}
  <2>1. d \in Rows(t)
    <3>1. d = InOrder(S, t)
      BY Zenon DEF Where
    <3> HIDE DEF S, d
    <3>2. QED
      BY <3>1, Zenon DEF Writes, Picks
  <2>2. last(f) \in Rows(t) /\ (last(f) # <<>> <=> d # <<>>)
    <3> HIDE DEF details
    <3>1. QED
      BY <2>1, Zenon DEF Writes, Cuts, Sizes
  <2>3. last(f) # <<>> => Last(d) \in Int
    <3> HIDE DEF details, d
    <3>1. d # <<>> => Last(d) \in Int
      BY <2>1 DEF Last, Rows
    <3>2. QED
      BY <2>2, <3>1, Zenon
  <2>4. block(f) \in O
    <3> DEFINE l == last(f)
               g == [n \in DOMAIN l |-> <<"block", Last(d)>>]
    <3>1. \A n \in DOMAIN l : l # <<>>
      <4> HIDE DEF details, d, l
      <4>1. DOMAIN <<>> = {}
        OBVIOUS
      <4>2. QED
        BY <4>1, Zenon
    <3> HIDE DEF details, d
    <3>2. g \in [DOMAIN l -> N \X Int]
      <4>1. "block" \in N
        BY Zenon
      <4> HIDE DEF l
      <4>2. \A n \in DOMAIN l : <<"block", Last(d)>> \in N \X Int
        BY <2>3, <3>1, <4>1, Zenon DEF l
      <4>3. QED
        BY <4>2, Zenon
    <3>3. l \in Rows(t)
      BY <2>2, Zenon
    <3> HIDE DEF l, g
    <3>4. g \in O
      BY <3>2, <3>3, Zenon DEF Writes, TallyIn
    <3>5. QED
      BY <3>4, Zenon DEF g, l, d
  <2>5. QED
    BY <2>4, Zenon
<1> HIDE DEF block, fails
<1>5. ASSUME NEW j \in DOMAIN fails
      PROVE  <<Line(fails[j])>> \o block(fails[j]) \in O
  <2>1. fails[j] \in DOMAIN t
    BY <1>1, Zenon DEF Writes, ChosenIn
  <2>2. <<Line(fails[j])>> \in O /\ block(fails[j]) \in O
    BY <1>4, <2>1, Zenon DEF Writes, LinesIn
  <2>3. QED
    BY <2>2, Joins, Zenon
<1>6. F \in [DOMAIN fails -> O]
  BY <1>5, Zenon
<1> HIDE DEF F
<1>7. a \in O
  BY <1>1, <1>6, Zenon DEF Writes, FlatIn
<1>8. fails \o summary # <<>>
  <2> HIDE DEF summary
  <2>1. QED
    BY <1>1, Zenon DEF Writes, Chains
<1> HIDE DEF a, b, summary
<1>9. QED
  BY <1>0, <1>2, <1>3, <1>7, <1>8, Zenon

\* The filter of stylelint leaves the number of problems.
LEMMA StylelintKeeps ==
  ASSUME NEW H, NEW O, NEW Kind, NEW t \in Seq(Kind), NEW N, {"more issues"} \subseteq N, Writes(O, N, t), Keeps(H, O, t, {"2 problems"}),
         Has(t, {"2 problems"}), ~Has(t, {"0 problems"})
  PROVE  Stylelint(t) \in H
<1> DEFINE z == StylelintFlush(Scan(LAMBDA a, i : StylelintStep(t, a, i), [out |-> <<>>, file |-> <<>>, lines |-> <<>>, total |-> 0], t))
           m == IF z.total > 40 THEN Note("more issues", z.total - 40) ELSE <<>>
           s == Lines(Final(At(t, {"2 problems", "0 problems"}), 1))
<1>0. /\ \A x \in H : x \in O /\ x # <<>>
      /\ \A x \in H : \A y \in O : x \o y \in H /\ y \o x \in H
  BY Zenon DEF Keeps, ShownInOutput, ShownInJoin
<1>1. z \in LintState(O, Rows(t))
  BY StylelintScanIn, StylelintFlushIn, Zenon
<1>2. s \in H
  <2>1. At(t, {"2 problems", "0 problems"}) = At(t, {"2 problems"})
    <3>1. \A i \in DOMAIN t : t[i] \in {"2 problems", "0 problems"} <=> t[i] \in {"2 problems"}
      BY Zenon DEF Has
    <3>2. QED
      BY <3>1, SameAt, Zenon
  <2>2. QED
    BY <2>1, Zenon DEF Keeps, ShownInCut, Writes, Sizes
<1>3. ~ \A i \in DOMAIN t : t[i] = ""
  BY Zenon DEF Has
<1>4. Stylelint(t) = IF z.out = <<>> THEN OrWhole(s, t)
                     ELSE z.out \o m \o (IF s # <<>> THEN s ELSE Note("issues found", z.total))
  BY <1>3, Zenon DEF Stylelint
<1> HIDE DEF z, s
<1>5. z.out \in O /\ z.total - 40 \in Int
  BY <1>1, LintParts, Zenon
<1>6. m \in O
  BY <1>5, Zenon DEF Writes, NoteIn, WholeIn
<1> HIDE DEF m
<1>7. z.out \o m \in O
  BY <1>5, <1>6, Joins, Zenon
<1>8. QED
  BY <1>0, <1>2, <1>4, <1>7, Zenon DEF Keeps, ShownInWhole

\* The filter of prisma leaves an error.
LEMMA PrismaOtherKeeps ==
  ASSUME NEW H, NEW O, NEW t, NEW N, Writes(O, N, t), Keeps(H, O, t, {"Error"})
  PROVE  PrismaOther(t) \in H
<1> DEFINE a == Lines(At(t, {"Error", "warn", "Generated"}))
           b == Lines(Final(Filled(t), 5))
<1>0. \A x \in H : \A y \in O : x \o y \in H
  BY Zenon DEF Keeps, ShownInJoin
<1>1. a \in H
  BY Zenon DEF Keeps, ShownInAt
<1>2. b \in O
  <2>1. Final(Filled(t), 5) \in Rows(t)
    BY Zenon DEF Writes, Picks, Cuts, Sizes
  <2>2. QED
    BY <2>1, Zenon DEF Writes, LinesIn
<1>3. PrismaOther(t) = IF Len(Filled(t)) <= 10 THEN Whole(t) ELSE Dedup(a \o b, t)
  BY Zenon DEF PrismaOther
<1> HIDE DEF a, b
<1>4. a \o b \in H
  BY <1>0, <1>1, <1>2, Zenon
<1>5. QED
  BY <1>3, <1>4, Zenon DEF Keeps, ShownInDedup, ShownInWhole

\* The lines of a kind are among those chosen for more kinds.
LEMMA ChosenShows ==
  ASSUME NEW t, NEW s \in Rows(t), NEW K, NEW L, K \subseteq L, Among(s, t, K)
  PROVE  /\ Chosen({j \in DOMAIN s : t[s[j]] \in L}, s) \in Rows(t)
         /\ Among(Chosen({j \in DOMAIN s : t[s[j]] \in L}, s), t, K)
<1> DEFINE S == {j \in DOMAIN s : t[s[j]] \in L}
           w == InOrder(S, s)
           r == [j \in DOMAIN w |-> s[w[j]]]
<1>1. Chosen(S, s) = r
  BY Zenon DEF Chosen
<1>2. /\ r \in Seq(1..Len(t))
      /\ \A i \in S \cap (1..Len(s)) : \E j \in DOMAIN w : w[j] = i
  <2> HIDE DEF S
  <2>1. QED
    BY ChosenIs DEF Rows
<1>3. PICK i \in DOMAIN s : t[s[i]] \in K
  BY Zenon DEF Among
<1>4. i \in 1..Len(s)
  BY <1>3 DEF Rows
<1>5. i \in S
  BY <1>3, Zenon
<1>6. PICK j \in DOMAIN w : w[j] = i
  BY <1>2, <1>4, <1>5, Zenon
<1>7. Among(r, t, K)
  BY <1>3, <1>6, Zenon DEF Among
<1>8. QED
  BY <1>1, <1>2, <1>7, Zenon DEF Rows

\* Every line is among all lines.
LEMMA EveryShows ==
  ASSUME NEW t, NEW K, Has(t, K)
  PROVE  Among(Every(t), t, K)
BY Zenon DEF Has, Among, Every

\* The filter of pnpm run leaves an error.
LEMMA PnpmRunKeeps ==
  ASSUME NEW H, NEW O, NEW t, NEW N, {"lines of output"} \subseteq N, Writes(O, N, t), Keeps(H, O, t, {"error"}),
         Has(t, {"error"}), ~Has(t, JsReport), ~Has(t, {"Test Files 1 failed"}), ~Has(t, {"Test Suites:"})
  PROVE  PnpmRun(t) \in H
<1> DEFINE L == {"error", "warning", "1 failed", "success", "done in 2s", "npm WARN", "10:5 error", "compiled"}
           s == Every(t)
           r == Only(s, LAMBDA i : t[i] \in L)
           a == Lines(r)
           b == Note("lines of output", Len(s))
           c == Lines(Final(s, 5))
<1>0. /\ \A x \in H : x \in O /\ x # <<>>
      /\ \A x \in H : \A y \in O : x \o y \in H /\ y \o x \in H
  BY Zenon DEF Keeps, ShownInOutput, ShownInJoin
<1>1. s \in Rows(t) /\ Final(s, 5) \in Rows(t) /\ Len(s) \in Int
  <2>1. s \in Rows(t)
    BY Zenon DEF Writes, Picks
  <2>2. QED
    BY <2>1, Zenon DEF Writes, Cuts, LinesIn, Sizes
<1>2. PnpmRun(t) = IF Len(t) <= 20 THEN Whole(t) ELSE Dedup(a \o b \o c, t)
  BY Zenon DEF PnpmRun, ScriptOutput, PnpmScript, ImportantAndTail
<1>3. r \in Rows(t) /\ Among(r, t, {"error"})
  <2>1. Among(s, t, {"error"})
    BY EveryShows, Zenon
  <2>2. {"error"} \subseteq L
    BY Zenon
  <2>3. r = Chosen({j \in DOMAIN s : t[s[j]] \in L}, s)
    BY Zenon DEF Only, Where, Chosen
  <2> HIDE DEF r, s, L
  <2>4. QED
    BY <1>1, <2>1, <2>2, <2>3, ChosenShows, Zenon
<1> HIDE DEF s, r
<1>4. a \in H
  BY <1>3, Zenon DEF Among, Keeps, ShownInLines
<1>5. b \in O
  BY <1>1, Noted, Zenon
<1>6. c \in O
  BY <1>1, Zenon DEF Writes, LinesIn
<1> HIDE DEF a, b, c
<1>7. a \o b \in H
  BY <1>0, <1>4, <1>5, Zenon
<1>8. a \o b \o c \in H
  BY <1>0, <1>6, <1>7, Zenon
<1>9. QED
  BY <1>2, <1>8, Zenon DEF Keeps, ShownInDedup, ShownInWhole

\* What rake's and rspec's scan carries.
BlocksState(A) == [out : A, in : BOOLEAN, n : Int]

\* Where that scan starts.
LEMMA BlocksStart ==
  ASSUME NEW A, <<>> \in A
  PROVE  [out |-> <<>>, in |-> FALSE, n |-> 0] \in BlocksState(A)
BY DEF BlocksState

\* Its output and its count.
LEMMA BlocksParts ==
  ASSUME NEW A, NEW x \in BlocksState(A)
  PROVE  x.out \in A /\ x.n + 1 \in Int
BY DEF BlocksState

\* The output changed.
LEMMA BlocksOut ==
  ASSUME NEW A, NEW x \in BlocksState(A), NEW B
  PROVE  \A o \in B : [x EXCEPT !.out = o] \in BlocksState(B)
BY DEF BlocksState

\* A block begins.
LEMMA BlocksInN ==
  ASSUME NEW A, NEW x \in BlocksState(A)
  PROVE  \A b \in BOOLEAN : \A k \in Int : [x EXCEPT !.in = b, !.n = k] \in BlocksState(A)
BY DEF BlocksState

\* A block goes on.
LEMMA BlocksNIn ==
  ASSUME NEW A, NEW x \in BlocksState(A)
  PROVE  \A k \in Int : \A b \in BOOLEAN : [x EXCEPT !.n = k, !.in = b] \in BlocksState(A)
BY DEF BlocksState

\* A step of that scan: the lines of last are always added.
LEMMA BlocksStepIn ==
  ASSUME NEW A, NEW B, NEW t, NEW x \in BlocksState(A), NEW i, Adds(A, B, i),
         NEW open, NEW first \in Int, NEW max, NEW last
  PROVE  LET z == BlocksStep(t, open, first, max, last, x, i)
         IN  z \in BlocksState(B) \/ (z \in BlocksState(A) /\ t[i] \notin last)
<1> DEFINE k == t[i]
           o == Append(x.out, Line(i))
           add == [x EXCEPT !.out = o]
           m == add.n + 1
           b == ~(x.n + 1 >= max \/ (k = "" /\ x.n + 1 > 2))
           z1 == [add EXCEPT !.in = TRUE, !.n = first]
           z2 == [add EXCEPT !.n = m, !.in = b]
           z == BlocksStep(t, open, first, max, last, x, i)
<1>1. z = z1 \/ z = z2 \/ z = add \/ (z = x /\ k \notin last)
  BY Zenon DEF BlocksStep
<1>2. o \in B
  BY BlocksParts, Zenon DEF Adds
<1>3. b \in BOOLEAN /\ TRUE \in BOOLEAN
  BY Zenon
<1> HIDE DEF o, b, z
<1>4. add \in BlocksState(B)
  BY <1>2, BlocksOut, Zenon
<1> HIDE DEF add
<1>5. m \in Int
  BY <1>4, BlocksParts, Zenon
<1> HIDE DEF m
<1>6. z1 \in BlocksState(B)
  BY <1>3, <1>4, BlocksInN, Zenon
<1>7. z2 \in BlocksState(B)
  BY <1>3, <1>4, <1>5, BlocksNIn, Zenon
<1> HIDE DEF z1, z2
<1>8. QED
  BY <1>1, <1>4, <1>6, <1>7, Zenon DEF z

\* The step of rake's scan, and what rake must keep.
RakeStep(t, a, i) == BlocksStep(t, "1) Failure:", 0, 12, {"1 runs, 1 failures", "rake aborted!"}, a, i)
RakeFound == {"rake aborted!"}

\* A step of rake's scan.
LEMMA RakeStepIn ==
  ASSUME NEW A, NEW B, NEW t, NEW x \in BlocksState(A), NEW i, Adds(A, B, i)
  PROVE  RakeStep(t, x, i) \in BlocksState(B) \/ (RakeStep(t, x, i) \in BlocksState(A) /\ t[i] \notin RakeFound)
<1> DEFINE last == {"1 runs, 1 failures", "rake aborted!"}
           open == "1) Failure:"
           z == BlocksStep(t, open, 0, 12, last, x, i)
<1>1. RakeStep(t, x, i) = z /\ 0 \in Int
  BY Numbers, Zenon DEF RakeStep
<1>2. \A k : k \in RakeFound => k \in last
  BY Zenon DEF RakeFound
<1> HIDE DEF last, open
<1>3. z \in BlocksState(B) \/ (z \in BlocksState(A) /\ t[i] \notin last)
  BY <1>1, BlocksStepIn, Zenon
<1> HIDE DEF z
<1>4. QED
  BY <1>1, <1>2, <1>3, Zenon

\* The scan keeps what it has, and the lines it keeps.
LEMMA RakeScanIn ==
  ASSUME NEW H, NEW O, NEW Kind, NEW t \in Seq(Kind), NEW N, NEW K, Writes(O, N, t), Follows(H, O, t, K), K \subseteq RakeFound
  PROVE  /\ Scan(LAMBDA a, i : RakeStep(t, a, i), [out |-> <<>>, in |-> FALSE, n |-> 0], t) \in BlocksState(O)
         /\ Has(t, K) => Scan(LAMBDA a, i : RakeStep(t, a, i), [out |-> <<>>, in |-> FALSE, n |-> 0], t) \in BlocksState(H)
<1> DEFINE n == Len(t)
           X == BlocksState(O)
           Y == BlocksState(H)
           Holds(i) == {x \in X : (\E k \in 1..i : t[k] \in K) => x \in Y}
           start == [out |-> <<>>, in |-> FALSE, n |-> 0]
           F == [i \in 1..n |-> [x \in X |-> RakeStep(t, x, i)]]
           I == [i \in 0..n |-> Holds(i)]
           e(f) == [i \in 0..Len(t) |-> IF i = 0 THEN start ELSE RakeStep(t, f[i - 1], i)]
           Q == CHOOSE f : f = e(f)
<1>1. start \in Holds(0)
  <2>1. start \in X
    BY BlocksStart, Zenon DEF Writes, WholeIn
  <2>2. 1..0 = {}
    OBVIOUS
  <2>3. QED
    BY <2>1, <2>2, Zenon
<1>2. ASSUME NEW i \in 1..n, NEW x \in Holds(i - 1)
      PROVE  RakeStep(t, x, i) \in Holds(i)
  <2> DEFINE s == RakeStep(t, x, i)
  <2>1. x \in X /\ i \in DOMAIN t /\ ((\E k \in 1..(i - 1) : t[k] \in K) => x \in Y)
    BY Indices, Zenon
  <2>2. Growing(O, O, t) /\ Growing(H, O, t) /\ Adds(O, O, i) /\ Adds(H, H, i) /\ (t[i] \in K => Adds(O, H, i))
    BY <2>1, AddsIn, Zenon
  <2>3. s \in X
    BY <2>1, <2>2, RakeStepIn, Zenon
  <2>4. x \in Y => s \in Y
    BY <2>1, <2>2, RakeStepIn, Zenon
  <2>5. t[i] \in K => s \in Y
    BY <2>1, <2>2, RakeStepIn, Zenon
  <2> HIDE DEF s, X, Y
  <2>6. \A k \in 1..i : k \in 1..(i - 1) \/ k = i
    BY Indices, LastOrBefore, Zenon
  <2>7. QED
    BY <2>1, <2>3, <2>4, <2>5, <2>6, Zenon DEF s
<1>3. Scan(LAMBDA a, i : RakeStep(t, a, i), [out |-> <<>>, in |-> FALSE, n |-> 0], t) = Q[n]
  BY Zenon DEF Scan
<1>4. n \in Nat /\ \A i \in 1..n : i - 1 \in 0..n /\ i \in 0..n /\ i # 0
  BY Indices
<1>5. \A i \in 0..n : Holds(i) \subseteq X /\ I[i] = Holds(i)
  BY Zenon
<1> HIDE DEF X, Y, Holds, I, n, start
<1>6. \A i \in 1..n : \A x \in I[i - 1] : F[i][x] \in I[i]
  BY <1>2, <1>4, <1>5, Zenon
<1>7. 0 \in 0..n /\ n \in 0..n
  BY <1>4
<1>8. start \in I[0]
  BY <1>1, <1>5, <1>7, Zenon
<1> HIDE DEF F
<1>9. PICK f : Loop(f, start, F, n) /\ \A i \in 0..n : f[i] \in I[i]
  BY <1>4, <1>6, <1>8, LoopStays, Zenon
<1>10. f = e(f)
  <2>1. \A i \in 1..n : F[i][f[i - 1]] = RakeStep(t, f[i - 1], i)
    BY <1>4, <1>5, <1>9, Zenon DEF F
  <2>2. \A i \in 0..n : i # 0 => i \in 1..n
    BY <1>4
  <2>3. f = [i \in 0..n |-> IF i = 0 THEN start ELSE F[i][f[i - 1]]]
    BY <1>9, Zenon DEF Loop
  <2>4. QED
    BY <2>1, <2>2, <2>3, Zenon DEF n
<1>11. Q = e(Q)
  BY <1>10, Zenon
<1> HIDE DEF Q
<1>12. Q[0] \in I[0] /\ \A i \in 1..n : Q[i - 1] \in I[i - 1] => Q[i] \in I[i]
  <2>1. Q[0] = start /\ \A i \in 1..n : Q[i] = RakeStep(t, Q[i - 1], i)
    BY <1>4, <1>7, <1>11, Zenon DEF n
  <2>2. QED
    BY <1>2, <1>4, <1>5, <1>8, <2>1, Zenon
<1>13. Q[n] \in Holds(n)
  <2>1. \A i \in 0..n : Q[i] \in I[i]
    BY <1>4, <1>12, LoopKeeps, Zenon
  <2>2. QED
    BY <1>5, <1>7, <2>1, Zenon
<1>14. Scan(LAMBDA a, i : RakeStep(t, a, i), [out |-> <<>>, in |-> FALSE, n |-> 0], t) \in Holds(n)
  BY <1>3, <1>13, Zenon DEF start
<1>15. QED
  BY <1>4, <1>14, Indices, Zenon DEF Has, Holds, X, Y, n

\* What biome's scan carries.
BiomeState(A) == [out : A, in : BOOLEAN, msg : BOOLEAN]
\* What biome must keep.
BiomeFound == {"Found 1 diagnostics"}

\* Where biome's scan starts.
LEMMA BiomeStart ==
  ASSUME NEW A, <<>> \in A
  PROVE  [out |-> <<>>, in |-> FALSE, msg |-> FALSE] \in BiomeState(A)
BY DEF BiomeState

\* Its output changed.
LEMMA BiomeOut ==
  ASSUME NEW A, NEW x \in BiomeState(A), NEW B
  PROVE  x.out \in A /\ \A o \in B : [x EXCEPT !.out = o] \in BiomeState(B)
BY DEF BiomeState

\* It is in a message, or not.
LEMMA BiomeInMsg ==
  ASSUME NEW A, NEW x \in BiomeState(A)
  PROVE  \A b, c \in BOOLEAN : [x EXCEPT !.in = b, !.msg = c] \in BiomeState(A)
BY DEF BiomeState

\* It has met a message.
LEMMA BiomeMsg ==
  ASSUME NEW A, NEW x \in BiomeState(A)
  PROVE  \A b \in BOOLEAN : [x EXCEPT !.msg = b] \in BiomeState(A)
BY DEF BiomeState

\* A step of biome's scan.
LEMMA BiomeStepIn ==
  ASSUME NEW A, NEW B, NEW t, NEW x \in BiomeState(A), NEW i, Adds(A, B, i)
  PROVE  \/ BiomeStep(t, x, i) \in BiomeState(B)
         \/ BiomeStep(t, x, i) \in BiomeState(A) /\ t[i] \notin BiomeFound
<1> DEFINE k == t[i]
           o == Append(x.out, Line(i))
           add == [x EXCEPT !.out = o]
           z1 == [add EXCEPT !.in = TRUE, !.msg = FALSE]
           z2 == [add EXCEPT !.msg = TRUE]
           z == BiomeStep(t, x, i)
<1>1. z = z1 \/ z = z2 \/ z = add \/ (z = x /\ k \notin BiomeFound)
  <2>1. ASSUME k = "Found 1 diagnostics" PROVE z = add
    BY <2>1, Zenon DEF BiomeStep
  <2>2. ASSUME k = "./x.ts:1 lint/rule" PROVE z = z1
    BY <2>2, Zenon DEF BiomeStep
  <2>3. ASSUME k = "text", ~x.in PROVE z = add
    BY <2>3, Zenon DEF BiomeStep
  <2>4. ASSUME k = "cross message", x.in, ~x.msg PROVE z = z2
    BY <2>4, Zenon DEF BiomeStep
  <2>5. ASSUME k # "Found 1 diagnostics", k # "./x.ts:1 lint/rule", ~(k = "text" /\ ~x.in), ~(k = "cross message" /\ x.in /\ ~x.msg)
        PROVE z = x /\ k \notin BiomeFound
    BY <2>5, Zenon DEF BiomeStep, BiomeFound
  <2> HIDE DEF z, z1, z2, add
  <2>6. QED
    BY <2>1, <2>2, <2>3, <2>4, <2>5, Zenon
<1>2. o \in B /\ TRUE \in BOOLEAN /\ FALSE \in BOOLEAN
  BY BiomeOut, Zenon DEF Adds
<1> HIDE DEF o, z
<1>3. add \in BiomeState(B)
  BY <1>2, BiomeOut, Zenon
<1> HIDE DEF add
<1>4. z1 \in BiomeState(B)
  BY <1>2, <1>3, BiomeInMsg, Zenon
<1>5. z2 \in BiomeState(B)
  BY <1>2, <1>3, BiomeMsg, Zenon
<1> HIDE DEF z1, z2
<1>6. QED
  BY <1>1, <1>3, <1>4, <1>5, Zenon DEF z

\* The scan keeps what it has, and the lines of K.
LEMMA BiomeScanIn ==
  ASSUME NEW H, NEW O, NEW Kind, NEW t \in Seq(Kind), NEW N, NEW K, Writes(O, N, t), Follows(H, O, t, K),
         K \subseteq BiomeFound
  PROVE  /\ Scan(LAMBDA a, i : BiomeStep(t, a, i), [out |-> <<>>, in |-> FALSE, msg |-> FALSE], t) \in BiomeState(O)
         /\ Has(t, K) => Scan(LAMBDA a, i : BiomeStep(t, a, i), [out |-> <<>>, in |-> FALSE, msg |-> FALSE], t) \in BiomeState(H)
<1> DEFINE n == Len(t)
           X == BiomeState(O)
           Y == BiomeState(H)
           Holds(i) == {x \in X : (\E k \in 1..i : t[k] \in K) => x \in Y}
           start == [out |-> <<>>, in |-> FALSE, msg |-> FALSE]
           F == [i \in 1..n |-> [x \in X |-> BiomeStep(t, x, i)]]
           I == [i \in 0..n |-> Holds(i)]
           e(f) == [i \in 0..Len(t) |-> IF i = 0 THEN start ELSE BiomeStep(t, f[i - 1], i)]
           Q == CHOOSE f : f = e(f)
<1>1. start \in Holds(0)
  <2>1. start \in X
    BY BiomeStart, Zenon DEF Writes, WholeIn
  <2>2. 1..0 = {}
    OBVIOUS
  <2>3. QED
    BY <2>1, <2>2, Zenon
<1>2. ASSUME NEW i \in 1..n, NEW x \in Holds(i - 1)
      PROVE  BiomeStep(t, x, i) \in Holds(i)
  <2> DEFINE s == BiomeStep(t, x, i)
  <2>1. x \in X /\ i \in DOMAIN t /\ ((\E k \in 1..(i - 1) : t[k] \in K) => x \in Y)
    BY Indices, Zenon
  <2>2. Growing(O, O, t) /\ Growing(H, O, t) /\ Adds(O, O, i) /\ Adds(H, H, i) /\ (t[i] \in K => Adds(O, H, i))
    BY <2>1, AddsIn, Zenon
  <2>3. s \in X
    BY <2>1, <2>2, BiomeStepIn, Zenon
  <2>4. x \in Y => s \in Y
    BY <2>1, <2>2, BiomeStepIn, Zenon
  <2>5. t[i] \in K => s \in Y
    BY <2>1, <2>2, BiomeStepIn, Zenon
  <2> HIDE DEF s, X, Y
  <2>6. \A k \in 1..i : k \in 1..(i - 1) \/ k = i
    BY Indices, LastOrBefore, Zenon
  <2>7. QED
    BY <2>1, <2>3, <2>4, <2>5, <2>6, Zenon DEF s
<1>3. Scan(LAMBDA a, i : BiomeStep(t, a, i), [out |-> <<>>, in |-> FALSE, msg |-> FALSE], t) = Q[n]
  BY Zenon DEF Scan
<1>4. n \in Nat /\ \A i \in 1..n : i - 1 \in 0..n /\ i \in 0..n /\ i # 0
  BY Indices
<1>5. \A i \in 0..n : Holds(i) \subseteq X /\ I[i] = Holds(i)
  BY Zenon
<1> HIDE DEF X, Y, Holds, I, n, start
<1>6. \A i \in 1..n : \A x \in I[i - 1] : F[i][x] \in I[i]
  BY <1>2, <1>4, <1>5, Zenon
<1>7. 0 \in 0..n /\ n \in 0..n
  BY <1>4
<1>8. start \in I[0]
  BY <1>1, <1>5, <1>7, Zenon
<1> HIDE DEF F
<1>9. PICK f : Loop(f, start, F, n) /\ \A i \in 0..n : f[i] \in I[i]
  BY <1>4, <1>6, <1>8, LoopStays, Zenon
<1>10. f = e(f)
  <2>1. \A i \in 1..n : F[i][f[i - 1]] = BiomeStep(t, f[i - 1], i)
    BY <1>4, <1>5, <1>9, Zenon DEF F
  <2>2. \A i \in 0..n : i # 0 => i \in 1..n
    BY <1>4
  <2>3. f = [i \in 0..n |-> IF i = 0 THEN start ELSE F[i][f[i - 1]]]
    BY <1>9, Zenon DEF Loop
  <2>4. QED
    BY <2>1, <2>2, <2>3, Zenon DEF n
<1>11. Q = e(Q)
  BY <1>10, Zenon
<1> HIDE DEF Q
<1>12. Q[0] \in I[0] /\ \A i \in 1..n : Q[i - 1] \in I[i - 1] => Q[i] \in I[i]
  <2>1. Q[0] = start /\ \A i \in 1..n : Q[i] = BiomeStep(t, Q[i - 1], i)
    BY <1>4, <1>7, <1>11, Zenon DEF n
  <2>2. QED
    BY <1>2, <1>4, <1>5, <1>8, <2>1, Zenon
<1>13. Q[n] \in Holds(n)
  <2>1. \A i \in 0..n : Q[i] \in I[i]
    BY <1>4, <1>12, LoopKeeps, Zenon
  <2>2. QED
    BY <1>5, <1>7, <2>1, Zenon
<1>14. Scan(LAMBDA a, i : BiomeStep(t, a, i), [out |-> <<>>, in |-> FALSE, msg |-> FALSE], t) \in Holds(n)
  BY <1>3, <1>13, Zenon DEF start
<1>15. QED
  BY <1>4, <1>14, Indices, Zenon DEF Has, Holds, X, Y, n

\* What the scan of kubectl describe carries.
DescribeState(A) == [in : BOOLEAN, notes : BOOLEAN, n : Int, out : A]

\* Where it starts.
LEMMA DescribeStart ==
  ASSUME NEW A, <<>> \in A
  PROVE  [in |-> FALSE, notes |-> FALSE, n |-> 0, out |-> <<>>] \in DescribeState(A)
BY DEF DescribeState

\* Its fields.
LEMMA DescribeParts ==
  ASSUME NEW A, NEW x \in DescribeState(A)
  PROVE  x.out \in A /\ x.in \in BOOLEAN /\ x.n + 1 \in Int /\ (x.n < 5 => x.n # 5)
BY DEF DescribeState

\* Notes start.
LEMMA DescribeNotes ==
  ASSUME NEW A, NEW x \in DescribeState(A), NEW B
  PROVE  \A o \in B : \A b \in BOOLEAN : \A k \in Int : [x EXCEPT !.out = o, !.notes = b, !.n = k] \in DescribeState(B)
BY DEF DescribeState

\* A note more.
LEMMA DescribeNote ==
  ASSUME NEW A, NEW x \in DescribeState(A), NEW B
  PROVE  \A k \in Int : \A o \in B : [x EXCEPT !.n = k, !.out = o] \in DescribeState(B)
BY DEF DescribeState

\* Another line.
LEMMA DescribeIn ==
  ASSUME NEW A, NEW x \in DescribeState(A), NEW B
  PROVE  \A o \in B : \A b, c \in BOOLEAN : [x EXCEPT !.notes = b, !.in = c, !.out = o] \in DescribeState(B)
BY DEF DescribeState

\* A step of the scan of kubectl describe.
LEMMA DescribeStepIn ==
  ASSUME NEW A, NEW B, NEW O, NEW N, NEW t, Writes(O, N, t), Growing(A, O, t), {"annotations"} \subseteq N,
         NEW x \in DescribeState(A), NEW i \in DOMAIN t, Adds(A, B, i)
  PROVE  \/ DescribeStep(t, x, i) \in DescribeState(B)
         \/ DescribeStep(t, x, i) \in DescribeState(A) /\ t[i] \notin {"Events:"}
<1> DEFINE k == t[i]
           o == Append(x.out, Line(i))
           in == \/ k \in {"Name:", "Status:", "Events:"}
                 \/ x.in /\ k \in {"", " indented"}
           m == x.n + 1
           u == x.out \o Note("annotations", 6)
           p == CASE x.n < 5 -> o
                  [] x.n = 5 -> u
                  [] OTHER -> x.out
           q == IF in THEN o ELSE x.out
           z1 == [x EXCEPT !.out = o, !.notes = TRUE, !.n = 0]
           z2 == [x EXCEPT !.n = m, !.out = p]
           z3 == [x EXCEPT !.notes = FALSE, !.in = in, !.out = q]
           z == DescribeStep(t, x, i)
<1>1. z = z1 \/ (z = z2 /\ k \notin {"Events:"}) \/ z = z3
  <2>1. ASSUME k \in {"Annotations:", "Labels:"} PROVE z = z1
    BY <2>1, Zenon DEF DescribeStep
  <2>2. ASSUME k \notin {"Annotations:", "Labels:"}, x.notes, k = " indented" PROVE z = z2
    BY <2>2, Zenon DEF DescribeStep
  <2>3. ASSUME k \notin {"Annotations:", "Labels:"}, ~(x.notes /\ k = " indented") PROVE z = z3
    BY <2>3, Zenon DEF DescribeStep
  <2>4. k = " indented" => k \notin {"Events:"}
    BY Zenon
  <2> HIDE DEF z, z1, z2, z3
  <2>5. QED
    BY <2>1, <2>2, <2>3, <2>4, Zenon
<1>2. o \in B /\ TRUE \in BOOLEAN /\ FALSE \in BOOLEAN /\ x.out \in A /\ m \in Int /\ 0 \in Int
  BY DescribeParts, Numbers, Zenon DEF Adds
<1>3. u \in A
  <2>1. 6 \in Int
    OBVIOUS
  <2>2. Note("annotations", 6) \in O
    BY <2>1, Noted, Zenon
  <2>3. QED
    BY <1>2, <2>2, Zenon DEF Growing
<1>4. k \in {"Events:"} => in
  BY Zenon
<1>5. in \in BOOLEAN
  BY Zenon
<1> HIDE DEF o, u, in, m, z
<1>6. p = o \/ p = u \/ p = x.out
  BY DescribeParts, Zenon
<1>7. q = o \/ (q = x.out /\ k \notin {"Events:"})
  BY <1>4, Zenon
<1> HIDE DEF p, q
<1>8. z1 \in DescribeState(B)
  BY <1>2, DescribeNotes, Zenon
<1>9. z2 \in DescribeState(B) \/ z2 \in DescribeState(A)
  BY <1>2, <1>3, <1>6, DescribeNote, Zenon
<1>10. z3 \in DescribeState(B) \/ (z3 \in DescribeState(A) /\ k \notin {"Events:"})
  BY <1>2, <1>5, <1>7, DescribeIn, Zenon
<1> HIDE DEF z1, z2, z3
<1>11. QED
  BY <1>1, <1>8, <1>9, <1>10, Zenon DEF z

\* The scan keeps what it has, and the lines of K.
LEMMA DescribeScanIn ==
  ASSUME NEW H, NEW O, NEW Kind, NEW t \in Seq(Kind), NEW N, NEW K, Writes(O, N, t), Follows(H, O, t, K),
         {"annotations"} \subseteq N, K \subseteq {"Events:"}
  PROVE  /\ Scan(LAMBDA a, i : DescribeStep(t, a, i), [in |-> FALSE, notes |-> FALSE, n |-> 0, out |-> <<>>], t) \in DescribeState(O)
         /\ Has(t, K) => Scan(LAMBDA a, i : DescribeStep(t, a, i), [in |-> FALSE, notes |-> FALSE, n |-> 0, out |-> <<>>], t) \in DescribeState(H)
<1> DEFINE n == Len(t)
           X == DescribeState(O)
           Y == DescribeState(H)
           Holds(i) == {x \in X : (\E k \in 1..i : t[k] \in K) => x \in Y}
           start == [in |-> FALSE, notes |-> FALSE, n |-> 0, out |-> <<>>]
           F == [i \in 1..n |-> [x \in X |-> DescribeStep(t, x, i)]]
           I == [i \in 0..n |-> Holds(i)]
           e(f) == [i \in 0..Len(t) |-> IF i = 0 THEN start ELSE DescribeStep(t, f[i - 1], i)]
           Q == CHOOSE f : f = e(f)
<1>1. start \in Holds(0)
  <2>1. start \in X
    BY DescribeStart, Zenon DEF Writes, WholeIn
  <2>2. 1..0 = {}
    OBVIOUS
  <2>3. QED
    BY <2>1, <2>2, Zenon
<1>2. ASSUME NEW i \in 1..n, NEW x \in Holds(i - 1)
      PROVE  DescribeStep(t, x, i) \in Holds(i)
  <2> DEFINE s == DescribeStep(t, x, i)
  <2>1. x \in X /\ i \in DOMAIN t /\ ((\E k \in 1..(i - 1) : t[k] \in K) => x \in Y)
    BY Indices, Zenon
  <2>2. Growing(O, O, t) /\ Growing(H, O, t) /\ Adds(O, O, i) /\ Adds(H, H, i) /\ (t[i] \in K => Adds(O, H, i))
    BY <2>1, AddsIn, Zenon
  <2>3. s \in X
    BY <2>1, <2>2, DescribeStepIn, Zenon
  <2>4. x \in Y => s \in Y
    BY <2>1, <2>2, DescribeStepIn, Zenon
  <2>5. t[i] \in K => s \in Y
    BY <2>1, <2>2, DescribeStepIn, Zenon
  <2> HIDE DEF s, X, Y
  <2>6. \A k \in 1..i : k \in 1..(i - 1) \/ k = i
    BY Indices, LastOrBefore, Zenon
  <2>7. QED
    BY <2>1, <2>3, <2>4, <2>5, <2>6, Zenon DEF s
<1>3. Scan(LAMBDA a, i : DescribeStep(t, a, i), [in |-> FALSE, notes |-> FALSE, n |-> 0, out |-> <<>>], t) = Q[n]
  BY Zenon DEF Scan
<1>4. n \in Nat /\ \A i \in 1..n : i - 1 \in 0..n /\ i \in 0..n /\ i # 0
  BY Indices
<1>5. \A i \in 0..n : Holds(i) \subseteq X /\ I[i] = Holds(i)
  BY Zenon
<1> HIDE DEF X, Y, Holds, I, n, start
<1>6. \A i \in 1..n : \A x \in I[i - 1] : F[i][x] \in I[i]
  BY <1>2, <1>4, <1>5, Zenon
<1>7. 0 \in 0..n /\ n \in 0..n
  BY <1>4
<1>8. start \in I[0]
  BY <1>1, <1>5, <1>7, Zenon
<1> HIDE DEF F
<1>9. PICK f : Loop(f, start, F, n) /\ \A i \in 0..n : f[i] \in I[i]
  BY <1>4, <1>6, <1>8, LoopStays, Zenon
<1>10. f = e(f)
  <2>1. \A i \in 1..n : F[i][f[i - 1]] = DescribeStep(t, f[i - 1], i)
    BY <1>4, <1>5, <1>9, Zenon DEF F
  <2>2. \A i \in 0..n : i # 0 => i \in 1..n
    BY <1>4
  <2>3. f = [i \in 0..n |-> IF i = 0 THEN start ELSE F[i][f[i - 1]]]
    BY <1>9, Zenon DEF Loop
  <2>4. QED
    BY <2>1, <2>2, <2>3, Zenon DEF n
<1>11. Q = e(Q)
  BY <1>10, Zenon
<1> HIDE DEF Q
<1>12. Q[0] \in I[0] /\ \A i \in 1..n : Q[i - 1] \in I[i - 1] => Q[i] \in I[i]
  <2>1. Q[0] = start /\ \A i \in 1..n : Q[i] = DescribeStep(t, Q[i - 1], i)
    BY <1>4, <1>7, <1>11, Zenon DEF n
  <2>2. QED
    BY <1>2, <1>4, <1>5, <1>8, <2>1, Zenon
<1>13. Q[n] \in Holds(n)
  <2>1. \A i \in 0..n : Q[i] \in I[i]
    BY <1>4, <1>12, LoopKeeps, Zenon
  <2>2. QED
    BY <1>5, <1>7, <2>1, Zenon
<1>14. Scan(LAMBDA a, i : DescribeStep(t, a, i), [in |-> FALSE, notes |-> FALSE, n |-> 0, out |-> <<>>], t) \in Holds(n)
  BY <1>3, <1>13, Zenon DEF start
<1>15. QED
  BY <1>4, <1>14, Indices, Zenon DEF Has, Holds, X, Y, n

\* What the scan of gh pr view carries.
PrViewState(A) == [body : BOOLEAN, n : Int, blanks : Int, out : A]

\* Where it starts.
LEMMA PrViewStart ==
  ASSUME NEW A, <<>> \in A
  PROVE  [body |-> FALSE, n |-> 0, blanks |-> 0, out |-> <<>>] \in PrViewState(A)
BY DEF PrViewState

\* Its fields.
LEMMA PrViewParts ==
  ASSUME NEW A, NEW x \in PrViewState(A)
  PROVE  x.out \in A /\ x.n + 1 \in Int /\ x.blanks + 1 \in Int
BY DEF PrViewState

\* Its output changed.
LEMMA PrViewOut ==
  ASSUME NEW A, NEW x \in PrViewState(A), NEW B
  PROVE  \A o \in B : [x EXCEPT !.out = o] \in PrViewState(B)
BY DEF PrViewState

\* The body starts.
LEMMA PrViewBody ==
  ASSUME NEW A, NEW x \in PrViewState(A)
  PROVE  \A b \in BOOLEAN : [x EXCEPT !.body = b] \in PrViewState(A)
BY DEF PrViewState

\* A blank line.
LEMMA PrViewBlanks ==
  ASSUME NEW A, NEW x \in PrViewState(A)
  PROVE  \A k \in Int : [x EXCEPT !.blanks = k] \in PrViewState(A)
BY DEF PrViewState

\* A line of the body.
LEMMA PrViewLine ==
  ASSUME NEW A, NEW x \in PrViewState(A), NEW B
  PROVE  \A k, l \in Int : \A o \in B : [x EXCEPT !.blanks = k, !.n = l, !.out = o] \in PrViewState(B)
BY DEF PrViewState

\* A step of the scan of gh pr view.
LEMMA PrViewStepIn ==
  ASSUME NEW A, NEW B, NEW t, NEW x \in PrViewState(A), NEW i, Adds(A, B, i)
  PROVE  \/ GhPrViewStep(t, x, i) \in PrViewState(B)
         \/ GhPrViewStep(t, x, i) \in PrViewState(A) /\ t[i] \notin {"title:"}
<1> DEFINE k == t[i]
           o == Append(x.out, Line(i))
           l == IF k = "" THEN x.blanks + 1 ELSE 0
           m == x.n + 1
           z1 == [x EXCEPT !.out = o]
           z2 == [x EXCEPT !.body = TRUE]
           z3 == [x EXCEPT !.blanks = l]
           z4 == [x EXCEPT !.blanks = l, !.n = m, !.out = o]
           z == GhPrViewStep(t, x, i)
<1>1. z = z1 \/ z = z4 \/ ((z = z2 \/ z = z3 \/ z = x) /\ k \notin {"title:"})
  BY Zenon DEF GhPrViewStep
<1>2. o \in B /\ TRUE \in BOOLEAN /\ l \in Int /\ m \in Int
  BY PrViewParts, Numbers, Zenon DEF Adds
<1> HIDE DEF o, l, m, z
<1>3. z1 \in PrViewState(B)
  BY <1>2, PrViewOut, Zenon
<1>4. z2 \in PrViewState(A)
  BY <1>2, PrViewBody, Zenon
<1>5. z3 \in PrViewState(A)
  BY <1>2, PrViewBlanks, Zenon
<1>6. z4 \in PrViewState(B)
  BY <1>2, PrViewLine, Zenon
<1> HIDE DEF z1, z2, z3, z4
<1>7. QED
  BY <1>1, <1>3, <1>4, <1>5, <1>6, Zenon DEF z

\* The scan keeps what it has, and the lines of K.
LEMMA PrViewScanIn ==
  ASSUME NEW H, NEW O, NEW Kind, NEW t \in Seq(Kind), NEW N, NEW K, Writes(O, N, t), Follows(H, O, t, K),
         K \subseteq {"title:"}
  PROVE  /\ Scan(LAMBDA a, i : GhPrViewStep(t, a, i), [body |-> FALSE, n |-> 0, blanks |-> 0, out |-> <<>>], t) \in PrViewState(O)
         /\ Has(t, K) => Scan(LAMBDA a, i : GhPrViewStep(t, a, i), [body |-> FALSE, n |-> 0, blanks |-> 0, out |-> <<>>], t) \in PrViewState(H)
<1> DEFINE n == Len(t)
           X == PrViewState(O)
           Y == PrViewState(H)
           Holds(i) == {x \in X : (\E k \in 1..i : t[k] \in K) => x \in Y}
           start == [body |-> FALSE, n |-> 0, blanks |-> 0, out |-> <<>>]
           F == [i \in 1..n |-> [x \in X |-> GhPrViewStep(t, x, i)]]
           I == [i \in 0..n |-> Holds(i)]
           e(f) == [i \in 0..Len(t) |-> IF i = 0 THEN start ELSE GhPrViewStep(t, f[i - 1], i)]
           Q == CHOOSE f : f = e(f)
<1>1. start \in Holds(0)
  <2>1. start \in X
    BY PrViewStart, Zenon DEF Writes, WholeIn
  <2>2. 1..0 = {}
    OBVIOUS
  <2>3. QED
    BY <2>1, <2>2, Zenon
<1>2. ASSUME NEW i \in 1..n, NEW x \in Holds(i - 1)
      PROVE  GhPrViewStep(t, x, i) \in Holds(i)
  <2> DEFINE s == GhPrViewStep(t, x, i)
  <2>1. x \in X /\ i \in DOMAIN t /\ ((\E k \in 1..(i - 1) : t[k] \in K) => x \in Y)
    BY Indices, Zenon
  <2>2. Growing(O, O, t) /\ Growing(H, O, t) /\ Adds(O, O, i) /\ Adds(H, H, i) /\ (t[i] \in K => Adds(O, H, i))
    BY <2>1, AddsIn, Zenon
  <2>3. s \in X
    BY <2>1, <2>2, PrViewStepIn, Zenon
  <2>4. x \in Y => s \in Y
    BY <2>1, <2>2, PrViewStepIn, Zenon
  <2>5. t[i] \in K => s \in Y
    BY <2>1, <2>2, PrViewStepIn, Zenon
  <2> HIDE DEF s, X, Y
  <2>6. \A k \in 1..i : k \in 1..(i - 1) \/ k = i
    BY Indices, LastOrBefore, Zenon
  <2>7. QED
    BY <2>1, <2>3, <2>4, <2>5, <2>6, Zenon DEF s
<1>3. Scan(LAMBDA a, i : GhPrViewStep(t, a, i), [body |-> FALSE, n |-> 0, blanks |-> 0, out |-> <<>>], t) = Q[n]
  BY Zenon DEF Scan
<1>4. n \in Nat /\ \A i \in 1..n : i - 1 \in 0..n /\ i \in 0..n /\ i # 0
  BY Indices
<1>5. \A i \in 0..n : Holds(i) \subseteq X /\ I[i] = Holds(i)
  BY Zenon
<1> HIDE DEF X, Y, Holds, I, n, start
<1>6. \A i \in 1..n : \A x \in I[i - 1] : F[i][x] \in I[i]
  BY <1>2, <1>4, <1>5, Zenon
<1>7. 0 \in 0..n /\ n \in 0..n
  BY <1>4
<1>8. start \in I[0]
  BY <1>1, <1>5, <1>7, Zenon
<1> HIDE DEF F
<1>9. PICK f : Loop(f, start, F, n) /\ \A i \in 0..n : f[i] \in I[i]
  BY <1>4, <1>6, <1>8, LoopStays, Zenon
<1>10. f = e(f)
  <2>1. \A i \in 1..n : F[i][f[i - 1]] = GhPrViewStep(t, f[i - 1], i)
    BY <1>4, <1>5, <1>9, Zenon DEF F
  <2>2. \A i \in 0..n : i # 0 => i \in 1..n
    BY <1>4
  <2>3. f = [i \in 0..n |-> IF i = 0 THEN start ELSE F[i][f[i - 1]]]
    BY <1>9, Zenon DEF Loop
  <2>4. QED
    BY <2>1, <2>2, <2>3, Zenon DEF n
<1>11. Q = e(Q)
  BY <1>10, Zenon
<1> HIDE DEF Q
<1>12. Q[0] \in I[0] /\ \A i \in 1..n : Q[i - 1] \in I[i - 1] => Q[i] \in I[i]
  <2>1. Q[0] = start /\ \A i \in 1..n : Q[i] = GhPrViewStep(t, Q[i - 1], i)
    BY <1>4, <1>7, <1>11, Zenon DEF n
  <2>2. QED
    BY <1>2, <1>4, <1>5, <1>8, <2>1, Zenon
<1>13. Q[n] \in Holds(n)
  <2>1. \A i \in 0..n : Q[i] \in I[i]
    BY <1>4, <1>12, LoopKeeps, Zenon
  <2>2. QED
    BY <1>5, <1>7, <2>1, Zenon
<1>14. Scan(LAMBDA a, i : GhPrViewStep(t, a, i), [body |-> FALSE, n |-> 0, blanks |-> 0, out |-> <<>>], t) \in Holds(n)
  BY <1>3, <1>13, Zenon DEF start
<1>15. QED
  BY <1>4, <1>14, Indices, Zenon DEF Has, Holds, X, Y, n

\* The filter of eslint leaves the number of problems.
LEMMA EslintKeeps ==
  ASSUME NEW H, NEW O, NEW Kind, NEW t \in Seq(Kind), NEW N, {"more errors"} \subseteq N, Writes(O, N, t), Keeps(H, O, t, {"2 problems"}),
         Has(t, {"2 problems"})
  PROVE  Eslint(t) \in H
<1> DEFINE a == Scan(LAMBDA a, i : EslintStep(t, a, i), [out |-> <<>>, file |-> <<>>, lines |-> <<>>, total |-> 0], t)
           z == EslintFlush(a)
           m == IF z.total > 30 THEN Note("more errors", z.total - 20) ELSE <<>>
<1>0. /\ \A x \in H : x \in O /\ x # <<>>
      /\ \A x \in H : \A y \in O : x \o y \in H /\ y \o x \in H
  BY Zenon DEF Keeps, ShownInOutput, ShownInJoin
<1>1. Follows(H, O, t, EslintFound) /\ Growing(H, O, t) /\ Has(t, EslintFound)
  BY FollowsKept, AllGrow, Zenon DEF EslintFound
<1>2. a \in LintState(H, Rows(t))
  BY <1>1, EslintScanIn, Zenon
<1>3. ~ \A i \in DOMAIN t : t[i] \in {"", "0 problems"}
  BY Zenon DEF Has
<1>4. Eslint(t) = OrWhole(z.out \o m, t)
  BY <1>3, Zenon DEF Eslint
<1> HIDE DEF a
<1>5. z \in LintState(H, Rows(t))
  BY <1>1, <1>2, EslintFlushIn, Zenon
<1> HIDE DEF z
<1>6. z.out \in H /\ z.total - 20 \in Int
  BY <1>5, LintParts, Zenon
<1>7. m \in O
  BY <1>6, Zenon DEF Writes, NoteIn, WholeIn
<1> HIDE DEF m
<1>8. QED
  BY <1>0, <1>4, <1>6, <1>7, Zenon DEF Keeps, ShownInWhole

\* The filter of biome leaves the number of diagnostics.
LEMMA BiomeKeeps ==
  ASSUME NEW H, NEW O, NEW Kind, NEW t \in Seq(Kind), NEW N, Writes(O, N, t), Keeps(H, O, t, {"Found 1 diagnostics"}),
         Has(t, {"Found 1 diagnostics"})
  PROVE  Biome(t) \in H
<1> DEFINE z == Scan(LAMBDA a, i : BiomeStep(t, a, i), [out |-> <<>>, in |-> FALSE, msg |-> FALSE], t)
<1>1. Follows(H, O, t, BiomeFound) /\ Has(t, BiomeFound)
  BY FollowsKept, Zenon DEF BiomeFound
<1>2. z \in BiomeState(H)
  BY <1>1, BiomeScanIn, Zenon
<1>3. Biome(t) = OrWhole(z.out, t)
  BY Zenon DEF Biome
<1> HIDE DEF z
<1>4. QED
  BY <1>2, <1>3, BiomeOut, Zenon DEF Keeps, ShownInWhole

\* The filter of kubectl describe leaves the events.
LEMMA KubectlDescribeKeeps ==
  ASSUME NEW H, NEW O, NEW Kind, NEW t \in Seq(Kind), NEW N, {"annotations"} \subseteq N, Writes(O, N, t), Keeps(H, O, t, {"Events:"}),
         Has(t, {"Events:"})
  PROVE  KubectlDescribe(t) \in H
<1> DEFINE z == Scan(LAMBDA a, i : DescribeStep(t, a, i), [in |-> FALSE, notes |-> FALSE, n |-> 0, out |-> <<>>], t)
<1>1. Follows(H, O, t, {"Events:"})
  BY FollowsKept, Zenon
<1>2. z \in DescribeState(H)
  BY <1>1, DescribeScanIn, Zenon
<1>3. KubectlDescribe(t) = OrWhole(z.out, t)
  BY Zenon DEF KubectlDescribe
<1> HIDE DEF z
<1>4. QED
  BY <1>2, <1>3, DescribeParts, Zenon DEF Keeps, ShownInWhole

\* The filter of gh pr view leaves the title.
LEMMA GhPrViewKeeps ==
  ASSUME NEW H, NEW O, NEW Kind, NEW t \in Seq(Kind), NEW N, Writes(O, N, t), Keeps(H, O, t, {"title:"}),
         Has(t, {"title:"})
  PROVE  GhPrView(t) \in H
<1> DEFINE z == Scan(LAMBDA a, i : GhPrViewStep(t, a, i), [body |-> FALSE, n |-> 0, blanks |-> 0, out |-> <<>>], t)
<1>1. Follows(H, O, t, {"title:"})
  BY FollowsKept, Zenon
<1>2. z \in PrViewState(H)
  BY <1>1, PrViewScanIn, Zenon
<1>3. GhPrView(t) = OrWhole(z.out, t)
  BY Zenon DEF GhPrView
<1> HIDE DEF z
<1>4. QED
  BY <1>2, <1>3, PrViewParts, Zenon DEF Keeps, ShownInWhole

\* The filter of rake leaves the abort.
LEMMA RakeKeeps ==
  ASSUME NEW H, NEW O, NEW Kind, NEW t \in Seq(Kind), NEW N, Writes(O, N, t), Keeps(H, O, t, {"rake aborted!"}),
         Has(t, {"rake aborted!"})
  PROVE  Rake(t) \in H
<1> DEFINE z == Scan(LAMBDA a, i : RakeStep(t, a, i), [out |-> <<>>, in |-> FALSE, n |-> 0], t)
<1>1. Follows(H, O, t, RakeFound) /\ Has(t, RakeFound)
  BY FollowsKept, Zenon DEF RakeFound
<1>2. Rake(t) = OrWhole(z.out, t)
  BY Zenon DEF Rake, CountedBlocks, RakeStep
<1>3. z \in BlocksState(H)
  BY <1>1, RakeScanIn, Zenon
<1> HIDE DEF z
<1>4. QED
  BY <1>2, <1>3, BlocksParts, Zenon DEF Keeps, ShownInWhole

\* What npm test's scan carries is like bazel's.
\* A step of npm test's scan.
LEMMA NpmTestStepIn ==
  ASSUME NEW O, NEW N, NEW t, Writes(O, N, t), NEW x \in BazelState(O), NEW i \in DOMAIN t
  PROVE  NpmTestStep(t, x, i) \in BazelState(O)
<1> DEFINE in == x.in \/ t[i] = "bullet"
           b == in /\ t[i] # ""
           e == <<Line(i)>>
           p == IF t[i] \in {"x test", "FAIL"} THEN e ELSE <<>>
           q == IF in THEN e ELSE <<>>
           o == x.out \o p \o q
<1>1. x.out \in O
  BY BazelParts, Zenon
<1>2. e \in O /\ <<>> \in O
  BY Zenon DEF Writes, LinesIn, WholeIn
<1> HIDE DEF e
<1>3. p \in O /\ q \in O
  BY <1>2, Zenon
<1>4. b \in BOOLEAN
  BY Zenon
<1>5. NpmTestStep(t, x, i) = [in |-> b, out |-> o]
  BY Zenon DEF NpmTestStep, e
<1> HIDE DEF p, q, b, in
<1>6. x.out \o p \in O
  BY <1>1, <1>3, Zenon DEF Writes, JoinIn
<1>7. o \in O
  BY <1>3, <1>6, Zenon DEF Writes, JoinIn
<1> HIDE DEF o
<1>8. QED
  BY <1>4, <1>5, <1>7, BazelNew, Zenon

\* All of npm test's scan.
LEMMA NpmTestScanIn ==
  ASSUME NEW Kind, NEW t \in Seq(Kind), NEW O, NEW N, Writes(O, N, t)
  PROVE  Scan(LAMBDA a, i : NpmTestStep(t, a, i), [in |-> FALSE, out |-> <<>>], t) \in BazelState(O)
<1> DEFINE n == Len(t)
           X == BazelState(O)
           start == [in |-> FALSE, out |-> <<>>]
           F == [i \in 1..n |-> [x \in X |-> NpmTestStep(t, x, i)]]
           I == [i \in 0..n |-> X]
           e(f) == [i \in 0..Len(t) |-> IF i = 0 THEN start ELSE NpmTestStep(t, f[i - 1], i)]
           Q == CHOOSE f : f = e(f)
<1>1. start \in X
  BY BazelStart, Zenon DEF Writes, WholeIn
<1>2. ASSUME NEW i \in 1..n, NEW x \in X
      PROVE  NpmTestStep(t, x, i) \in X
  <2>1. i \in DOMAIN t /\ DOMAIN t = 1..Len(t)
    BY Indices, Zenon
  <2>2. QED
    BY <2>1, NpmTestStepIn, Zenon
<1>3. Scan(LAMBDA a, i : NpmTestStep(t, a, i), [in |-> FALSE, out |-> <<>>], t) = Q[n]
  BY Zenon DEF Scan
<1>4. n \in Nat /\ \A i \in 1..n : i - 1 \in 0..n /\ i \in 0..n /\ i # 0
  BY Indices
<1>5. \A i \in 0..n : I[i] = X
  BY Zenon
<1> HIDE DEF X, I, n, start
<1>6. \A i \in 1..n : \A x \in I[i - 1] : F[i][x] \in I[i]
  BY <1>2, <1>4, <1>5, Zenon
<1>7. 0 \in 0..n /\ n \in 0..n
  BY <1>4
<1>8. start \in I[0]
  BY <1>1, <1>5, <1>7, Zenon
<1> HIDE DEF F
<1>9. PICK f : Loop(f, start, F, n) /\ \A i \in 0..n : f[i] \in I[i]
  BY <1>4, <1>6, <1>8, LoopStays, Zenon
<1>10. f = e(f)
  <2>1. \A i \in 1..n : F[i][f[i - 1]] = NpmTestStep(t, f[i - 1], i)
    BY <1>4, <1>5, <1>9, Zenon DEF F
  <2>2. \A i \in 0..n : i # 0 => i \in 1..n
    BY <1>4
  <2>3. f = [i \in 0..n |-> IF i = 0 THEN start ELSE F[i][f[i - 1]]]
    BY <1>9, Zenon DEF Loop
  <2>4. QED
    BY <2>1, <2>2, <2>3, Zenon DEF n
<1>11. Q = e(Q)
  BY <1>10, Zenon
<1> HIDE DEF Q
<1>12. Q[0] \in I[0] /\ \A i \in 1..n : Q[i - 1] \in I[i - 1] => Q[i] \in I[i]
  <2>1. Q[0] = start /\ \A i \in 1..n : Q[i] = NpmTestStep(t, Q[i - 1], i)
    BY <1>4, <1>7, <1>11, Zenon DEF n
  <2>2. QED
    BY <1>2, <1>4, <1>5, <1>8, <2>1, Zenon
<1>13. Q[n] \in X
  <2>1. \A i \in 0..n : Q[i] \in I[i]
    BY <1>4, <1>12, LoopKeeps, Zenon
  <2>2. QED
    BY <1>5, <1>7, <2>1, Zenon
<1>14. QED
  BY <1>3, <1>13, Zenon DEF start, X

\* The filter of npm test leaves a summary.
LEMMA NpmTestKeeps ==
  ASSUME NEW H, NEW O, NEW Kind, NEW t \in Seq(Kind), NEW N, Writes(O, N, t),
         Keeps(H, O, t, {"1 failing", "1 passed", "1 failed"}), Has(t, {"1 failing", "1 passed", "1 failed"})
  PROVE  NpmTest(t) \in H
<1> DEFINE K == {"1 failing", "1 passed", "1 failed"}
           z == Scan(LAMBDA a, i : NpmTestStep(t, a, i), [in |-> FALSE, out |-> <<>>], t)
           s == At(t, K)
           a == Lines(s)
           b == Lines(Final(s, 1))
<1>0. /\ \A x \in H : x \in O /\ x # <<>>
      /\ \A x \in H : \A y \in O : x \o y \in H /\ y \o x \in H
  BY Zenon DEF Keeps, ShownInOutput, ShownInJoin
<1>1. z \in BazelState(O)
  BY NpmTestScanIn, Zenon
<1>2. NpmTest(t) = IF z.out = <<>> /\ s # <<>> THEN a ELSE OrWhole(z.out \o b, t)
  BY Zenon DEF NpmTest
<1> HIDE DEF z
<1>3. z.out \in O
  BY <1>1, BazelParts, Zenon
<1>4. a \in H
  BY Zenon DEF Keeps, ShownInAt
<1>5. b \in H
  BY CutsAt, Zenon DEF Keeps, ShownInCut
<1> HIDE DEF a, b, s
<1>6. z.out \o b \in H
  BY <1>0, <1>3, <1>5, Zenon
<1>7. QED
  BY <1>2, <1>4, <1>6, Zenon DEF Keeps, ShownInWhole

\* What webpack's scan carries.
PackState(R) == [mode : {"", "e", "w"}, eb : R, wb : R, errs : R, warns : R, assets : R]

\* Where webpack's scan starts.
LEMMA PackStart ==
  ASSUME NEW R, <<>> \in R
  PROVE  [mode |-> "", eb |-> <<>>, wb |-> <<>>, errs |-> <<>>, warns |-> <<>>, assets |-> <<>>] \in PackState(R)
BY DEF PackState

\* The lines it holds.
LEMMA PackParts ==
  ASSUME NEW R, NEW x \in PackState(R)
  PROVE  x.eb \in R /\ x.wb \in R /\ x.errs \in R /\ x.warns \in R /\ x.assets \in R
BY DEF PackState
PackModes == {"", "e", "w"}

\* Its mode changed.
LEMMA PackMode ==
  ASSUME NEW R, NEW x \in PackState(R)
  PROVE  \A m \in PackModes : [x EXCEPT !.mode = m] \in PackState(R)
BY DEF PackState, PackModes

\* An error begins.
LEMMA PackErr ==
  ASSUME NEW R, NEW x \in PackState(R)
  PROVE  \A m \in PackModes : \A p, q, r \in R : [x EXCEPT !.mode = m, !.eb = p, !.warns = q, !.wb = r] \in PackState(R)
BY DEF PackState, PackModes

\* A warning begins.
LEMMA PackWarn ==
  ASSUME NEW R, NEW x \in PackState(R)
  PROVE  \A m \in PackModes : \A p, q, r \in R : [x EXCEPT !.mode = m, !.wb = p, !.errs = q, !.eb = r] \in PackState(R)
BY DEF PackState, PackModes

\* A blank line ends what is open.
LEMMA PackBlank ==
  ASSUME NEW R, NEW x \in PackState(R)
  PROVE  \A m \in PackModes : \A p, q, r, s \in R :
           [x EXCEPT !.errs = p, !.eb = q, !.warns = r, !.wb = s, !.mode = m] \in PackState(R)
BY DEF PackState, PackModes

\* A line of an error.
LEMMA PackEb ==
  ASSUME NEW R, NEW x \in PackState(R)
  PROVE  \A p \in R : [x EXCEPT !.eb = p] \in PackState(R)
BY DEF PackState

\* A line of a warning.
LEMMA PackWb ==
  ASSUME NEW R, NEW x \in PackState(R)
  PROVE  \A p \in R : [x EXCEPT !.wb = p] \in PackState(R)
BY DEF PackState

\* An asset.
LEMMA PackAssets ==
  ASSUME NEW R, NEW x \in PackState(R)
  PROVE  \A p \in R : [x EXCEPT !.assets = p] \in PackState(R)
BY DEF PackState

\* A step of webpack's scan.
LEMMA WebpackStepIn ==
  ASSUME NEW O, NEW N, NEW t, Writes(O, N, t), NEW x \in PackState(Rows(t)), NEW i \in DOMAIN t, DOMAIN t = 1..Len(t)
  PROVE  WebpackStep(t, x, i) \in PackState(Rows(t))
<1> DEFINE X == PackState(Rows(t))
           k == t[i]
           e == <<>>
           m == ""
           me == "e"
           mw == "w"
           eb1 == Append(x.eb, i)
           wb1 == Append(x.wb, i)
           as1 == Append(x.assets, i)
           we == x.warns \o x.wb
           er == x.errs \o x.eb
           p == IF x.mode = "e" THEN er ELSE x.errs
           q == IF x.mode = "e" THEN <<>> ELSE x.eb
           r == IF x.mode = "w" THEN we ELSE x.warns
           s == IF x.mode = "w" THEN <<>> ELSE x.wb
           z1 == [x EXCEPT !.mode = m]
           z2 == [x EXCEPT !.mode = me, !.eb = eb1, !.warns = we, !.wb = e]
           z3 == [x EXCEPT !.mode = mw, !.wb = wb1, !.errs = er, !.eb = e]
           z4 == [x EXCEPT !.errs = p, !.eb = q, !.warns = r, !.wb = s, !.mode = m]
           z5 == [x EXCEPT !.eb = eb1]
           z6 == [x EXCEPT !.wb = wb1]
           z7 == [x EXCEPT !.assets = as1]
           z == WebpackStep(t, x, i)
<1>1. z = z1 \/ z = z2 \/ z = z3 \/ z = z4 \/ z = z5 \/ z = z6 \/ z = z7 \/ z = x
  <2>1. CASE k = "webpack compiled"
    BY <2>1, Zenon DEF WebpackStep
  <2>2. CASE k = "ERROR in"
    BY <2>2, Zenon DEF WebpackStep
  <2>3. CASE k = "WARNING in"
    BY <2>3, Zenon DEF WebpackStep
  <2>4. CASE k = ""
    BY <2>4, Zenon DEF WebpackStep
  <2>5. ASSUME k \notin {"webpack compiled", "ERROR in", "WARNING in", ""}  PROVE z = z5 \/ z = z6 \/ z = z7 \/ z = x
    <3>0. k # "webpack compiled" /\ k # "ERROR in" /\ k # "WARNING in" /\ k # ""
      BY <2>5, Zenon
    <3>1. CASE k \in {"asset", "text"} /\ x.mode = "e"
      BY <3>0, <3>1, Zenon DEF WebpackStep
    <3>2. CASE k \in {"asset", "text"} /\ x.mode = "w"
      BY <3>0, <3>2, Zenon DEF WebpackStep
    <3>3. CASE k = "asset" /\ x.mode = ""
      BY <3>0, <3>3, Zenon DEF WebpackStep
    <3>4. CASE ~(k \in {"asset", "text"} /\ x.mode = "e") /\ ~(k \in {"asset", "text"} /\ x.mode = "w") /\ ~(k = "asset" /\ x.mode = "")
      BY <3>0, <3>4, Zenon DEF WebpackStep
    <3>5. QED
      BY <3>1, <3>2, <3>3, <3>4, Zenon
  <2>6. QED
    BY <2>1, <2>2, <2>3, <2>4, <2>5, Zenon
<1>2. x.eb \in Rows(t) /\ x.wb \in Rows(t) /\ x.errs \in Rows(t) /\ x.warns \in Rows(t) /\ x.assets \in Rows(t)
  BY PackParts, Zenon
<1>3. e \in Rows(t) /\ eb1 \in Rows(t) /\ wb1 \in Rows(t) /\ as1 \in Rows(t)
  BY <1>2, RowsGrow, Zenon
<1>4. we \in Rows(t) /\ er \in Rows(t)
  BY <1>2, Zenon DEF Writes, Chains
<1>5. m \in PackModes /\ me \in PackModes /\ mw \in PackModes
  BY Zenon DEF PackModes
<1> HIDE DEF we, er, eb1, wb1, as1, m, me, mw
<1>6. p \in Rows(t) /\ q \in Rows(t) /\ r \in Rows(t) /\ s \in Rows(t)
  BY <1>2, <1>3, <1>4, Zenon
<1> HIDE DEF p, q, r, s, e
<1>7. z1 \in X
  BY <1>5, PackMode, Zenon
<1>8. z2 \in X
  BY <1>3, <1>4, <1>5, PackErr, Zenon
<1>9. z3 \in X
  BY <1>3, <1>4, <1>5, PackWarn, Zenon
<1>10. z4 \in X
  BY <1>5, <1>6, PackBlank, Zenon
<1>11. z5 \in X /\ z6 \in X /\ z7 \in X
  BY <1>3, PackEb, PackWb, PackAssets, Zenon
<1> HIDE DEF z1, z2, z3, z4, z5, z6, z7
<1>12. QED
  BY <1>1, <1>7, <1>8, <1>9, <1>10, <1>11, Zenon DEF z

\* All of webpack's scan.
LEMMA WebpackScanIn ==
  ASSUME NEW Kind, NEW t \in Seq(Kind), NEW O, NEW N, Writes(O, N, t)
  PROVE  Scan(LAMBDA a, i : WebpackStep(t, a, i), [mode |-> "", eb |-> <<>>, wb |-> <<>>, errs |-> <<>>, warns |-> <<>>, assets |-> <<>>], t) \in PackState(Rows(t))
<1> DEFINE n == Len(t)
           X == PackState(Rows(t))
           start == [mode |-> "", eb |-> <<>>, wb |-> <<>>, errs |-> <<>>, warns |-> <<>>, assets |-> <<>>]
           F == [i \in 1..n |-> [x \in X |-> WebpackStep(t, x, i)]]
           I == [i \in 0..n |-> X]
           e(f) == [i \in 0..Len(t) |-> IF i = 0 THEN start ELSE WebpackStep(t, f[i - 1], i)]
           Q == CHOOSE f : f = e(f)
<1>1. start \in X
  BY PackStart, RowsGrow, Zenon
<1>2. ASSUME NEW i \in 1..n, NEW x \in X
      PROVE  WebpackStep(t, x, i) \in X
  <2>1. i \in DOMAIN t /\ DOMAIN t = 1..Len(t)
    BY Indices, Zenon
  <2>2. QED
    BY <2>1, WebpackStepIn, Zenon
<1>3. Scan(LAMBDA a, i : WebpackStep(t, a, i), [mode |-> "", eb |-> <<>>, wb |-> <<>>, errs |-> <<>>, warns |-> <<>>, assets |-> <<>>], t) = Q[n]
  BY Zenon DEF Scan
<1>4. n \in Nat /\ \A i \in 1..n : i - 1 \in 0..n /\ i \in 0..n /\ i # 0
  BY Indices
<1>5. \A i \in 0..n : I[i] = X
  BY Zenon
<1> HIDE DEF X, I, n, start
<1>6. \A i \in 1..n : \A x \in I[i - 1] : F[i][x] \in I[i]
  BY <1>2, <1>4, <1>5, Zenon
<1>7. 0 \in 0..n /\ n \in 0..n
  BY <1>4
<1>8. start \in I[0]
  BY <1>1, <1>5, <1>7, Zenon
<1> HIDE DEF F
<1>9. PICK f : Loop(f, start, F, n) /\ \A i \in 0..n : f[i] \in I[i]
  BY <1>4, <1>6, <1>8, LoopStays, Zenon
<1>10. f = e(f)
  <2>1. \A i \in 1..n : F[i][f[i - 1]] = WebpackStep(t, f[i - 1], i)
    BY <1>4, <1>5, <1>9, Zenon DEF F
  <2>2. \A i \in 0..n : i # 0 => i \in 1..n
    BY <1>4
  <2>3. f = [i \in 0..n |-> IF i = 0 THEN start ELSE F[i][f[i - 1]]]
    BY <1>9, Zenon DEF Loop
  <2>4. QED
    BY <2>1, <2>2, <2>3, Zenon DEF n
<1>11. Q = e(Q)
  BY <1>10, Zenon
<1> HIDE DEF Q
<1>12. Q[0] \in I[0] /\ \A i \in 1..n : Q[i - 1] \in I[i - 1] => Q[i] \in I[i]
  <2>1. Q[0] = start /\ \A i \in 1..n : Q[i] = WebpackStep(t, Q[i - 1], i)
    BY <1>4, <1>7, <1>11, Zenon DEF n
  <2>2. QED
    BY <1>2, <1>4, <1>5, <1>8, <2>1, Zenon
<1>13. Q[n] \in X
  <2>1. \A i \in 0..n : Q[i] \in I[i]
    BY <1>4, <1>12, LoopKeeps, Zenon
  <2>2. QED
    BY <1>5, <1>7, <2>1, Zenon
<1>14. QED
  BY <1>3, <1>13, Zenon DEF start, X

\* The filter of webpack leaves the verdict.
LEMMA WebpackKeeps ==
  ASSUME NEW H, NEW O, NEW Kind, NEW t \in Seq(Kind), NEW N, {"more warnings"} \subseteq N, Writes(O, N, t),
         Keeps(H, O, t, {"webpack compiled"}), Has(t, {"webpack compiled"})
  PROVE  Webpack(t) \in H
<1> DEFINE z == Scan(LAMBDA a, i : WebpackStep(t, a, i), [mode |-> "", eb |-> <<>>, wb |-> <<>>, errs |-> <<>>, warns |-> <<>>, assets |-> <<>>], t)
           errs == z.errs \o z.eb
           u == z.assets \o errs
           v == z.warns \o z.wb
           a == Lines(u)
           b == Capped(v, 5, "more warnings")
           c == Lines(Final(At(t, {"webpack compiled"}), 1))
<1>0. /\ \A x \in H : x \in O /\ x # <<>>
      /\ \A x \in H : \A y \in O : x \o y \in H /\ y \o x \in H
  BY Zenon DEF Keeps, ShownInOutput, ShownInJoin
<1>1. z \in PackState(Rows(t))
  BY WebpackScanIn, Zenon
<1>2. Webpack(t) = Whole(t) \/ Webpack(t) = a \o b \o c
  BY Zenon DEF Webpack
<1> HIDE DEF z
<1>3. errs \in Rows(t) /\ v \in Rows(t) /\ z.assets \in Rows(t)
  BY <1>1, PackParts, Zenon DEF Writes, Chains
<1> HIDE DEF errs, v
<1>4. u \in Rows(t)
  BY <1>3, Zenon DEF Writes, Chains
<1> HIDE DEF u
<1>5. a \in O
  BY <1>4, Zenon DEF Writes, LinesIn
<1>6. b \in O
  BY <1>3, Zenon DEF Writes, MoreIn, Sizes
<1>7. c \in H
  BY CutsAt, Zenon DEF Keeps, ShownInCut
<1> HIDE DEF a, b, c
<1>8. a \o b \in O
  BY <1>5, <1>6, Zenon DEF Writes, JoinIn
<1>9. a \o b \o c \in H
  BY <1>0, <1>7, <1>8, Zenon
<1>10. QED
  BY <1>2, <1>9, Zenon DEF Keeps, ShownInWhole

\* Rows with a line of K among them.
RowsWith(t, K) == {s \in Rows(t) : Among(s, t, K)}

\* A line of K among rows stays among them when others come, and comes with itself.
LEMMA WithGrows ==
  ASSUME NEW t, DOMAIN t = 1..Len(t), NEW K
  PROVE  /\ \A s \in Rows(t) : \A i \in DOMAIN t : t[i] \in K => Append(s, i) \in RowsWith(t, K)
         /\ \A s \in RowsWith(t, K) : \A i \in DOMAIN t : Append(s, i) \in RowsWith(t, K)
         /\ \A s \in RowsWith(t, K) : s \in Rows(t)
         /\ \A s \in RowsWith(t, K) : \A r \in Rows(t) : r \o s \in RowsWith(t, K)
<1> DEFINE T == {i \in 1..Len(t) : t[i] \in K}
<1>1. \A s \in Rows(t) : (s \in RowsWith(t, K) <=> \E j \in DOMAIN s : s[j] \in T)
  <2>1. \A s \in Seq(1..Len(t)) : \A j \in DOMAIN s : s[j] \in 1..Len(t)
    OBVIOUS
  <2>2. QED
    BY <2>1, Zenon DEF RowsWith, Among, Rows
<1>2. \A s \in RowsWith(t, K) : s \in Rows(t)
  BY Zenon DEF RowsWith
<1>3. \A i \in DOMAIN t : t[i] \in K => i \in T
  BY Zenon
<1> HIDE DEF T
<1>4. ASSUME NEW s \in Rows(t), NEW i \in DOMAIN t
      PROVE  /\ Append(s, i) \in Rows(t)
             /\ (\E j \in DOMAIN s : s[j] \in T) => \E j \in DOMAIN Append(s, i) : Append(s, i)[j] \in T
             /\ i \in T => \E j \in DOMAIN Append(s, i) : Append(s, i)[j] \in T
  BY AppendShows, Zenon DEF Rows
<1>5. ASSUME NEW s \in Rows(t), NEW r \in Rows(t)
      PROVE  /\ r \o s \in Rows(t)
             /\ (\E j \in DOMAIN s : s[j] \in T) => \E j \in DOMAIN (r \o s) : (r \o s)[j] \in T
  <2>1. r \o s \in Rows(t)
    BY DEF Rows
  <2>2. QED
    BY <2>1, JoinShows, Zenon DEF Rows
<1>6. QED
  BY <1>1, <1>2, <1>3, <1>4, <1>5, Zenon

\* What turbo's scan carries.
TurboState(R, T) == [scope : R, tasks : R, tail : T, eb : R, in : BOOLEAN, sum : BOOLEAN]
TurboFound == {"Time:"}

\* Where turbo's scan starts.
LEMMA TurboStart ==
  ASSUME NEW R, <<>> \in R
  PROVE  [scope |-> <<>>, tasks |-> <<>>, tail |-> <<>>, eb |-> <<>>, in |-> FALSE, sum |-> FALSE] \in TurboState(R, R)
BY DEF TurboState

\* The lines it holds.
LEMMA TurboParts ==
  ASSUME NEW R, NEW T, NEW x \in TurboState(R, T)
  PROVE  x.scope \in R /\ x.tasks \in R /\ x.eb \in R /\ x.tail \in T
BY DEF TurboState

\* A line of the scope.
LEMMA TurboScope ==
  ASSUME NEW R, NEW T, NEW x \in TurboState(R, T)
  PROVE  \A p \in R : [x EXCEPT !.scope = p] \in TurboState(R, T)
BY DEF TurboState

\* A line of the summary.
LEMMA TurboTail ==
  ASSUME NEW R, NEW T, NEW U, NEW x \in TurboState(R, T)
  PROVE  \A p \in U : \A b \in BOOLEAN : [x EXCEPT !.tail = p, !.sum = b] \in TurboState(R, U)
BY DEF TurboState

\* A task from the cache.
LEMMA TurboTasks ==
  ASSUME NEW R, NEW T, NEW x \in TurboState(R, T)
  PROVE  \A p \in R : \A b \in BOOLEAN : [x EXCEPT !.tasks = p, !.in = b] \in TurboState(R, T)
BY DEF TurboState

\* An error begins.
LEMMA TurboIn ==
  ASSUME NEW R, NEW T, NEW x \in TurboState(R, T)
  PROVE  \A p \in R : \A b \in BOOLEAN : [x EXCEPT !.in = b, !.eb = p] \in TurboState(R, T)
BY DEF TurboState

\* A line of an error.
LEMMA TurboEb ==
  ASSUME NEW R, NEW T, NEW x \in TurboState(R, T)
  PROVE  \A p \in R : [x EXCEPT !.eb = p] \in TurboState(R, T)
BY DEF TurboState

\* A step of turbo's scan: the time is always among the summary.
LEMMA TurboStepIn ==
  ASSUME NEW t, DOMAIN t = 1..Len(t), NEW i \in DOMAIN t, NEW T, NEW U,
         NEW x \in TurboState(Rows(t), T), \A s \in T : Append(s, i) \in U
  PROVE  \/ TurboStep(t, x, i) \in TurboState(Rows(t), U)
         \/ TurboStep(t, x, i) \in TurboState(Rows(t), T) /\ t[i] \notin TurboFound
<1> DEFINE X == TurboState(Rows(t), T)
           k == t[i]
           p == Append(x.scope, i)
           q == Append(x.tail, i)
           r == Append(x.tasks, i)
           s == Append(x.eb, i)
           b == k # "Time:"
           z1 == [x EXCEPT !.scope = p]
           z2 == [x EXCEPT !.tail = q, !.sum = b]
           z3 == [x EXCEPT !.tasks = r, !.in = FALSE]
           z4 == [x EXCEPT !.in = TRUE, !.eb = s]
           z5 == [x EXCEPT !.eb = s]
           z == TurboStep(t, x, i)
<1>1. z = z2 \/ ((z = z1 \/ z = z3 \/ z = z4 \/ z = z5 \/ z = x) /\ k \notin TurboFound)
  <2>0. "scope" # "Time:"
    OBVIOUS
  <2>1. CASE k = "scope"
    BY <2>0, <2>1, Zenon DEF TurboStep, TurboFound
  <2>2. CASE k # "scope" /\ (x.sum \/ k \in {"Tasks:", "Time:"})
    BY <2>2, Zenon DEF TurboStep
  <2>3. ASSUME k # "scope", ~(x.sum \/ k \in {"Tasks:", "Time:"})
        PROVE  (z = z3 \/ z = z4 \/ z = z5 \/ z = x) /\ k \notin TurboFound
    <3>1. k \notin TurboFound
      BY <2>3, Zenon DEF TurboFound
    <3>2. CASE k = "web:build: cache hit"
      BY <2>3, <3>1, <3>2, Zenon DEF TurboStep
    <3>3. CASE k = "web:build: error"
      BY <2>3, <3>1, <3>3, Zenon DEF TurboStep
    <3>4. CASE k = "web:build: text" /\ x.in
      BY <2>3, <3>1, <3>4, Zenon DEF TurboStep
    <3>5. CASE k # "web:build: cache hit" /\ k # "web:build: error" /\ ~(k = "web:build: text" /\ x.in)
      BY <2>3, <3>1, <3>5, Zenon DEF TurboStep
    <3>6. QED
      BY <3>2, <3>3, <3>4, <3>5, Zenon
  <2>4. QED
    BY <2>1, <2>2, <2>3, Zenon
<1>2. x.scope \in Rows(t) /\ x.tasks \in Rows(t) /\ x.eb \in Rows(t) /\ x.tail \in T
  BY TurboParts, Zenon
<1>3. p \in Rows(t) /\ r \in Rows(t) /\ s \in Rows(t) /\ q \in U
  BY <1>2, RowsGrow, Zenon
<1>4. b \in BOOLEAN /\ TRUE \in BOOLEAN /\ FALSE \in BOOLEAN
  BY Zenon
<1> HIDE DEF p, q, r, s, b
<1>5. z1 \in X
  BY <1>3, TurboScope, Zenon
<1>6. z2 \in TurboState(Rows(t), U)
  BY <1>3, <1>4, TurboTail, Zenon
<1>7. z3 \in X
  BY <1>3, <1>4, TurboTasks, Zenon
<1>8. z4 \in X
  BY <1>3, <1>4, TurboIn, Zenon
<1>9. z5 \in X
  BY <1>3, TurboEb, Zenon
<1> HIDE DEF z1, z2, z3, z4, z5
<1>10. QED
  BY <1>1, <1>5, <1>6, <1>7, <1>8, <1>9, Zenon DEF z

\* All of turbo's scan.
LEMMA TurboScanIn ==
  ASSUME NEW Kind, NEW t \in Seq(Kind), NEW K, K \subseteq TurboFound
  PROVE  /\ Scan(LAMBDA a, i : TurboStep(t, a, i), [scope |-> <<>>, tasks |-> <<>>, tail |-> <<>>, eb |-> <<>>, in |-> FALSE, sum |-> FALSE], t) \in TurboState(Rows(t), Rows(t))
         /\ Has(t, K) => Scan(LAMBDA a, i : TurboStep(t, a, i), [scope |-> <<>>, tasks |-> <<>>, tail |-> <<>>, eb |-> <<>>, in |-> FALSE, sum |-> FALSE], t) \in TurboState(Rows(t), RowsWith(t, K))
<1> DEFINE n == Len(t)
           X == TurboState(Rows(t), Rows(t))
           Y == TurboState(Rows(t), RowsWith(t, K))
           Holds(i) == {x \in X : (\E k \in 1..i : t[k] \in K) => x \in Y}
           start == [scope |-> <<>>, tasks |-> <<>>, tail |-> <<>>, eb |-> <<>>, in |-> FALSE, sum |-> FALSE]
           F == [i \in 1..n |-> [x \in X |-> TurboStep(t, x, i)]]
           I == [i \in 0..n |-> Holds(i)]
           e(f) == [i \in 0..Len(t) |-> IF i = 0 THEN start ELSE TurboStep(t, f[i - 1], i)]
           Q == CHOOSE f : f = e(f)
<1>1. start \in Holds(0)
  <2>1. start \in X
    BY TurboStart, RowsGrow, Zenon
  <2>2. 1..0 = {}
    OBVIOUS
  <2>3. QED
    BY <2>1, <2>2, Zenon
<1>2. ASSUME NEW i \in 1..n, NEW x \in Holds(i - 1)
      PROVE  TurboStep(t, x, i) \in Holds(i)
  <2> DEFINE s == TurboStep(t, x, i)
  <2>1. x \in X /\ i \in DOMAIN t /\ ((\E k \in 1..(i - 1) : t[k] \in K) => x \in Y)
    BY Indices, Zenon
  <2>2. /\ \A r \in Rows(t) : Append(r, i) \in Rows(t)
        /\ \A r \in RowsWith(t, K) : Append(r, i) \in RowsWith(t, K)
        /\ t[i] \in K => \A r \in Rows(t) : Append(r, i) \in RowsWith(t, K)
        /\ DOMAIN t = 1..Len(t)
    BY <2>1, Indices, RowsGrow, WithGrows, Zenon
  <2>3. s \in X
    BY <2>1, <2>2, TurboStepIn, Zenon
  <2>4. x \in Y => s \in Y
    BY <2>1, <2>2, TurboStepIn, Zenon
  <2>5. t[i] \in K => s \in Y
    BY <2>1, <2>2, TurboStepIn, Zenon
  <2> HIDE DEF s, X, Y
  <2>6. \A k \in 1..i : k \in 1..(i - 1) \/ k = i
    BY Indices, LastOrBefore, Zenon
  <2>7. QED
    BY <2>1, <2>3, <2>4, <2>5, <2>6, Zenon DEF s
<1>3. Scan(LAMBDA a, i : TurboStep(t, a, i), [scope |-> <<>>, tasks |-> <<>>, tail |-> <<>>, eb |-> <<>>, in |-> FALSE, sum |-> FALSE], t) = Q[n]
  BY Zenon DEF Scan
<1>4. n \in Nat /\ \A i \in 1..n : i - 1 \in 0..n /\ i \in 0..n /\ i # 0
  BY Indices
<1>5. \A i \in 0..n : Holds(i) \subseteq X /\ I[i] = Holds(i)
  BY Zenon
<1> HIDE DEF X, Y, Holds, I, n, start
<1>6. \A i \in 1..n : \A x \in I[i - 1] : F[i][x] \in I[i]
  BY <1>2, <1>4, <1>5, Zenon
<1>7. 0 \in 0..n /\ n \in 0..n
  BY <1>4
<1>8. start \in I[0]
  BY <1>1, <1>5, <1>7, Zenon
<1> HIDE DEF F
<1>9. PICK f : Loop(f, start, F, n) /\ \A i \in 0..n : f[i] \in I[i]
  BY <1>4, <1>6, <1>8, LoopStays, Zenon
<1>10. f = e(f)
  <2>1. \A i \in 1..n : F[i][f[i - 1]] = TurboStep(t, f[i - 1], i)
    BY <1>4, <1>5, <1>9, Zenon DEF F
  <2>2. \A i \in 0..n : i # 0 => i \in 1..n
    BY <1>4
  <2>3. f = [i \in 0..n |-> IF i = 0 THEN start ELSE F[i][f[i - 1]]]
    BY <1>9, Zenon DEF Loop
  <2>4. QED
    BY <2>1, <2>2, <2>3, Zenon DEF n
<1>11. Q = e(Q)
  BY <1>10, Zenon
<1> HIDE DEF Q
<1>12. Q[0] \in I[0] /\ \A i \in 1..n : Q[i - 1] \in I[i - 1] => Q[i] \in I[i]
  <2>1. Q[0] = start /\ \A i \in 1..n : Q[i] = TurboStep(t, Q[i - 1], i)
    BY <1>4, <1>7, <1>11, Zenon DEF n
  <2>2. QED
    BY <1>2, <1>4, <1>5, <1>8, <2>1, Zenon
<1>13. Q[n] \in Holds(n)
  <2>1. \A i \in 0..n : Q[i] \in I[i]
    BY <1>4, <1>12, LoopKeeps, Zenon
  <2>2. QED
    BY <1>5, <1>7, <2>1, Zenon
<1>14. Scan(LAMBDA a, i : TurboStep(t, a, i), [scope |-> <<>>, tasks |-> <<>>, tail |-> <<>>, eb |-> <<>>, in |-> FALSE, sum |-> FALSE], t) \in Holds(n)
  BY <1>3, <1>13, Zenon DEF start
<1>15. QED
  BY <1>4, <1>14, Indices, Zenon DEF Has, Holds, X, Y, n

\* The filter of turbo leaves the time.
LEMMA TurboKeeps ==
  ASSUME NEW H, NEW O, NEW Kind, NEW t \in Seq(Kind), NEW N, Writes(O, N, t), Keeps(H, O, t, {"Time:"}), Has(t, {"Time:"})
  PROVE  Turbo(t) \in H
<1> DEFINE z == Scan(LAMBDA a, i : TurboStep(t, a, i), [scope |-> <<>>, tasks |-> <<>>, tail |-> <<>>, eb |-> <<>>, in |-> FALSE, sum |-> FALSE], t)
           u == z.scope \o z.tasks
           v == u \o z.eb
           w == v \o z.tail
<1>1. z \in TurboState(Rows(t), RowsWith(t, TurboFound))
  <2>1. Has(t, TurboFound)
    BY Zenon DEF TurboFound
  <2>2. QED
    BY <2>1, TurboScanIn, Zenon
<1>2. Turbo(t) = Whole(t) \/ Turbo(t) = Lines(w)
  BY Zenon DEF Turbo
<1> HIDE DEF z
<1>3. z.scope \in Rows(t) /\ z.tasks \in Rows(t) /\ z.eb \in Rows(t) /\ z.tail \in RowsWith(t, TurboFound)
  BY <1>1, TurboParts, Zenon
<1>4. u \in Rows(t)
  BY <1>3, Zenon DEF Writes, Chains
<1> HIDE DEF u
<1>5. v \in Rows(t)
  BY <1>3, <1>4, Zenon DEF Writes, Chains
<1> HIDE DEF v
<1>6. w \in RowsWith(t, TurboFound)
  BY <1>3, <1>5, Indices, WithGrows, Zenon
<1> HIDE DEF w
<1>7. Lines(w) \in H
  BY <1>6, Zenon DEF RowsWith, Among, TurboFound, Keeps, ShownInLines
<1>8. QED
  BY <1>2, <1>7, Zenon DEF Keeps, ShownInWhole

\* What nx's scan carries.
NxState(A, R) == [out : A, count : Int, cached : Int, in : BOOLEAN, failing : BOOLEAN, lines : R]
NxFound == {"NX Ran 2 tasks"}
NxNames == {"tasks passed", "cached"}

\* Where nx's scan starts.
LEMMA NxStart ==
  ASSUME NEW A, NEW R, <<>> \in A, <<>> \in R
  PROVE  [out |-> <<>>, count |-> 0, cached |-> 0, in |-> FALSE, failing |-> FALSE, lines |-> <<>>] \in NxState(A, R)
BY DEF NxState

\* What it holds.
LEMMA NxParts ==
  ASSUME NEW A, NEW R, NEW x \in NxState(A, R)
  PROVE  /\ x.out \in A /\ x.count \in Int /\ x.cached \in Int /\ x.lines \in R /\ x.in \in BOOLEAN /\ x.failing \in BOOLEAN
         /\ x.count + 1 \in Int /\ x.cached + 1 \in Int
BY DEF NxState

\* The counts written out.
LEMMA NxOutCounts ==
  ASSUME NEW A, NEW R, NEW x \in NxState(A, R)
  PROVE  \A o \in A : \A m, n \in Int : [x EXCEPT !.out = o, !.count = m, !.cached = n] \in NxState(A, R)
BY DEF NxState

\* A failed task written out.
LEMMA NxOutIn ==
  ASSUME NEW A, NEW R, NEW x \in NxState(A, R)
  PROVE  \A o \in A : \A b \in BOOLEAN : \A l \in R : [x EXCEPT !.out = o, !.in = b, !.lines = l] \in NxState(A, R)
BY DEF NxState

\* A task counted.
LEMMA NxCounts ==
  ASSUME NEW A, NEW R, NEW x \in NxState(A, R)
  PROVE  \A m, n \in Int : \A b \in BOOLEAN : \A l \in R :
           [x EXCEPT !.count = m, !.cached = n, !.in = b, !.lines = l] \in NxState(A, R)
BY DEF NxState

\* The output changed.
LEMMA NxOut ==
  ASSUME NEW A, NEW B, NEW R, NEW x \in NxState(A, R)
  PROVE  \A o \in B : [x EXCEPT !.out = o] \in NxState(B, R)
BY DEF NxState

\* A task begins.
LEMMA NxIn ==
  ASSUME NEW A, NEW R, NEW x \in NxState(A, R)
  PROVE  \A b, c \in BOOLEAN : \A l \in R : [x EXCEPT !.in = b, !.failing = c, !.lines = l] \in NxState(A, R)
BY DEF NxState

\* A line of a task.
LEMMA NxLines ==
  ASSUME NEW A, NEW R, NEW x \in NxState(A, R)
  PROVE  \A l \in R : \A b \in BOOLEAN : \A n \in Int :
           [x EXCEPT !.lines = l, !.failing = b, !.cached = n] \in NxState(A, R)
BY DEF NxState

\* nx's scan writes out its counts.
LEMMA NxFlushIn ==
  ASSUME NEW A, NEW O, NEW N, NEW t, NxNames \subseteq N, Writes(O, N, t), Growing(A, O, t), NEW x \in NxState(A, Rows(t))
  PROVE  NxFlush(x) \in NxState(A, Rows(t))
<1> DEFINE X == NxState(A, Rows(t))
           a == Note("tasks passed", x.count)
           b == Note("cached", x.cached)
           o == x.out \o a \o b
           e == 0
<1>1. x.out \in A /\ x.count \in Int /\ x.cached \in Int
  BY NxParts, Zenon
<1>2. a \in O /\ b \in O
  BY <1>1, Noted, Zenon DEF NxNames
<1>3. e \in Int
  BY Numbers, Zenon
<1>4. NxFlush(x) = x \/ NxFlush(x) = [x EXCEPT !.out = o, !.count = e, !.cached = e]
  BY Zenon DEF NxFlush
<1> HIDE DEF a, b, e
<1>5. x.out \o a \in A
  BY <1>1, <1>2, Zenon DEF Growing
<1>6. o \in A
  BY <1>2, <1>5, Zenon DEF Growing
<1> HIDE DEF o
<1>7. [x EXCEPT !.out = o, !.count = e, !.cached = e] \in X
  BY <1>3, <1>6, NxOutCounts, Zenon
<1>8. QED
  BY <1>4, <1>7, Zenon

\* It closes a task.
LEMMA NxCloseIn ==
  ASSUME NEW A, NEW O, NEW N, NEW t, NxNames \subseteq N, Writes(O, N, t), Growing(A, O, t), NEW x \in NxState(A, Rows(t)),
         NEW final \in BOOLEAN
  PROVE  NxClose(t, x, final) \in NxState(A, Rows(t))
<1> DEFINE X == NxState(A, Rows(t))
           hit == \E j \in DOMAIN x.lines : t[x.lines[j]] = "[local cache]"
           b == NxFlush(x)
           m == x.count + 1
           n == IF hit /\ ~final THEN x.cached + 1 ELSE x.cached
           o == b.out \o Lines(x.lines)
           e == <<>>
<1>1. /\ x.count \in Int /\ x.cached \in Int /\ x.lines \in Rows(t)
      /\ x.count + 1 \in Int /\ x.cached + 1 \in Int
  BY NxParts, Zenon
<1>2. NxClose(t, x, final) = x \/ NxClose(t, x, final) = [b EXCEPT !.out = o, !.in = FALSE, !.lines = e]
        \/ NxClose(t, x, final) = [x EXCEPT !.count = m, !.cached = n, !.in = FALSE, !.lines = e]
  BY Zenon DEF NxClose
<1>3. b \in X
  BY NxFlushIn, Zenon
<1> HIDE DEF b, hit
<1>4. b.out \in A
  BY <1>3, NxParts, Zenon
<1>5. Lines(x.lines) \in O
  BY <1>1, Zenon DEF Writes, LinesIn
<1>6. o \in A
  BY <1>4, <1>5, Zenon DEF Growing
<1>7. m \in Int /\ n \in Int /\ FALSE \in BOOLEAN /\ e \in Rows(t)
  BY <1>1, RowsGrow, Zenon
<1> HIDE DEF o, m, n, e
<1>8. [b EXCEPT !.out = o, !.in = FALSE, !.lines = e] \in X
  BY <1>3, <1>6, <1>7, NxOutIn, Zenon
<1>9. [x EXCEPT !.count = m, !.cached = n, !.in = FALSE, !.lines = e] \in X
  BY <1>7, NxCounts, Zenon
<1>10. QED
  BY <1>2, <1>8, <1>9, Zenon

\* A step of nx's scan: the summary is always added.
LEMMA NxStepIn ==
  ASSUME NEW A, NEW B, NEW O, NEW N, NEW t, NxNames \subseteq N, Writes(O, N, t), Growing(A, O, t),
         NEW x \in NxState(A, Rows(t)), NEW i \in DOMAIN t, DOMAIN t = 1..Len(t), Adds(A, B, i)
  PROVE  \/ NxStep(t, x, i) \in NxState(B, Rows(t))
         \/ NxStep(t, x, i) \in NxState(A, Rows(t)) /\ t[i] \notin NxFound
<1> DEFINE X == NxState(A, Rows(t))
           k == t[i]
           c == NxClose(t, x, FALSE)
           f == NxFlush(c)
           o1 == Append(f.out, Line(i))
           o2 == Append(x.out, Line(i))
           e == <<i>>
           l == Append(x.lines, i)
           b == x.failing \/ k = "error"
           n == IF k = "[local cache]" THEN x.cached + 1 ELSE x.cached
           z1 == [f EXCEPT !.out = o1]
           z2 == [c EXCEPT !.in = TRUE, !.failing = FALSE, !.lines = e]
           z3 == [x EXCEPT !.out = o2]
           z4 == [x EXCEPT !.lines = l, !.failing = b, !.cached = n]
           z == NxStep(t, x, i)
<1>1. z = z1 \/ z = z3 \/ ((z = z2 \/ z = z4 \/ z = x) /\ k \notin NxFound)
  <2>1. CASE k = "NX Cloud"
    BY <2>1, Zenon DEF NxStep, NxFound
  <2>2. CASE k # "NX Cloud" /\ k = "NX Ran 2 tasks"
    BY <2>2, Zenon DEF NxStep
  <2>3. CASE k # "NX Cloud" /\ k # "NX Ran 2 tasks" /\ k = "> nx run"
    BY <2>3, Zenon DEF NxStep, NxFound
  <2>4. CASE k # "NX Cloud" /\ k # "NX Ran 2 tasks" /\ k # "> nx run"
    BY <2>4, Zenon DEF NxStep, NxFound
  <2>5. QED
    BY <2>1, <2>2, <2>3, <2>4, Zenon
<1>2. c \in X
  BY NxCloseIn, Zenon
<1> HIDE DEF c
<1>3. f \in X
  BY <1>2, NxFlushIn, Zenon
<1> HIDE DEF f
<1>4. f.out \in A /\ x.out \in A /\ x.lines \in Rows(t) /\ x.cached \in Int /\ x.cached + 1 \in Int
  BY <1>3, NxParts, Zenon
<1>5. o1 \in B /\ o2 \in B
  BY <1>4, Zenon DEF Adds
<1>6. e \in Rows(t) /\ l \in Rows(t)
  BY <1>4, RowsGrow, SingleRow, Zenon
<1>7. b \in BOOLEAN /\ n \in Int /\ TRUE \in BOOLEAN /\ FALSE \in BOOLEAN
  BY <1>4, Zenon
<1> HIDE DEF o1, o2, e, l, b, n
<1>8. z1 \in NxState(B, Rows(t))
  BY <1>3, <1>5, NxOut, Zenon
<1>9. z3 \in NxState(B, Rows(t))
  BY <1>5, NxOut, Zenon
<1>10. z2 \in X
  BY <1>2, <1>6, <1>7, NxIn, Zenon
<1>11. z4 \in X
  BY <1>6, <1>7, NxLines, Zenon
<1> HIDE DEF z1, z2, z3, z4
<1>12. QED
  BY <1>1, <1>8, <1>9, <1>10, <1>11, Zenon DEF z

\* All of nx's scan.
LEMMA NxScanIn ==
  ASSUME NEW H, NEW O, NEW Kind, NEW t \in Seq(Kind), NEW N, NEW K, NxNames \subseteq N, Writes(O, N, t), Follows(H, O, t, K), K \subseteq NxFound
  PROVE  /\ Scan(LAMBDA a, i : NxStep(t, a, i), [out |-> <<>>, count |-> 0, cached |-> 0, in |-> FALSE, failing |-> FALSE, lines |-> <<>>], t) \in NxState(O, Rows(t))
         /\ Has(t, K) => Scan(LAMBDA a, i : NxStep(t, a, i), [out |-> <<>>, count |-> 0, cached |-> 0, in |-> FALSE, failing |-> FALSE, lines |-> <<>>], t) \in NxState(H, Rows(t))
<1> DEFINE n == Len(t)
           X == NxState(O, Rows(t))
           Y == NxState(H, Rows(t))
           Holds(i) == {x \in X : (\E k \in 1..i : t[k] \in K) => x \in Y}
           start == [out |-> <<>>, count |-> 0, cached |-> 0, in |-> FALSE, failing |-> FALSE, lines |-> <<>>]
           F == [i \in 1..n |-> [x \in X |-> NxStep(t, x, i)]]
           I == [i \in 0..n |-> Holds(i)]
           e(f) == [i \in 0..Len(t) |-> IF i = 0 THEN start ELSE NxStep(t, f[i - 1], i)]
           Q == CHOOSE f : f = e(f)
<1>1. start \in Holds(0)
  <2>1. start \in X
    BY NxStart, RowsGrow, Zenon DEF Writes, WholeIn
  <2>2. 1..0 = {}
    OBVIOUS
  <2>3. QED
    BY <2>1, <2>2, Zenon
<1>2. ASSUME NEW i \in 1..n, NEW x \in Holds(i - 1)
      PROVE  NxStep(t, x, i) \in Holds(i)
  <2> DEFINE s == NxStep(t, x, i)
  <2>1. x \in X /\ i \in DOMAIN t /\ ((\E k \in 1..(i - 1) : t[k] \in K) => x \in Y)
    BY Indices, Zenon
  <2>2. Growing(O, O, t) /\ Growing(H, O, t) /\ Adds(O, O, i) /\ Adds(H, H, i) /\ (t[i] \in K => Adds(O, H, i))
    BY <2>1, AddsIn, Zenon
  <2>3. s \in X
    BY <2>1, <2>2, Indices, NxStepIn, Zenon
  <2>4. x \in Y => s \in Y
    BY <2>1, <2>2, Indices, NxStepIn, Zenon
  <2>5. t[i] \in K => s \in Y
    BY <2>1, <2>2, Indices, NxStepIn, Zenon
  <2> HIDE DEF s, X, Y
  <2>6. \A k \in 1..i : k \in 1..(i - 1) \/ k = i
    BY Indices, LastOrBefore, Zenon
  <2>7. QED
    BY <2>1, <2>3, <2>4, <2>5, <2>6, Zenon DEF s
<1>3. Scan(LAMBDA a, i : NxStep(t, a, i), [out |-> <<>>, count |-> 0, cached |-> 0, in |-> FALSE, failing |-> FALSE, lines |-> <<>>], t) = Q[n]
  BY Zenon DEF Scan
<1>4. n \in Nat /\ \A i \in 1..n : i - 1 \in 0..n /\ i \in 0..n /\ i # 0
  BY Indices
<1>5. \A i \in 0..n : Holds(i) \subseteq X /\ I[i] = Holds(i)
  BY Zenon
<1> HIDE DEF X, Y, Holds, I, n, start
<1>6. \A i \in 1..n : \A x \in I[i - 1] : F[i][x] \in I[i]
  BY <1>2, <1>4, <1>5, Zenon
<1>7. 0 \in 0..n /\ n \in 0..n
  BY <1>4
<1>8. start \in I[0]
  BY <1>1, <1>5, <1>7, Zenon
<1> HIDE DEF F
<1>9. PICK f : Loop(f, start, F, n) /\ \A i \in 0..n : f[i] \in I[i]
  BY <1>4, <1>6, <1>8, LoopStays, Zenon
<1>10. f = e(f)
  <2>1. \A i \in 1..n : F[i][f[i - 1]] = NxStep(t, f[i - 1], i)
    BY <1>4, <1>5, <1>9, Zenon DEF F
  <2>2. \A i \in 0..n : i # 0 => i \in 1..n
    BY <1>4
  <2>3. f = [i \in 0..n |-> IF i = 0 THEN start ELSE F[i][f[i - 1]]]
    BY <1>9, Zenon DEF Loop
  <2>4. QED
    BY <2>1, <2>2, <2>3, Zenon DEF n
<1>11. Q = e(Q)
  BY <1>10, Zenon
<1> HIDE DEF Q
<1>12. Q[0] \in I[0] /\ \A i \in 1..n : Q[i - 1] \in I[i - 1] => Q[i] \in I[i]
  <2>1. Q[0] = start /\ \A i \in 1..n : Q[i] = NxStep(t, Q[i - 1], i)
    BY <1>4, <1>7, <1>11, Zenon DEF n
  <2>2. QED
    BY <1>2, <1>4, <1>5, <1>8, <2>1, Zenon
<1>13. Q[n] \in Holds(n)
  <2>1. \A i \in 0..n : Q[i] \in I[i]
    BY <1>4, <1>12, LoopKeeps, Zenon
  <2>2. QED
    BY <1>5, <1>7, <2>1, Zenon
<1>14. Scan(LAMBDA a, i : NxStep(t, a, i), [out |-> <<>>, count |-> 0, cached |-> 0, in |-> FALSE, failing |-> FALSE, lines |-> <<>>], t) \in Holds(n)
  BY <1>3, <1>13, Zenon DEF start
<1>15. QED
  BY <1>4, <1>14, Indices, Zenon DEF Has, Holds, X, Y, n

\* The filter of nx leaves the summary.
LEMMA NxKeeps ==
  ASSUME NEW H, NEW O, NEW Kind, NEW t \in Seq(Kind), NEW N, NxNames \subseteq N, Writes(O, N, t),
         Keeps(H, O, t, {"NX Ran 2 tasks"}), Has(t, {"NX Ran 2 tasks"})
  PROVE  Nx(t) \in H
<1> DEFINE z == Scan(LAMBDA a, i : NxStep(t, a, i), [out |-> <<>>, count |-> 0, cached |-> 0, in |-> FALSE, failing |-> FALSE, lines |-> <<>>], t)
           c == NxClose(t, z, TRUE)
           f == NxFlush(c)
<1>1. Follows(H, O, t, NxFound) /\ Has(t, NxFound)
  BY FollowsKept, Zenon DEF NxFound
<1>2. z \in NxState(H, Rows(t))
  BY <1>1, NxScanIn, Zenon
<1>3. Nx(t) = Whole(t) \/ Nx(t) = f.out
  BY Zenon DEF Nx
<1> HIDE DEF z
<1>4. Growing(H, O, t) /\ TRUE \in BOOLEAN
  BY <1>1, Zenon DEF Follows
<1>5. c \in NxState(H, Rows(t))
  BY <1>2, <1>4, NxCloseIn, Zenon
<1> HIDE DEF c
<1>6. f \in NxState(H, Rows(t))
  BY <1>4, <1>5, NxFlushIn, Zenon
<1> HIDE DEF f
<1>7. f.out \in H
  BY <1>6, NxParts, Zenon
<1>8. QED
  BY <1>3, <1>7, Zenon DEF Keeps, ShownInWhole

-----------------------------------------------------------------------------
\* The commands that have such lines.

\* What a program says when nothing is wrong, and what makes a script's output a test runner's.
Settled == {"All checks passed.", "Success: no issues found", "0 problems", "found 0 vulnerabilities", "10 vulnerabilities",
            "Test Files 1 failed", "Test Suites:"} \cup JsReport
\* The commands that are left out: their filters cut by length, or pass the linters' output on.
Loose == {"npm run", "npm run again", "pip show", "gh repo clone", "python", "python table"}
\* What c's filter makes of t is lines of t and notes, and a line that must stay is among them.
Leaves(c, t, d) == \E N : Filter(c, t, d) \in Showing(Outputs(N, Len(t)), t, Promise(c).keep)

\* What leaves such a line in every set that keeps one leaves it.
LEMMA LeavesBy ==
  ASSUME NEW t \in Seq(LineKind), NEW c, NEW d, NEW N, "line" \notin N, Has(t, Promise(c).keep),
         \A H, O : Writes(O, N, t) /\ Keeps(H, O, t, Promise(c).keep) => Filter(c, t, d) \in H
  PROVE  Leaves(c, t, d)
<1> DEFINE O == Outputs(N, Len(t))
           H == Showing(O, t, Promise(c).keep)
<1>1. Writes(O, N, t)
  BY Written, Zenon
<1>2. Keeps(H, O, t, Promise(c).keep)
  BY Kept, Zenon
<1> HIDE DEF O, H
<1>3. Filter(c, t, d) \in H
  BY <1>1, <1>2, Zenon
<1>4. QED
  BY <1>3, Zenon DEF Leaves, O, H

\* Of an output with a line that must stay, the filters of the test runners leave one.
LEMMA TestsLeave ==
  ASSUME NEW t \in Seq(LineKind), NEW d, NEW c \in Tests,
         c \notin DOMAIN Unknown, c \notin Loose, Has(t, Promise(c).keep), ~Has(t, Settled)
  PROVE  Promise(c).keep = {} \/ Leaves(c, t, d)
<1>1. Filter(c, t, d) = FilterTests(c, t) /\ Promise(c) = PromiseTests(c)
  BY TestsAre, Zenon
<1>2. CASE c = "cargo nextest run"
  <2>1. Promise(c).keep = {"Summary"} /\ Filter(c, t, d) = Nextest(t)
    BY <1>1, <1>2, Zenon DEF PromiseTests, Nothing, FilterTests
  <2>2. Has(t, {"Summary"})
    BY <2>1, Zenon
  <2> DEFINE N == {"block"}
  <2>3. "line" \notin N /\ {"block"} \subseteq N
    BY Zenon
  <2> HIDE DEF N
  <2>4. \A H, O : Writes(O, N, t) /\ Keeps(H, O, t, {"Summary"}) => Nextest(t) \in H
    BY <2>2, <2>3, NextestKeeps, Zenon
  <2>5. QED
    BY <2>1, <2>3, <2>4, LeavesBy, Zenon
<1>3. CASE c = "rake"
  <2>1. Promise(c).keep = {"rake aborted!"} /\ Filter(c, t, d) = Rake(t)
    BY <1>1, <1>3, Zenon DEF PromiseTests, Nothing, FilterTests
  <2>2. Has(t, {"rake aborted!"})
    BY <2>1, Zenon
  <2>3. "line" \notin {}
    BY Zenon
  <2>4. \A H, O : Writes(O, {}, t) /\ Keeps(H, O, t, {"rake aborted!"}) => Rake(t) \in H
    BY <2>2, <2>3, RakeKeeps, Zenon
  <2>5. QED
    BY <2>1, <2>3, <2>4, LeavesBy, Zenon
<1>4. CASE c = "swift test"
  <2>1. Promise(c).keep = {"Executed 2 tests"} /\ Filter(c, t, d) = SwiftTest(t)
    BY <1>1, <1>4, Zenon DEF PromiseTests, Nothing, FilterTests
  <2>2. Has(t, {"Executed 2 tests"})
    BY <2>1, Zenon
  <2>3. "line" \notin {}
    BY Zenon
  <2>4. \A H, O : Writes(O, {}, t) /\ Keeps(H, O, t, {"Executed 2 tests"}) => SwiftTest(t) \in H
    BY <2>2, <2>3, SwiftTestKeeps, Zenon
  <2>5. QED
    BY <2>1, <2>3, <2>4, LeavesBy, Zenon
<1>5. CASE c \notin {"cargo nextest run", "rake", "swift test"}
  <2>1. PromiseTests(c).keep = {}
    BY <1>5, Zenon DEF PromiseTests, Nothing
  <2>2. QED
    BY <1>1, <2>1, Zenon
<1>6. QED
  BY <1>2, <1>3, <1>4, <1>5, Zenon

\* Of an output with a line that must stay, the filters of the build tools leave one.
LEMMA BuildsLeave ==
  ASSUME NEW t \in Seq(LineKind), NEW d, NEW c \in Builds,
         c \notin DOMAIN Unknown, c \notin Loose, Has(t, Promise(c).keep), ~Has(t, Settled)
  PROVE  Promise(c).keep = {} \/ Leaves(c, t, d)
<1>1. Filter(c, t, d) = FilterBuilds(c, t) /\ Promise(c) = PromiseBuilds(c)
  BY BuildsAre, Zenon
<1>2. CASE c = "webpack"
  <2>1. Promise(c).keep = {"webpack compiled"} /\ Filter(c, t, d) = Webpack(t)
    BY <1>1, <1>2, Zenon DEF PromiseBuilds, Nothing, FilterBuilds
  <2>2. Has(t, {"webpack compiled"})
    BY <2>1, Zenon
  <2> DEFINE N == {"more warnings"}
  <2>3. "line" \notin N /\ {"more warnings"} \subseteq N
    BY Zenon
  <2> HIDE DEF N
  <2>4. \A H, O : Writes(O, N, t) /\ Keeps(H, O, t, {"webpack compiled"}) => Webpack(t) \in H
    BY <2>2, <2>3, WebpackKeeps, Zenon
  <2>5. QED
    BY <2>1, <2>3, <2>4, LeavesBy, Zenon
<1>3. CASE c = "turbo"
  <2>1. Promise(c).keep = {"Time:"} /\ Filter(c, t, d) = Turbo(t)
    BY <1>1, <1>3, Zenon DEF PromiseBuilds, Nothing, FilterBuilds
  <2>2. Has(t, {"Time:"})
    BY <2>1, Zenon
  <2>3. "line" \notin {}
    BY Zenon
  <2>4. \A H, O : Writes(O, {}, t) /\ Keeps(H, O, t, {"Time:"}) => Turbo(t) \in H
    BY <2>2, <2>3, TurboKeeps, Zenon
  <2>5. QED
    BY <2>1, <2>3, <2>4, LeavesBy, Zenon
<1>4. CASE c = "nx"
  <2>1. Promise(c).keep = {"NX Ran 2 tasks"} /\ Filter(c, t, d) = Nx(t)
    BY <1>1, <1>4, Zenon DEF PromiseBuilds, Nothing, FilterBuilds
  <2>2. Has(t, {"NX Ran 2 tasks"})
    BY <2>1, Zenon
  <2> DEFINE N == {"tasks passed", "cached"}
  <2>3. "line" \notin N /\ NxNames \subseteq N
    BY Zenon DEF NxNames
  <2> HIDE DEF N
  <2>4. \A H, O : Writes(O, N, t) /\ Keeps(H, O, t, {"NX Ran 2 tasks"}) => Nx(t) \in H
    BY <2>2, <2>3, NxKeeps, Zenon
  <2>5. QED
    BY <2>1, <2>3, <2>4, LeavesBy, Zenon
<1>5. CASE c = "ember build"
  <2>1. Promise(c).keep = {"Build successful", "Build failed"} /\ Filter(c, t, d) = EmberBuild(t)
    BY <1>1, <1>5, Zenon DEF PromiseBuilds, Nothing, FilterBuilds
  <2>2. Has(t, {"Build successful", "Build failed"})
    BY <2>1, Zenon
  <2> DEFINE N == {"more errors"}
  <2>3. "line" \notin N /\ {"more errors"} \subseteq N
    BY Zenon
  <2> HIDE DEF N
  <2>4. \A H, O : Writes(O, N, t) /\ Keeps(H, O, t, {"Build successful", "Build failed"}) => EmberBuild(t) \in H
    BY <2>2, <2>3, EmberBuildKeeps, Zenon
  <2>5. QED
    BY <2>1, <2>3, <2>4, LeavesBy, Zenon
<1>6. CASE c = "ember serve"
  <2>1. Promise(c).keep = {"Serving on"} /\ Filter(c, t, d) = EmberServe(t)
    BY <1>1, <1>6, Zenon DEF PromiseBuilds, Nothing, FilterBuilds
  <2>2. Has(t, {"Serving on"})
    BY <2>1, Zenon
  <2>3. "line" \notin {}
    BY Zenon
  <2>4. \A H, O : Writes(O, {}, t) /\ Keeps(H, O, t, {"Serving on"}) => EmberServe(t) \in H
    BY <2>2, <2>3, EmberServeKeeps, Zenon
  <2>5. QED
    BY <2>1, <2>3, <2>4, LeavesBy, Zenon
<1>7. CASE c \notin {"webpack", "turbo", "nx", "ember build", "ember serve"}
  <2>1. PromiseBuilds(c).keep = {}
    BY <1>7, Zenon DEF PromiseBuilds, Nothing
  <2>2. QED
    BY <1>1, <2>1, Zenon
<1>8. QED
  BY <1>2, <1>3, <1>4, <1>5, <1>6, <1>7, Zenon

\* Of an output with a line that must stay, the filters of the linters leave one.
LEMMA LintsLeave ==
  ASSUME NEW t \in Seq(LineKind), NEW d, NEW c \in Lints,
         c \notin DOMAIN Unknown, c \notin Loose, Has(t, Promise(c).keep), ~Has(t, Settled)
  PROVE  Promise(c).keep = {} \/ Leaves(c, t, d)
<1>1. Filter(c, t, d) = FilterLints(c, t) /\ Promise(c) = PromiseLints(c)
  BY LintsAre, Zenon
<1>2. CASE c = "clippy"
  <2>1. Promise(c).keep = {"error: aborting", "2 warnings emitted"} /\ Filter(c, t, d) = Clippy(t)
    BY <1>1, <1>2, Zenon DEF PromiseLints, Nothing, FilterLints
  <2>2. Has(t, {"error: aborting", "2 warnings emitted"})
    BY <2>1, Zenon
  <2> DEFINE N == {"clippy warnings", "more"}
  <2>3. "line" \notin N /\ {"clippy warnings", "more"} \subseteq N
    BY Zenon
  <2> HIDE DEF N
  <2>4. \A H, O : Writes(O, N, t) /\ Keeps(H, O, t, {"error: aborting", "2 warnings emitted"}) => Clippy(t) \in H
    BY <2>2, <2>3, ClippyKeeps, Zenon
  <2>5. QED
    BY <2>1, <2>3, <2>4, LeavesBy, Zenon
<1>3. CASE c = "eslint"
  <2>1. Promise(c).keep = {"2 problems"} /\ Filter(c, t, d) = Eslint(t)
    BY <1>1, <1>3, Zenon DEF PromiseLints, Nothing, FilterLints
  <2>2. Has(t, {"2 problems"})
    BY <2>1, Zenon
  <2> DEFINE N == {"more errors"}
  <2>3. "line" \notin N /\ {"more errors"} \subseteq N
    BY Zenon
  <2> HIDE DEF N
  <2>4. \A H, O : Writes(O, N, t) /\ Keeps(H, O, t, {"2 problems"}) => Eslint(t) \in H
    BY <2>2, <2>3, EslintKeeps, Zenon
  <2>5. QED
    BY <2>1, <2>3, <2>4, LeavesBy, Zenon
<1>4. CASE c = "stylelint"
  <2>1. Promise(c).keep = {"2 problems"} /\ Filter(c, t, d) = Stylelint(t)
    BY <1>1, <1>4, Zenon DEF PromiseLints, Nothing, FilterLints
  <2>2. Has(t, {"2 problems"}) /\ ~Has(t, {"0 problems"})
    BY <2>1, Zenon DEF Has, Settled
  <2> DEFINE N == {"more issues"}
  <2>3. "line" \notin N /\ {"more issues"} \subseteq N
    BY Zenon
  <2> HIDE DEF N
  <2>4. \A H, O : Writes(O, N, t) /\ Keeps(H, O, t, {"2 problems"}) => Stylelint(t) \in H
    BY <2>2, <2>3, StylelintKeeps, Zenon
  <2>5. QED
    BY <2>1, <2>3, <2>4, LeavesBy, Zenon
<1>5. CASE c = "ruff check"
  <2>1. Promise(c).keep = {"Found 2 errors"} /\ Filter(c, t, d) = RuffCheck(t)
    BY <1>1, <1>5, Zenon DEF PromiseLints, Nothing, FilterLints
  <2>2. Has(t, {"Found 2 errors"}) /\ ~Has(t, {"All checks passed."})
    BY <2>1, Zenon DEF Has, Settled
  <2> DEFINE N == {"E501", "F401", "and more"}
  <2>3. "line" \notin N /\ {"E501", "F401", "and more"} \subseteq N
    BY Zenon
  <2> HIDE DEF N
  <2>4. \A H, O : Writes(O, N, t) /\ Keeps(H, O, t, {"Found 2 errors"}) => RuffCheck(t) \in H
    BY <2>2, <2>3, RuffCheckKeeps, Zenon
  <2>5. QED
    BY <2>1, <2>3, <2>4, LeavesBy, Zenon
<1>6. CASE c = "ruff format"
  <2>1. Promise(c).keep = {"2 files reformatted"} /\ Filter(c, t, d) = RuffFormat(t)
    BY <1>1, <1>6, Zenon DEF PromiseLints, Nothing, FilterLints
  <2>2. Has(t, {"2 files reformatted"})
    BY <2>1, Zenon
  <2>3. "line" \notin {}
    BY Zenon
  <2>4. \A H, O : Writes(O, {}, t) /\ Keeps(H, O, t, {"2 files reformatted"}) => RuffFormat(t) \in H
    BY <2>2, <2>3, RuffFormatKeeps, Zenon
  <2>5. QED
    BY <2>1, <2>3, <2>4, LeavesBy, Zenon
<1>7. CASE c = "mypy"
  <2>1. Promise(c).keep = {"Found 1 error"} /\ Filter(c, t, d) = Mypy(t)
    BY <1>1, <1>7, Zenon DEF PromiseLints, Nothing, FilterLints
  <2>2. Has(t, {"Found 1 error"}) /\ ~Has(t, {"Success: no issues found"})
    BY <2>1, Zenon DEF Has, Settled
  <2> DEFINE N == {"a.py", "b.py", "more in file", "mypy: errors"}
  <2>3. "line" \notin N /\ {"a.py", "b.py", "more in file", "mypy: errors"} \subseteq N
    BY Zenon
  <2> HIDE DEF N
  <2>4. \A H, O : Writes(O, N, t) /\ Keeps(H, O, t, {"Found 1 error"}) => Mypy(t) \in H
    BY <2>2, <2>3, MypyKeeps, Zenon
  <2>5. QED
    BY <2>1, <2>3, <2>4, LeavesBy, Zenon
<1>8. CASE c = "biome"
  <2>1. Promise(c).keep = {"Found 1 diagnostics"} /\ Filter(c, t, d) = Biome(t)
    BY <1>1, <1>8, Zenon DEF PromiseLints, Nothing, FilterLints
  <2>2. Has(t, {"Found 1 diagnostics"})
    BY <2>1, Zenon
  <2>3. "line" \notin {}
    BY Zenon
  <2>4. \A H, O : Writes(O, {}, t) /\ Keeps(H, O, t, {"Found 1 diagnostics"}) => Biome(t) \in H
    BY <2>2, <2>3, BiomeKeeps, Zenon
  <2>5. QED
    BY <2>1, <2>3, <2>4, LeavesBy, Zenon
<1>9. CASE c = "prettier --check"
  <2>1. Promise(c).keep = {"SyntaxError"} /\ Filter(c, t, d) = Prettier(t, "--check")
    BY <1>1, <1>9, Zenon DEF PromiseLints, Nothing, FilterLints
  <2>2. Has(t, {"SyntaxError"})
    BY <2>1, Zenon
  <2>3. "line" \notin {}
    BY Zenon
  <2>4. \A H, O : Writes(O, {}, t) /\ Keeps(H, O, t, {"SyntaxError"}) => Prettier(t, "--check") \in H
    BY <2>2, <2>3, PrettierKeeps, Zenon
  <2>5. QED
    BY <2>1, <2>3, <2>4, LeavesBy, Zenon
<1>10. CASE c \notin {"clippy", "eslint", "stylelint", "ruff check", "ruff format", "mypy", "biome", "prettier --check"}
  <2>1. PromiseLints(c).keep = {}
    BY <1>10, Zenon DEF PromiseLints, Nothing
  <2>2. QED
    BY <1>1, <2>1, Zenon
<1>11. QED
  BY <1>2, <1>3, <1>4, <1>5, <1>6, <1>7, <1>8, <1>9, <1>10, Zenon

\* Of an output with a line that must stay, the filters of the package managers leave one.
LEMMA PackagesLeave ==
  ASSUME NEW t \in Seq(LineKind), NEW d, NEW c \in PackageCommands,
         c \notin DOMAIN Unknown, c \notin Loose, Has(t, Promise(c).keep), ~Has(t, Settled)
  PROVE  Promise(c).keep = {} \/ Leaves(c, t, d)
<1>1. Filter(c, t, d) = FilterPackages(c, t) /\ Promise(c) = PromisePackages(c)
  BY PackageCommandsAre, Zenon
<1>2. CASE c = "npm install"
  <2>1. Promise(c).keep = {"3 vulnerabilities"} /\ Filter(c, t, d) = NpmInstall(t)
    BY <1>1, <1>2, Zenon DEF PromisePackages, Nothing, FilterPackages
  <2>2. Has(t, {"3 vulnerabilities"})
    BY <2>1, Zenon
  <2> DEFINE N == {"install complete"}
  <2>3. "line" \notin N /\ {"install complete"} \subseteq N
    BY Zenon
  <2> HIDE DEF N
  <2>4. \A H, O : Writes(O, N, t) /\ Keeps(H, O, t, {"3 vulnerabilities"}) => NpmInstall(t) \in H
    BY <2>2, <2>3, NpmInstallKeeps, Zenon
  <2>5. QED
    BY <2>1, <2>3, <2>4, LeavesBy, Zenon
<1>3. CASE c = "npm test"
  <2>1. Promise(c).keep = {"1 failing", "1 passed", "1 failed"} /\ Filter(c, t, d) = NpmTest(t)
    BY <1>1, <1>3, Zenon DEF PromisePackages, Nothing, FilterPackages
  <2>2. Has(t, {"1 failing", "1 passed", "1 failed"})
    BY <2>1, Zenon
  <2>3. "line" \notin {}
    BY Zenon
  <2>4. \A H, O : Writes(O, {}, t) /\ Keeps(H, O, t, {"1 failing", "1 passed", "1 failed"}) => NpmTest(t) \in H
    BY <2>2, <2>3, NpmTestKeeps, Zenon
  <2>5. QED
    BY <2>1, <2>3, <2>4, LeavesBy, Zenon
<1>4. CASE c = "pnpm run"
  <2>1. Promise(c).keep = {"error"} /\ Filter(c, t, d) = PnpmRun(t)
    BY <1>1, <1>4, Zenon DEF PromisePackages, Nothing, FilterPackages
  <2>2. Has(t, {"error"}) /\ ~Has(t, JsReport) /\ ~Has(t, {"Test Files 1 failed"}) /\ ~Has(t, {"Test Suites:"})
    BY <2>1, Zenon DEF Has, Settled
  <2> DEFINE N == {"lines of output"}
  <2>3. "line" \notin N /\ {"lines of output"} \subseteq N
    BY Zenon
  <2> HIDE DEF N
  <2>4. \A H, O : Writes(O, N, t) /\ Keeps(H, O, t, {"error"}) => PnpmRun(t) \in H
    BY <2>2, <2>3, PnpmRunKeeps, Zenon
  <2>5. QED
    BY <2>1, <2>3, <2>4, LeavesBy, Zenon
<1>5. CASE c = "npm audit"
  <2>1. Promise(c).keep = {"3 vulnerabilities"} /\ Filter(c, t, d) = NpmAudit(t)
    BY <1>1, <1>5, Zenon DEF PromisePackages, Nothing, FilterPackages
  <2>2. Has(t, {"3 vulnerabilities"}) /\ ~Has(t, {"found 0 vulnerabilities", "10 vulnerabilities"})
    BY <2>1, Zenon DEF Has, Settled
  <2> DEFINE N == {"package"}
  <2>3. "line" \notin N /\ {"package"} \subseteq N
    BY Zenon
  <2> HIDE DEF N
  <2>4. \A H, O : Writes(O, N, t) /\ Keeps(H, O, t, {"3 vulnerabilities"}) => NpmAudit(t) \in H
    BY <2>2, <2>3, NpmAuditKeeps, Zenon
  <2>5. QED
    BY <2>1, <2>3, <2>4, LeavesBy, Zenon
<1>6. CASE c = "prisma"
  <2>1. Promise(c).keep = {"Error"} /\ Filter(c, t, d) = PrismaOther(t)
    BY <1>1, <1>6, Zenon DEF PromisePackages, Nothing, FilterPackages
  <2>2. Has(t, {"Error"})
    BY <2>1, Zenon
  <2>3. "line" \notin {}
    BY Zenon
  <2>4. \A H, O : Writes(O, {}, t) /\ Keeps(H, O, t, {"Error"}) => PrismaOther(t) \in H
    BY <2>2, <2>3, PrismaOtherKeeps, Zenon
  <2>5. QED
    BY <2>1, <2>3, <2>4, LeavesBy, Zenon
<1>7. CASE c \notin {"npm install", "npm test", "pnpm run", "npm audit", "prisma"}
  <2>1. PromisePackages(c).keep = {}
    BY <1>7, Zenon DEF PromisePackages, Nothing, Loose
  <2>2. QED
    BY <1>1, <2>1, Zenon
<1>8. QED
  BY <1>2, <1>3, <1>4, <1>5, <1>6, <1>7, Zenon

\* Of an output with a line that must stay, the filters of files and git leave one.
LEMMA FilesLeave ==
  ASSUME NEW t \in Seq(LineKind), NEW d, NEW c \in FileCommands,
         c \notin DOMAIN Unknown, c \notin Loose, Has(t, Promise(c).keep), ~Has(t, Settled)
  PROVE  Promise(c).keep = {} \/ Leaves(c, t, d)
<1>1. Filter(c, t, d) = FilterFiles(c, t, d) /\ Promise(c) = PromiseFiles(c)
  BY FileCommandsAre, Zenon
<1>2. CASE c = "tree"
  <2>1. Promise(c).keep = {"2 directories, 3 files"} /\ Filter(c, t, d) = Tree(t)
    BY <1>1, <1>2, Zenon DEF PromiseFiles, Nothing, FilterFiles
  <2>2. Has(t, {"2 directories, 3 files"})
    BY <2>1, Zenon
  <2> DEFINE N == {"more entries"}
  <2>3. "line" \notin N /\ {"more entries"} \subseteq N
    BY Zenon
  <2> HIDE DEF N
  <2>4. \A H, O : Writes(O, N, t) /\ Keeps(H, O, t, {"2 directories, 3 files"}) => Tree(t) \in H
    BY <2>2, <2>3, TreeKeeps, Zenon
  <2>5. QED
    BY <2>1, <2>3, <2>4, LeavesBy, Zenon
<1>3. CASE c = "git commit"
  <2>1. Promise(c).keep = {"[main 1a2b3c]"} /\ Filter(c, t, d) = FilterCommit(t)
    BY <1>1, <1>3, Zenon DEF PromiseFiles, Nothing, FilterFiles
  <2>2. Has(t, {"[main 1a2b3c]"})
    BY <2>1, Zenon
  <2> DEFINE N == {"ok"}
  <2>3. "line" \notin N /\ {"ok"} \subseteq N
    BY Zenon
  <2> HIDE DEF N
  <2>4. \A H, O : Writes(O, N, t) /\ Keeps(H, O, t, {"[main 1a2b3c]"}) => FilterCommit(t) \in H
    BY <2>2, <2>3, FilterCommitKeeps, Zenon
  <2>5. QED
    BY <2>1, <2>3, <2>4, LeavesBy, Zenon
<1>4. CASE c \notin {"tree", "git commit"}
  <2>1. PromiseFiles(c).keep = {}
    BY <1>4, Zenon DEF PromiseFiles, Nothing
  <2>2. QED
    BY <1>1, <2>1, Zenon
<1>5. QED
  BY <1>2, <1>3, <1>4, Zenon

\* Of an output with a line that must stay, the filters of the services leave one.
LEMMA ServicesLeave ==
  ASSUME NEW t \in Seq(LineKind), NEW d, NEW c, c \notin Tests \cup Builds \cup Lints \cup PackageCommands \cup FileCommands,
         c \notin DOMAIN Unknown, c \notin Loose, Has(t, Promise(c).keep), ~Has(t, Settled)
  PROVE  Promise(c).keep = {} \/ Leaves(c, t, d)
<1>1. Filter(c, t, d) = FilterServices(c, t) /\ Promise(c) = PromiseServices(c)
  BY ServicesAre, Zenon
<1>2. CASE c = "kubectl describe"
  <2>1. Promise(c).keep = {"Events:"} /\ Filter(c, t, d) = KubectlDescribe(t)
    BY <1>1, <1>2, Zenon DEF PromiseServices, Nothing, FilterServices
  <2>2. Has(t, {"Events:"})
    BY <2>1, Zenon
  <2> DEFINE N == {"annotations"}
  <2>3. "line" \notin N /\ {"annotations"} \subseteq N
    BY Zenon
  <2> HIDE DEF N
  <2>4. \A H, O : Writes(O, N, t) /\ Keeps(H, O, t, {"Events:"}) => KubectlDescribe(t) \in H
    BY <2>2, <2>3, KubectlDescribeKeeps, Zenon
  <2>5. QED
    BY <2>1, <2>3, <2>4, LeavesBy, Zenon
<1>3. CASE c = "helm install"
  <2>1. Promise(c).keep = {"Error:"} /\ Filter(c, t, d) = HelmDeploy(t)
    BY <1>1, <1>3, Zenon DEF PromiseServices, Nothing, FilterServices
  <2>2. Has(t, {"Error:"})
    BY <2>1, Zenon
  <2>3. "line" \notin {}
    BY Zenon
  <2>4. \A H, O : Writes(O, {}, t) /\ Keeps(H, O, t, {"Error:"}) => HelmDeploy(t) \in H
    BY <2>2, <2>3, HelmKeeps, Zenon
  <2>5. QED
    BY <2>1, <2>3, <2>4, LeavesBy, Zenon
<1>4. CASE c = "helm status"
  <2>1. Promise(c).keep = {"Error:"} /\ Filter(c, t, d) = HelmStatus(t)
    BY <1>1, <1>4, Zenon DEF PromiseServices, Nothing, FilterServices
  <2>2. Has(t, {"Error:"})
    BY <2>1, Zenon
  <2>3. "line" \notin {}
    BY Zenon
  <2>4. \A H, O : Writes(O, {}, t) /\ Keeps(H, O, t, {"Error:"}) => HelmStatus(t) \in H
    BY <2>2, <2>3, HelmKeeps, Zenon
  <2>5. QED
    BY <2>1, <2>3, <2>4, LeavesBy, Zenon
<1>5. CASE c = "terraform state show"
  <2>1. Promise(c).keep = {"resource a"} /\ Filter(c, t, d) = TerraformStateShow(t)
    BY <1>1, <1>5, Zenon DEF PromiseServices, Nothing, FilterServices
  <2>2. Has(t, {"resource a"})
    BY <2>1, Zenon
  <2>3. "line" \notin {}
    BY Zenon
  <2>4. \A H, O : Writes(O, {}, t) /\ Keeps(H, O, t, {"resource a"}) => TerraformStateShow(t) \in H
    BY <2>2, <2>3, TerraformStateShowKeeps, Zenon
  <2>5. QED
    BY <2>1, <2>3, <2>4, LeavesBy, Zenon
<1>6. CASE c = "aws s3 ls"
  <2>1. Promise(c).keep = {"PRE a/"} /\ Filter(c, t, d) = AwsS3Ls(t)
    BY <1>1, <1>6, Zenon DEF PromiseServices, Nothing, FilterServices
  <2>2. Has(t, {"PRE a/"})
    BY <2>1, Zenon
  <2> DEFINE N == {"objects"}
  <2>3. "line" \notin N /\ {"objects"} \subseteq N
    BY Zenon
  <2> HIDE DEF N
  <2>4. \A H, O : Writes(O, N, t) /\ Keeps(H, O, t, {"PRE a/"}) => AwsS3Ls(t) \in H
    BY <2>2, <2>3, AwsS3LsKeeps, Zenon
  <2>5. QED
    BY <2>1, <2>3, <2>4, LeavesBy, Zenon
<1>7. CASE c = "gh pr view"
  <2>1. Promise(c).keep = {"title:"} /\ Filter(c, t, d) = GhPrView(t)
    BY <1>1, <1>7, Zenon DEF PromiseServices, Nothing, FilterServices
  <2>2. Has(t, {"title:"})
    BY <2>1, Zenon
  <2>3. "line" \notin {}
    BY Zenon
  <2>4. \A H, O : Writes(O, {}, t) /\ Keeps(H, O, t, {"title:"}) => GhPrView(t) \in H
    BY <2>2, <2>3, GhPrViewKeeps, Zenon
  <2>5. QED
    BY <2>1, <2>3, <2>4, LeavesBy, Zenon
<1>8. CASE c \notin {"kubectl describe", "helm install", "helm status", "terraform state show", "aws s3 ls", "gh pr view"}
  <2>1. PromiseServices(c).keep = {}
    BY <1>8, Zenon DEF PromiseServices, Nothing, Loose
  <2>2. QED
    BY <1>1, <2>1, Zenon
<1>9. QED
  BY <1>2, <1>3, <1>4, <1>5, <1>6, <1>7, <1>8, Zenon

-----------------------------------------------------------------------------
\* From these commands to the hook.

\* Every filter of a command not left out leaves a line that must stay.
LEMMA EachLeaves ==
  ASSUME NEW t \in Seq(LineKind), NEW d, NEW c, c \notin DOMAIN Unknown, c \notin Loose,
         Has(t, Promise(c).keep), ~Has(t, Settled)
  PROVE  Promise(c).keep = {} \/ Leaves(c, t, d)
<1>1. CASE c \in Tests
  BY <1>1, TestsLeave, Zenon
<1>2. CASE c \in Builds
  BY <1>2, BuildsLeave, Zenon
<1>3. CASE c \in Lints
  BY <1>3, LintsLeave, Zenon
<1>4. CASE c \in PackageCommands
  BY <1>4, PackagesLeave, Zenon
<1>5. CASE c \in FileCommands
  BY <1>5, FilesLeave, Zenon
<1>6. CASE c \notin Tests \cup Builds \cup Lints \cup PackageCommands \cup FileCommands
  BY <1>6, ServicesLeave, Zenon
<1>7. QED
  BY <1>1, <1>2, <1>3, <1>4, <1>5, <1>6, Zenon

\* A line that a filter leaves is shown by its number in the whole output.
LEMMA ThroughLeaves ==
  ASSUME NEW t, NEW K, NEW N, NEW left \in Seq(1..Len(t)), NEW u, DOMAIN u = DOMAIN left,
         \A j \in DOMAIN left : u[j] = t[left[j]],
         NEW r \in Showing(Outputs(N, Len(u)), u, K)
  PROVE  \E j \in DOMAIN Through(Lines(left), r) :
            /\ Through(Lines(left), r)[j][1] = "line"
            /\ t[Through(Lines(left), r)[j][2]] \in K
<1> DEFINE o == Through(Lines(left), r)
<1>1. DOMAIN o = DOMAIN r /\ \A j \in DOMAIN r : o[j] = IF r[j][1] = "line" THEN Lines(left)[r[j][2]] ELSE r[j]
  BY DEF Through
<1>2. \A i \in DOMAIN left : Lines(left)[i] = <<"line", left[i]>>
  BY Zenon DEF Lines, Line
<1>3. PICK j \in DOMAIN r : r[j][1] = "line" /\ r[j][2] \in DOMAIN u /\ u[r[j][2]] \in K
  BY Zenon DEF Showing
<1> DEFINE i == r[j][2]
<1> HIDE DEF o
<1>4. o[j] = <<"line", left[i]>> /\ t[left[i]] \in K
  BY <1>1, <1>2, <1>3, Zenon DEF i
<1> HIDE DEF i
<1>5. o[j][1] = "line" /\ o[j][2] = left[i]
  BY <1>4
<1>6. QED
  BY <1>1, <1>3, <1>4, <1>5, Zenon DEF o

\* The run is of a command not left out, the lines that must stay pass the noise store, and
\* the program says neither that nothing is wrong nor that the output is a test runner's.
Summed == /\ cmd \notin DOMAIN Unknown \cup Loose
          /\ Commands[cmd].runs = 1 \/ Promise(cmd).keep \subseteq Critical
          /\ ~Has(text, Settled)
\* The inductive invariant, as for the reports.
SummaryInv ==
  /\ cmd # "" => cmd \in DOMAIN Commands
  /\ text \in Seq(LineKind)
  /\ cmd = "" => out = Running
  /\ (cmd # "" => Commands[cmd].runs = 1) => noise = NoStore
  /\ Summed => SummaryKept

\* The step in which a command ends and its output is shown.
LEMMA ExitLeaves ==
  ASSUME SummaryInv, Exit, Summed'
  PROVE  SummaryKept'
<1> DEFINE left == Where(text, LAMBDA i : text[i] \in Critical \/ ~Promoted(noise, text[i]))
           u == ApplyPreFilter(noise, text)
           K == Promise(cmd).keep
<1>1. /\ left \in Seq(1..Len(text)) /\ u \in Seq(LineKind) /\ Len(left) = Len(u)
      /\ DOMAIN u = DOMAIN left /\ \A j \in DOMAIN left : u[j] = text[left[j]]
      /\ \A L : Has(u, L) => Has(text, L)
      /\ \A L : (noise = NoStore \/ L \subseteq Critical) /\ Has(text, L) => Has(u, L)
  BY PreFilterIs, Zenon DEF SummaryInv
<1>3. PICK r \in Results(cmd, u, dotgit) : out' = Through(Lines(left), r)
  BY Zenon DEF Exit
<1>4. cmd # "" /\ cmd' = cmd /\ text' = text
  BY Zenon DEF Exit
<1>5. /\ cmd \notin DOMAIN Unknown /\ cmd \notin Loose
      /\ Commands[cmd].runs = 1 \/ K \subseteq Critical
      /\ ~Has(text, Settled)
  BY <1>4, Zenon DEF Summed
<1>6. r = Filter(cmd, u, dotgit)
  BY <1>3, <1>5, Zenon DEF Results
<1>7. CASE ~Has(text, K)
  BY <1>4, <1>7, Zenon DEF SummaryKept
<1>8. CASE Has(text, K)
  <2>1. noise = NoStore \/ K \subseteq Critical
    BY <1>4, <1>5, Zenon DEF SummaryInv
  <2>2. Has(u, K) /\ ~Has(u, Settled) /\ K # {}
    BY <1>1, <1>5, <1>8, <2>1, Zenon DEF Has
  <2> HIDE DEF u, left
  <2>3. Leaves(cmd, u, dotgit)
    BY <1>1, <1>5, <2>2, EachLeaves, Zenon
  <2>4. PICK N : r \in Showing(Outputs(N, Len(u)), u, K)
    BY <1>6, <2>3, Zenon DEF Leaves
  <2> HIDE DEF K
  <2>5. \E j \in DOMAIN out' : out'[j][1] = "line" /\ text[out'[j][2]] \in K
    BY <1>1, <1>3, <2>4, ThroughLeaves, Zenon
  <2>6. QED
    BY <1>4, <2>5, Zenon DEF SummaryKept, ShownOf, K
<1>9. QED
  BY <1>7, <1>8, Zenon

\* Every step keeps the invariant.
LEMMA SummaryNext ==
  ASSUME SummaryInv, [Next]_vars
  PROVE  SummaryInv'
<1>1. CASE Rewrite \/ Route \/ Hook \/ Run
  <2>1. UNCHANGED <<cmd, text, out, noise>>
    BY <1>1, Zenon DEF Rewrite, Route, Hook, Run
  <2>2. QED
    BY <2>1, Zenon DEF SummaryInv, Summed, SummaryKept, Exited, ShownOf
<1>2. ASSUME NEW c \in DOMAIN Commands, Launch(c)
      PROVE  SummaryInv'
  <2>1. cmd = "" /\ cmd' = c /\ UNCHANGED <<text, out, noise>>
    BY <1>2, Zenon DEF Launch
  <2>2. QED
    BY <2>1, Zenon DEF SummaryInv, SummaryKept, Exited
<1>3. ASSUME cmd # "", NEW block \in Commands[cmd].blocks, Emit(block)
      PROVE  SummaryInv'
  <2>1. text' = text \o block /\ out = Running /\ UNCHANGED <<cmd, out, noise>>
    BY <1>3, Zenon DEF Emit
  <2>2. block \in Seq(LineKind)
    BY <1>3, CommandsAssumption, Zenon DEF SummaryInv, LineKind
  <2>3. text' \in Seq(LineKind)
    <3>1. \A a, b \in Seq(LineKind) : a \o b \in Seq(LineKind)
      BY ConcatProperties, Zenon
    <3>2. QED
      BY <2>1, <2>2, <3>1, Zenon DEF SummaryInv
  <2>4. QED
    BY <2>1, <2>3, Zenon DEF SummaryInv, SummaryKept, Exited
<1>4. CASE Exit
  <2>1. cmd # "" /\ UNCHANGED <<cmd, text>> /\ (Commands[cmd].runs = 1 => noise' = noise)
    BY <1>4, Zenon DEF Exit
  <2>2. Summed' => SummaryKept'
    BY <1>4, ExitLeaves, Zenon
  <2>3. QED
    BY <2>1, <2>2, Zenon DEF SummaryInv
<1>5. CASE Again
  <2>1. text' = <<>> /\ out' = Running /\ UNCHANGED <<cmd, noise>>
    BY <1>5, Zenon DEF Again
  <2>2. <<>> \in Seq(LineKind)
    OBVIOUS
  <2>3. QED
    BY <2>1, <2>2, Zenon DEF SummaryInv, SummaryKept, Exited
<1>6. CASE UNCHANGED vars
  <2>1. UNCHANGED <<cmd, text, out, noise>>
    BY <1>6, Zenon DEF vars
  <2>2. QED
    BY <2>1, Zenon DEF SummaryInv, Summed, SummaryKept, Exited, ShownOf
<1>7. QED
  BY <1>1, <1>2, <1>3, <1>4, <1>5, <1>6, Zenon DEF Next

\* For every run of a command that is not left out, whatever the program writes and in
\* whatever order: of the lines that say how the command ended, one is shown to the agent.
\* The filters that answer for a program that reports nothing wrong, or hand a script's
\* output to a test runner's filter, are not asked to. When a command ran before, the lines
\* must be ones that are never taken for noise.
THEOREM SummariesStay == Spec => [](Summed => SummaryKept)
<1>1. Init => SummaryInv
  <2>1. <<>> \in Seq(LineKind)
    OBVIOUS
  <2>2. QED
    BY <2>1, Zenon DEF Init, SummaryInv, SummaryKept, Exited
<1>2. SummaryInv /\ [Next]_vars => SummaryInv'
  BY SummaryNext
<1>3. SummaryInv => (Summed => SummaryKept)
  BY DEF SummaryInv
<1>4. QED
  BY <1>1, <1>2, <1>3, PTL DEF Spec
=============================================================================
