-------------------------- MODULE ReplyStreamProofs --------------------------
(***************************************************************************)
(* For any number of messages, blocks and words, and any texts a message   *)
(* may bring whole: tab, payload and transcript of a run that ended well   *)
(* have what was said, and a first block that is, or may become, the       *)
(* silent token is not seen.                                               *)
(*                                                                         *)
(* The first part is about sequences: what trimming does to a text that    *)
(* grows, and what flattening does to a transcript that grows.             *)
(***************************************************************************)
EXTENDS ReplyStream, SequenceTheorems, WellFoundedInduction, TLAPS

Inside == at \in {"message", "thinking", "text"}

\* What the entries say, one after the other.
Flat(entries) == FlattenSeq([i \in DOMAIN entries |-> Words(entries[i])])

\* The context gathers what was said, and holds words back only for a message that is still to be
\* shown. The tab listens while the run goes on.
Gathered ==
    /\ ctx.text = spoken.said
    /\ ctx.suppressed => ctx.text /= <<>>
    /\ Inside => ctx.started \/ ctx.suppressed
    /\ ~ctx.buffering => ctx.held = <<>>
    /\ tab.streaming = (at /= "over")
    /\ at = "text" => spoken.blocks /= 0
    /\ spoken.whole \/ spoken.block /= <<>> => spoken.said /= <<>>

\* A run of which OutcomeIsSaid speaks, so far.
Good == ~spoken.silent /\ ~spoken.lost /\ ~spoken.failed

\* What the bubble shows, what waits for the timer and what is held back are together what was said.
TabFollows ==
    at /= "over" =>
        /\ ~ctx.suppressed
        /\ tab.bubble = tab.created /\ tab.shown = tab.content
        /\ ~tab.created => tab.content = <<>> /\ tab.delta = <<>>
        /\ (tab.content \o tab.delta) \o ctx.held = spoken.said
        /\ IF Inside THEN ctx.buffering \/ tab.created ELSE ~ctx.buffering

\* Nothing waits between two messages.
TabIsFlushed == ~Inside => tab.delta = <<>>

\* The transcript has what was said up to this message, and a call before each result.
FileFollows ==
    at /= "over" =>
        /\ (IF Inside THEN Flat(transcript) \o spoken.message ELSE Flat(transcript)) = spoken.said
        /\ writer.persisted \/ Flat(transcript) = <<>>
        /\ ~writer.suppressed
        /\ at \in {"message", "thinking"} => ~IsNoReply(writer.text)
        /\ \A i \in DOMAIN transcript :
              /\ transcript[i].type \in {"assistant", "toolResult"}
              /\ transcript[i].type = "toolResult" =>
                    i > 1 /\ transcript[i - 1].type = "assistant" /\ transcript[i - 1].calls
        /\ at = "tools" => /\ transcript /= <<>>
                           /\ transcript[Len(transcript)].type = "assistant"
                           /\ transcript[Len(transcript)].calls

Followed == Good => TabFollows /\ TabIsFlushed /\ FileFollows

\* A run of which SilenceKept speaks, so far.
First == (spoken.blocks = 0 \/ (spoken.blocks = 1 /\ ~spoken.whole)) /\ ~spoken.cut

Quiet == tab.shown = <<>> /\ tab.content = <<>> /\ tab.delta = <<>>

\* Nothing was said.
QuietBefore ==
    spoken.blocks = 0 /\ ~spoken.whole =>
        spoken.said = <<>> /\ ctx.held = <<>> /\ Quiet /\ (Inside => ctx.started /\ ctx.buffering)

\* The first block is being said, and may be the silent token.
QuietDuring ==
    at = "text" /\ First =>
        /\ spoken.said = spoken.block
        /\ PossibleNoReply(spoken.said) => Quiet /\ ctx.started /\ ctx.buffering

\* It was the silent token.
QuietAfter ==
    at /= "text" /\ First /\ IsNoReply(spoken.said) =>
        /\ Quiet
        /\ at /= "over" => ctx.suppressed
        /\ at = "over" => spoken.failed \/ ~tab.bubble

Silence == QuietBefore /\ QuietDuring /\ QuietAfter

IInv == TypeOK /\ Gathered /\ Followed /\ OutcomeIsSaid /\ Silence
-----------------------------------------------------------------------------
(******************************* numbers ***********************************)

\* A set of numbers that is not empty has a least one.
LEMMA LeastNumber ==
    ASSUME NEW S \in SUBSET Nat, S # {}
    PROVE  \E n \in S : \A m \in S : n <= m
<1> DEFINE Less == {p \in Nat \X Nat : p[1] < p[2]}
<1>1. IsWellFoundedOn(Less, Nat)
  BY NatLessThanWellFounded, Zenon DEF OpToRel
<1>2. \A a, b \in Nat : a < b => <<a, b>> \in Less
  OBVIOUS
<1> HIDE DEF Less
<1>3. PICK n \in S : \A m \in S : ~(<<m, n>> \in Less)
  BY <1>1, WFMin
<1>4. \A m \in S : ~(m < n)
  BY <1>2, <1>3
<1>5. \A a, b \in Nat : ~(a < b) => b <= a
  OBVIOUS
<1>6. QED
  BY <1>3, <1>4, <1>5

\* Min is that one.
LEMMA MinIsLeast ==
    ASSUME NEW S \in SUBSET Nat, S # {}
    PROVE  Min(S) \in S /\ \A m \in S : Min(S) <= m
  BY LeastNumber DEF Min
-----------------------------------------------------------------------------
(******************************** trimming *********************************)

WordsOf(s) == {i \in DOMAIN s : s[i] # Blank}

\* Positions are numbers, so that Min speaks of them.
LEMMA WordsAreNumbers == ASSUME NEW s \in Seq(Tokens) PROVE WordsOf(s) \in SUBSET Nat
  BY DEF WordsOf

\* trimStart leaves nothing of blanks, and else what begins with the first word.
LEMMA TrimStartIs ==
    ASSUME NEW s \in Seq(Tokens)
    PROVE  /\ WordsOf(s) = {} => TrimStart(s) = <<>>
           /\ WordsOf(s) # {} => /\ TrimStart(s) = SubSeq(s, Min(WordsOf(s)), Len(s))
                                 /\ Min(WordsOf(s)) \in 1 .. Len(s)
           /\ TrimStart(s) \in Seq(Tokens)
<1>1. CASE WordsOf(s) = {}
  BY <1>1 DEF TrimStart, WordsOf
<1>2. CASE WordsOf(s) # {}
  <2>1. Min(WordsOf(s)) \in 1 .. Len(s)
    <3>1. Min(WordsOf(s)) \in WordsOf(s)
      BY <1>2, WordsAreNumbers, MinIsLeast
    <3>2. WordsOf(s) \subseteq 1 .. Len(s)
      BY DEF WordsOf
    <3>3. QED
      BY <3>1, <3>2
  <2>2. TrimStart(s) = SubSeq(s, Min(WordsOf(s)), Len(s))
    BY <1>2 DEF TrimStart, WordsOf
  <2>3. QED
    BY <1>2, <2>1, <2>2
<1>3. QED
  BY <1>1, <1>2

\* A word at the front keeps the whole text.
LEMMA TrimStartKeeps ==
    ASSUME NEW s \in Seq(Tokens), s # <<>>, s[1] # Blank
    PROVE  TrimStart(s) = s
<1>1. 1 \in WordsOf(s)
  BY DEF WordsOf
<1>2. Min(WordsOf(s)) = 1
  <2>1. Min(WordsOf(s)) \in 1 .. Len(s) /\ Min(WordsOf(s)) <= 1
    BY <1>1, TrimStartIs, WordsAreNumbers, MinIsLeast
  <2>2. QED
    BY <2>1
<1>3. TrimStart(s) = SubSeq(s, 1, Len(s))
  BY <1>1, <1>2, TrimStartIs
<1>4. SubSeq(s, 1, Len(s)) = s
  OBVIOUS
<1>5. QED
  BY <1>3, <1>4

\* Reverse gives a text of the same length.
LEMMA ReverseTyped ==
    ASSUME NEW s \in Seq(Tokens)
    PROVE  Reverse(s) \in Seq(Tokens) /\ Len(Reverse(s)) = Len(s)
           /\ \A i \in 1 .. Len(s) : Reverse(s)[i] = s[Len(s) - i + 1]
  BY DEF Reverse

\* A text that grows by a token at the end grows by it at the front when reversed.
LEMMA ReverseAppend ==
    ASSUME NEW s \in Seq(Tokens), NEW x \in Tokens
    PROVE  Reverse(Append(s, x)) = <<x>> \o Reverse(s)
<1> DEFINE r == Reverse(Append(s, x))
           q == <<x>> \o Reverse(s)
<1>1. r \in Seq(Tokens) /\ Len(r) = Len(s) + 1 /\ \A i \in 1 .. Len(s) + 1 :
         r[i] = Append(s, x)[Len(s) + 1 - i + 1]
  <2> DEFINE t == Append(s, x)
  <2>1. t \in Seq(Tokens) /\ Len(t) = Len(s) + 1
    OBVIOUS
  <2> HIDE DEF t
  <2>2. Reverse(t) \in Seq(Tokens) /\ Len(Reverse(t)) = Len(t)
        /\ \A i \in 1 .. Len(t) : Reverse(t)[i] = t[Len(t) - i + 1]
    BY <2>1, ReverseTyped
  <2>3. QED
    BY <2>1, <2>2 DEF t
<1>2. q \in Seq(Tokens) /\ Len(q) = Len(s) + 1 /\ q[1] = x
      /\ \A i \in 1 .. Len(s) : q[i + 1] = Reverse(s)[i]
  BY ReverseTyped
<1>3. \A i \in 1 .. Len(s) + 1 : r[i] = q[i]
  <2> SUFFICES ASSUME NEW i \in 1 .. Len(s) + 1 PROVE r[i] = q[i]
    OBVIOUS
  <2> HIDE DEF r, q
  <2>1. CASE i = 1
    BY <1>1, <1>2, <2>1
  <2>2. CASE i # 1
    <3>1. PICK j \in 1 .. Len(s) : i = j + 1
      <4>1. i - 1 \in 1 .. Len(s) /\ i = (i - 1) + 1
        BY <2>2
      <4>2. QED
        BY <4>1
    <3>2. q[i] = s[Len(s) - j + 1]
      BY <1>2, <3>1, ReverseTyped
    <3>3. r[i] = s[Len(s) - j + 1]
      BY <1>1, <3>1
    <3>4. QED
      BY <3>2, <3>3
  <2>3. QED
    BY <2>1, <2>2
<1>4. QED
  <2> HIDE DEF r, q
  <2>1. r = q
    BY <1>1, <1>2, <1>3
  <2>2. QED
    BY <2>1 DEF r, q

\* A blank at the front makes no difference to trimStart.
LEMMA TrimStartBlank ==
    ASSUME NEW s \in Seq(Tokens)
    PROVE  TrimStart(<<Blank>> \o s) = TrimStart(s)
<1> DEFINE q == <<Blank>> \o s
<1>0. Blank \in Tokens
  BY Zenon DEF Blank, Tokens
<1>1. q \in Seq(Tokens) /\ Len(q) = Len(s) + 1 /\ q[1] = Blank
      /\ \A i \in 1 .. Len(s) : q[i + 1] = s[i]
  BY <1>0
<1> HIDE DEF q
<1>2. /\ \A i \in WordsOf(s) : i + 1 \in WordsOf(q)
      /\ \A j \in WordsOf(q) : j - 1 \in WordsOf(s) /\ j \in Nat
  <2>1. \A i \in WordsOf(s) : i + 1 \in WordsOf(q)
    BY <1>1 DEF WordsOf
  <2>2. ASSUME NEW j \in WordsOf(q) PROVE j - 1 \in WordsOf(s) /\ j \in Nat
    <3>1. j \in 1 .. Len(s) + 1 /\ q[j] # Blank /\ j # 1
      BY <1>1 DEF WordsOf
    <3>2. j - 1 \in 1 .. Len(s) /\ (j - 1) + 1 = j
      BY <3>1
    <3>3. QED
      BY <1>1, <3>1, <3>2 DEF WordsOf
  <2>3. QED
    BY <2>1, <2>2
<1>3. CASE WordsOf(s) = {}
  <2>1. WordsOf(q) = {}
    BY <1>2, <1>3
  <2>2. QED
    BY <1>1, <1>3, <2>1, TrimStartIs DEF q
<1>4. CASE WordsOf(s) # {}
  <2> DEFINE m == Min(WordsOf(s))
             n == Min(WordsOf(q))
  <2>1. WordsOf(q) # {}
    BY <1>2, <1>4
  <2>2. m \in WordsOf(s) /\ m \in 1 .. Len(s) /\ \A k \in WordsOf(s) : m <= k
    BY <1>4, TrimStartIs, WordsAreNumbers, MinIsLeast
  <2>3. n \in WordsOf(q) /\ n \in 1 .. Len(q) /\ \A k \in WordsOf(q) : n <= k
    BY <1>1, <2>1, TrimStartIs, WordsAreNumbers, MinIsLeast
  <2>4. TrimStart(s) = SubSeq(s, m, Len(s)) /\ TrimStart(q) = SubSeq(q, n, Len(q))
    BY <1>1, <1>4, <2>1, TrimStartIs
  <2> HIDE DEF m, n
  <2>5. n = m + 1
    <3>1. n <= m + 1
      BY <1>2, <2>2, <2>3
    <3>2. m <= n - 1
      BY <1>2, <2>2, <2>3
    <3>3. QED
      BY <2>2, <2>3, <3>1, <3>2
  <2>6. SubSeq(q, m + 1, Len(s) + 1) = SubSeq(s, m, Len(s))
    <3>1. \A i \in 1 .. Len(s) - m + 1 : q[(m + 1) + i - 1] = s[m + i - 1]
      <4> SUFFICES ASSUME NEW i \in 1 .. Len(s) - m + 1
                   PROVE  q[(m + 1) + i - 1] = s[m + i - 1]
        OBVIOUS
      <4>1. m + i - 1 \in 1 .. Len(s) /\ (m + i - 1) + 1 = (m + 1) + i - 1
        BY <2>2
      <4>2. QED
        BY <1>1, <4>1
    <3>2. QED
      BY <1>1, <2>2, <3>1
  <2>7. QED
    BY <1>1, <2>4, <2>5, <2>6 DEF q
<1>5. QED
  BY <1>3, <1>4

\* What trimStart leaves of a text that grows by a token.
LEMMA TrimStartGrows ==
    ASSUME NEW s \in Seq(Tokens), NEW x \in Tokens, WordsOf(s) # {}
    PROVE  TrimStart(Append(s, x)) = Append(TrimStart(s), x)
<1> DEFINE q == Append(s, x)
           m == Min(WordsOf(s))
           n == Min(WordsOf(q))
<1>1. q \in Seq(Tokens) /\ Len(q) = Len(s) + 1 /\ \A i \in 1 .. Len(s) : q[i] = s[i]
  OBVIOUS
<1> HIDE DEF q
<1>2. WordsOf(s) \subseteq WordsOf(q) /\ \A i \in WordsOf(q) : i \in 1 .. Len(s) => i \in WordsOf(s)
  BY <1>1 DEF WordsOf
<1>3. m \in WordsOf(s) /\ m \in 1 .. Len(s) /\ \A k \in WordsOf(s) : m <= k
  BY TrimStartIs, WordsAreNumbers, MinIsLeast
<1>4. n \in WordsOf(q) /\ n \in 1 .. Len(q) /\ \A k \in WordsOf(q) : n <= k
  BY <1>1, <1>2, TrimStartIs, WordsAreNumbers, MinIsLeast
<1>5. TrimStart(s) = SubSeq(s, m, Len(s)) /\ TrimStart(q) = SubSeq(q, n, Len(q))
  BY <1>1, <1>2, TrimStartIs
<1> HIDE DEF m, n
<1>6. n = m
  <2>1. n <= m
    BY <1>2, <1>3, <1>4
  <2>2. n \in 1 .. Len(s)
    BY <1>1, <1>3, <1>4, <2>1
  <2>3. m <= n
    BY <1>2, <1>3, <1>4, <2>2
  <2>4. QED
    BY <1>3, <1>4, <2>1, <2>3
<1>7. SubSeq(q, m, Len(s) + 1) = Append(SubSeq(s, m, Len(s)), x)
  <2> DEFINE u == SubSeq(s, m, Len(s))
             v == Append(u, x)
             w == SubSeq(q, m, Len(s) + 1)
  <2>1. u \in Seq(Tokens) /\ Len(u) = Len(s) - m + 1 /\ \A i \in 1 .. Len(u) : u[i] = s[m + i - 1]
    BY <1>3
  <2>2. w \in Seq(Tokens) /\ Len(w) = Len(s) - m + 2 /\ \A i \in 1 .. Len(w) : w[i] = q[m + i - 1]
    BY <1>1, <1>3
  <2> HIDE DEF u, w
  <2>3. v \in Seq(Tokens) /\ Len(v) = Len(u) + 1 /\ v[Len(u) + 1] = x
        /\ \A i \in 1 .. Len(u) : v[i] = u[i]
    BY <2>1
  <2> HIDE DEF v
  <2>4. q[Len(s) + 1] = x
    BY DEF q
  <2>5. ASSUME NEW i \in 1 .. Len(w) PROVE w[i] = v[i]
    <3>1. CASE i \in 1 .. Len(u)
      <4>1. m + i - 1 \in 1 .. Len(s)
        BY <1>3, <2>1, <3>1
      <4>2. QED
        BY <1>1, <2>1, <2>2, <2>3, <3>1, <4>1
    <3>2. CASE i = Len(u) + 1
      <4>1. m + i - 1 = Len(s) + 1
        BY <1>3, <2>1, <3>2
      <4>2. w[i] = x
        BY <2>2, <2>4, <4>1
      <4>3. QED
        BY <2>3, <3>2, <4>2
    <3>3. i \in 1 .. Len(u) \/ i = Len(u) + 1
      <4>1. Len(w) = Len(u) + 1 /\ Len(u) \in Nat
        BY <1>3, <2>1, <2>2
      <4>2. QED
        BY <4>1
    <3>4. QED
      BY <3>1, <3>2, <3>3
  <2>6. Len(w) = Len(v)
    BY <1>3, <2>1, <2>2, <2>3
  <2>8. w = v
    BY <2>2, <2>3, <2>5, <2>6
  <2>7. QED
    BY <2>8 DEF u, v, w
<1>8. QED
  BY <1>1, <1>5, <1>6, <1>7 DEF q

\* A text whose words are none is nothing to trimStart; with a word it begins with one.
LEMMA TrimStartBegins ==
    ASSUME NEW s \in Seq(Tokens), WordsOf(s) # {}
    PROVE  TrimStart(s) # <<>> /\ TrimStart(s)[1] # Blank
<1> DEFINE m == Min(WordsOf(s))
<1>1. m \in WordsOf(s) /\ m \in 1 .. Len(s)
  BY TrimStartIs, WordsAreNumbers, MinIsLeast
<1>2. TrimStart(s) = SubSeq(s, m, Len(s))
  BY TrimStartIs
<1> HIDE DEF m
<1>3. SubSeq(s, m, Len(s)) # <<>> /\ SubSeq(s, m, Len(s))[1] = s[m]
  <2>1. Len(SubSeq(s, m, Len(s))) = Len(s) - m + 1 /\ Len(s) - m + 1 # 0
    BY <1>1
  <2>2. SubSeq(s, m, Len(s))[1] = s[m]
    BY <1>1
  <2>3. Len(<<>>) = 0
    OBVIOUS
  <2>4. QED
    BY <2>1, <2>2, <2>3, Zenon
<1>4. s[m] # Blank
  BY <1>1 DEF WordsOf
<1>5. QED
  BY <1>2, <1>3, <1>4

\* Reversing twice gives the text back.
LEMMA ReverseTwice ==
    ASSUME NEW s \in Seq(Tokens)
    PROVE  Reverse(Reverse(s)) = s
<1> DEFINE r == Reverse(s)
           q == Reverse(r)
<1>1. r \in Seq(Tokens) /\ Len(r) = Len(s) /\ \A i \in 1 .. Len(s) : r[i] = s[Len(s) - i + 1]
  BY ReverseTyped
<1> HIDE DEF r
<1>2. q \in Seq(Tokens) /\ Len(q) = Len(r) /\ \A i \in 1 .. Len(r) : q[i] = r[Len(r) - i + 1]
  BY <1>1, ReverseTyped
<1> HIDE DEF q
<1>3. \A i \in 1 .. Len(s) : q[i] = s[i]
  <2> SUFFICES ASSUME NEW i \in 1 .. Len(s) PROVE q[i] = s[i]
    OBVIOUS
  <2>1. Len(s) - i + 1 \in 1 .. Len(s) /\ Len(s) - (Len(s) - i + 1) + 1 = i
    OBVIOUS
  <2>2. QED
    BY <1>1, <1>2, <2>1
<1>4. q = s
  BY <1>1, <1>2, <1>3
<1>5. QED
  BY <1>4 DEF q, r

\* The empty text has no words, is its own trimming, and is not the silent token.
LEMMA EmptyText == /\ TrimStart(<<>>) = <<>> /\ Trimmed(<<>>) = <<>> /\ ~IsNoReply(<<>>)
                   /\ PossibleNoReply(<<>>) /\ Reverse(<<>>) = <<>>
<1>1. TrimStart(<<>>) = <<>>
  <2>1. <<>> \in Seq(Tokens) /\ DOMAIN <<>> = {}
    OBVIOUS
  <2>2. WordsOf(<<>>) = {}
    BY <2>1 DEF WordsOf
  <2>3. QED
    BY <2>1, <2>2, TrimStartIs
<1>2. Reverse(<<>>) = <<>>
  BY DEF Reverse
<1>3. Trimmed(<<>>) = <<>>
  BY <1>1, <1>2 DEF Trimmed
<1>4. NoReply # <<>> /\ IsPrefix(<<>>, NoReply)
  BY DEF NoReply, IsPrefix
<1>5. QED
  BY <1>1, <1>2, <1>3, <1>4 DEF IsNoReply, PossibleNoReply

\* What a text begins with, every longer beginning of it begins with: a text that may be the
\* silent token could have been it before its last word as well.
LEMMA PrefixShrinks ==
    ASSUME NEW s \in Seq(Tokens), NEW x \in Tokens, IsPrefix(Append(s, x), NoReply)
    PROVE  IsPrefix(s, NoReply)
<1>1. NoReply \in Seq(Tokens) /\ Len(NoReply) = 2
  <2>1. "no" \in Tokens /\ "reply" \in Tokens
    BY Zenon DEF Tokens
  <2>2. \A a, b \in Tokens : <<a, b>> \in Seq(Tokens) /\ Len(<<a, b>>) = 2
    OBVIOUS
  <2>3. QED
    BY <2>1, <2>2, Zenon DEF NoReply
<1>2. Len(s) + 1 <= 2 /\ SubSeq(Append(s, x), 1, Len(s) + 1) = SubSeq(NoReply, 1, Len(s) + 1)
  BY <1>1 DEF IsPrefix
<1>3. SubSeq(s, 1, Len(s)) = SubSeq(NoReply, 1, Len(s))
  <2> DEFINE n == NoReply
  <2>1. n \in Seq(Tokens) /\ Len(n) = 2
    BY <1>1
  <2>2. SubSeq(Append(s, x), 1, Len(s) + 1) = SubSeq(n, 1, Len(s) + 1)
    BY <1>2
  <2> HIDE DEF n
  <2>3. \A i \in 1 .. Len(s) : s[i] = n[i]
    <3> SUFFICES ASSUME NEW i \in 1 .. Len(s) PROVE s[i] = n[i]
      OBVIOUS
    <3>1. SubSeq(Append(s, x), 1, Len(s) + 1)[i] = s[i]
      OBVIOUS
    <3>2. SubSeq(n, 1, Len(s) + 1)[i] = n[i]
      BY <1>2, <2>1
    <3>3. QED
      BY <2>2, <3>1, <3>2
  <2>4. SubSeq(s, 1, Len(s)) = SubSeq(n, 1, Len(s))
    BY <1>2, <2>1, <2>3
  <2>5. QED
    BY <2>4 DEF n
<1>4. QED
  BY <1>1, <1>2, <1>3 DEF IsPrefix

\* A text that may become the silent token was one before its last token: so what is held back is
\* held back from the first token on.
LEMMA PossibleShrinks ==
    ASSUME NEW s \in Seq(Tokens), NEW x \in Tokens, PossibleNoReply(Append(s, x))
    PROVE  PossibleNoReply(s)
<1>1. CASE WordsOf(s) = {}
  <2>1. TrimStart(s) = <<>>
    BY <1>1, TrimStartIs
  <2>2. QED
    BY <2>1, EmptyText DEF PossibleNoReply
<1>2. CASE WordsOf(s) # {}
  <2> DEFINE t == TrimStart(s)
             r == Reverse(t)
  <2>1. t \in Seq(Tokens) /\ r \in Seq(Tokens) /\ Reverse(r) = t
    BY TrimStartIs, ReverseTyped, ReverseTwice
  <2>2. TrimStart(Append(s, x)) = Append(t, x)
    BY <1>2, TrimStartGrows
  <2>3. Reverse(Append(t, x)) = <<x>> \o r
    BY <2>1, ReverseAppend
  <2>4. CASE IsPrefix(TrimStart(Append(s, x)), NoReply)
    BY <2>1, <2>2, <2>4, PrefixShrinks DEF PossibleNoReply
  <2>5. CASE IsNoReply(Append(s, x))
    <3>1. Reverse(TrimStart(<<x>> \o r)) = NoReply
      BY <2>2, <2>3, <2>5 DEF IsNoReply, Trimmed
    <3>2. CASE x = Blank
      <4>1. Reverse(TrimStart(r)) = NoReply
        BY <2>1, <3>1, <3>2, TrimStartBlank
      <4>2. QED
        BY <4>1 DEF IsNoReply, Trimmed, PossibleNoReply
    <3>3. CASE x # Blank
      <4> DEFINE q == <<x>> \o r
      <4>1. q \in Seq(Tokens) /\ q # <<>> /\ q[1] = x
        BY <2>1
      <4>2. TrimStart(q) = q
        BY <3>3, <4>1, TrimStartKeeps
      <4>3. Reverse(q) = Append(t, x)
        <5>1. Append(t, x) \in Seq(Tokens)
          BY <2>1
        <5>2. QED
          BY <2>3, <5>1, ReverseTwice
      <4>4. Append(t, x) = NoReply
        BY <3>1, <4>2, <4>3
      <4>5. IsPrefix(Append(t, x), NoReply)
        BY <4>4 DEF IsPrefix, NoReply
      <4>6. QED
        BY <2>1, <4>5, PrefixShrinks DEF PossibleNoReply
    <3>4. QED
      BY <3>2, <3>3
  <2>6. QED
    BY <2>4, <2>5 DEF PossibleNoReply
<1>3. QED
  BY <1>1, <1>2
-----------------------------------------------------------------------------
(******************************* flattening ********************************)

\* The recursion of FlattenSeq: f[i] is what the first i texts of ts are together.
Sums(ts, f) == f = [i \in 1 .. Len(ts) |-> IF i = 1 THEN ts[i] ELSE f[i - 1] \o ts[i]]
SumsTo(ts, n, f) == \A i \in 1 .. n : f[i] = IF i = 1 THEN ts[i] ELSE f[i - 1] \o ts[i]

\* Two such functions agree: a least place where they do not would follow one where they do.
LEMMA SumsUnique ==
    ASSUME NEW ts, NEW f, NEW g, NEW n \in Nat, SumsTo(ts, n, f), SumsTo(ts, n, g)
    PROVE  \A i \in 1 .. n : f[i] = g[i]
<1> DEFINE Bad == {i \in 1 .. n : f[i] # g[i]}
<1>1. Bad \subseteq 1 .. n /\ 1 .. n \subseteq Nat
  OBVIOUS
<1>2. CASE Bad # {}
  <2>1. PICK k \in Bad : \A m \in Bad : k <= m
    BY <1>1, <1>2, LeastNumber
  <2>2. k \in 1 .. n /\ f[k] # g[k]
    BY <2>1
  <2>3. k # 1
    BY <2>2, Zenon DEF SumsTo
  <2>4. k - 1 \in 1 .. n /\ ~(k <= k - 1)
    BY <2>2, <2>3
  <2>5. f[k - 1] = g[k - 1]
    BY <2>1, <2>4
  <2>6. f[k] = f[k - 1] \o ts[k] /\ g[k] = g[k - 1] \o ts[k]
    BY <2>2, <2>3, Zenon DEF SumsTo
  <2>7. QED
    BY <2>2, <2>5, <2>6, Zenon
<1>3. QED
  BY <1>2

\* There is one: a least length for which there is none would follow one for which there is.
LEMMA SumsExist ==
    ASSUME NEW ts \in Seq(Seq(Tokens)), NEW l \in 0 .. Len(ts)
    PROVE  \E f \in [1 .. l -> Seq(Tokens)] : SumsTo(ts, l, f)
<1> DEFINE Some(n) == \E f \in [1 .. n -> Seq(Tokens)] : SumsTo(ts, n, f)
           Bad == {n \in 0 .. Len(ts) : ~Some(n)}
<1>1. Bad \subseteq 0 .. Len(ts) /\ 0 .. Len(ts) \subseteq Nat
  OBVIOUS
<1>2. CASE Bad # {}
  <2>1. PICK k \in Bad : \A m \in Bad : k <= m
    <3> HIDE DEF Bad
    <3>1. QED
      BY <1>1, <1>2, LeastNumber
  <2>2. k \in 0 .. Len(ts) /\ ~Some(k)
    BY <2>1
  <2>3. CASE k = 0
    <3> DEFINE e == [i \in 1 .. 0 |-> <<>>]
    <3>1. e \in [1 .. 0 -> Seq(Tokens)] /\ \A i \in 1 .. 0 : FALSE
      OBVIOUS
    <3>2. SumsTo(ts, 0, e)
      BY <3>1, Zenon DEF SumsTo
    <3>3. QED
      BY <2>2, <2>3, <3>1, <3>2
  <2>4. CASE k # 0
    <3>1. k - 1 \in 0 .. Len(ts) /\ ~(k <= k - 1) /\ k \in 1 .. Len(ts)
      BY <2>2, <2>4
    <3>2. Some(k - 1)
      BY <2>1, <3>1
    <3>3. PICK f \in [1 .. k - 1 -> Seq(Tokens)] : SumsTo(ts, k - 1, f)
      BY <3>2
    <3> DEFINE last == IF k = 1 THEN ts[k] ELSE f[k - 1] \o ts[k]
               g == [i \in 1 .. k |-> IF i = k THEN last ELSE f[i]]
    <3>4. last \in Seq(Tokens)
      <4>1. ts[k] \in Seq(Tokens)
        BY <3>1
      <4>2. ASSUME k # 1 PROVE f[k - 1] \in Seq(Tokens)
        <5>1. k - 1 \in 1 .. k - 1
          BY <3>1, <4>2
        <5>2. QED
          BY <5>1
      <4>3. \A a, b \in Seq(Tokens) : a \o b \in Seq(Tokens)
        OBVIOUS
      <4>4. QED
        BY <4>1, <4>2, <4>3
    <3> HIDE DEF last
    <3>5. \A i \in 1 .. k : i # k => i \in 1 .. k - 1
      BY <3>1
    <3>6. g \in [1 .. k -> Seq(Tokens)]
      BY <3>4, <3>5
    <3>7. g[k] = last /\ \A i \in 1 .. k - 1 : g[i] = f[i] /\ i \in 1 .. k /\ i # k
      BY <3>1
    <3>8. ASSUME NEW i \in 1 .. k
          PROVE  g[i] = IF i = 1 THEN ts[i] ELSE g[i - 1] \o ts[i]
      <4> HIDE DEF g
      <4>1. i # 1 => i - 1 \in 1 .. k - 1
        OBVIOUS
      <4>2. i # 1 => g[i - 1] = f[i - 1]
        BY <3>7, <4>1
      <4>3. CASE i = k
        BY <3>7, <4>2, <4>3, Zenon DEF last
      <4>4. CASE i # k
        <5>1. i \in 1 .. k - 1
          BY <3>5, <4>4
        <5>2. f[i] = IF i = 1 THEN ts[i] ELSE f[i - 1] \o ts[i]
          BY <3>3, <5>1, Zenon DEF SumsTo
        <5>3. g[i] = f[i]
          BY <3>7, <5>1
        <5>4. QED
          BY <4>2, <5>2, <5>3, Zenon
      <4>5. QED
        BY <4>3, <4>4
    <3>9. SumsTo(ts, k, g)
      <4> HIDE DEF g
      <4>1. QED
        BY <3>8, Zenon DEF SumsTo
    <3>10. QED
      BY <2>2, <3>6, <3>9
  <2>5. QED
    BY <2>3, <2>4
<1>3. QED
  BY <1>2

\* What FlattenSeq makes of texts.
LEMMA FlattenIs ==
    ASSUME NEW ts \in Seq(Seq(Tokens)), ts # <<>>,
           NEW f \in [1 .. Len(ts) -> Seq(Tokens)], SumsTo(ts, Len(ts), f)
    PROVE  FlattenSeq(ts) = f[Len(ts)]
<1> DEFINE h == CHOOSE g : Sums(ts, g)
<1>1. Len(ts) \in Nat /\ Len(ts) # 0 /\ Len(ts) \in 1 .. Len(ts)
  OBVIOUS
<1>2. FlattenSeq(ts) = h[Len(ts)]
  BY <1>1 DEF FlattenSeq, Sums
<1>3. Sums(ts, f)
  <2>1. f = [i \in 1 .. Len(ts) |-> f[i]]
    OBVIOUS
  <2>2. QED
    BY <2>1, Zenon DEF Sums, SumsTo
<1>4. Sums(ts, h)
  BY <1>3, Zenon
<1> HIDE DEF h
<1>5. SumsTo(ts, Len(ts), h)
  BY <1>4, Zenon DEF Sums, SumsTo
<1>6. f[Len(ts)] = h[Len(ts)]
  BY <1>1, <1>5, SumsUnique
<1>7. QED
  BY <1>2, <1>6, Zenon

\* A transcript that grows by an entry says what it said and what the entry says.
LEMMA FlattenGrows ==
    ASSUME NEW ts \in Seq(Seq(Tokens)), NEW x \in Seq(Tokens)
    PROVE  FlattenSeq(Append(ts, x)) = (IF ts = <<>> THEN x ELSE FlattenSeq(ts) \o x)
<1> DEFINE us == Append(ts, x)
           n == Len(ts)
<1>1. us \in Seq(Seq(Tokens)) /\ us # <<>> /\ Len(us) = n + 1 /\ us[n + 1] = x
      /\ n \in Nat /\ \A i \in 1 .. n : us[i] = ts[i]
  <2>1. n \in Nat
    OBVIOUS
  <2>2. us \in Seq(Seq(Tokens)) /\ Len(us) = n + 1 /\ us[n + 1] = x /\ \A i \in 1 .. n : us[i] = ts[i]
    <3> DEFINE S == Seq(Tokens)
    <3>1. ts \in Seq(S) /\ x \in S
      OBVIOUS
    <3> HIDE DEF S
    <3>2. Append(ts, x) \in Seq(S) /\ Len(Append(ts, x)) = Len(ts) + 1
          /\ Append(ts, x)[Len(ts) + 1] = x /\ \A i \in 1 .. Len(ts) : Append(ts, x)[i] = ts[i]
      BY <3>1, AppendProperties
    <3>3. QED
      BY <3>2 DEF S
  <2> HIDE DEF us
  <2>3. us # <<>>
    BY <2>1, <2>2
  <2>4. QED
    BY <2>1, <2>2, <2>3
<1> HIDE DEF us
<1>2. PICK f \in [1 .. n + 1 -> Seq(Tokens)] : SumsTo(us, n + 1, f)
  <2>1. n + 1 \in 0 .. Len(us)
    BY <1>1
  <2>2. QED
    BY <1>1, <2>1, SumsExist
<1>3. FlattenSeq(us) = f[n + 1]
  BY <1>1, <1>2, FlattenIs
<1>4. CASE ts = <<>>
  <2>1. n = 0
    BY <1>4
  <2>2. f[1] = us[1]
    <3>1. 1 \in 1 .. n + 1
      BY <1>1
    <3>2. QED
      BY <1>2, <3>1, Zenon DEF SumsTo
  <2>3. QED
    BY <1>1, <1>3, <1>4, <2>1, <2>2 DEF us
<1>5. CASE ts # <<>>
  <2>1. n \in 1 .. n /\ n \in 1 .. n + 1 /\ n + 1 \in 1 .. n + 1 /\ n + 1 # 1 /\ (n + 1) - 1 = n
        /\ n \in 0 .. Len(ts)
    BY <1>5
  <2>2. PICK g \in [1 .. n -> Seq(Tokens)] : SumsTo(ts, n, g)
    BY <2>1, SumsExist
  <2>3. FlattenSeq(ts) = g[n]
    BY <1>5, <2>2, FlattenIs
  <2>4. SumsTo(ts, n, f)
    <3>1. \A i \in 1 .. n : i \in 1 .. n + 1
      BY <1>1
    <3> HIDE DEF n
    <3>2. QED
      BY <1>1, <1>2, <3>1, Zenon DEF SumsTo
  <2>5. f[n] = g[n]
    <3>1. Len(ts) \in Nat /\ Len(ts) \in 1 .. Len(ts)
      BY <2>1
    <3>2. SumsTo(ts, Len(ts), f) /\ SumsTo(ts, Len(ts), g)
      BY <2>2, <2>4, Zenon
    <3>3. \A p, q : SumsTo(ts, Len(ts), p) /\ SumsTo(ts, Len(ts), q) =>
             \A i \in 1 .. Len(ts) : p[i] = q[i]
      <4>1. Len(ts) \in Nat
        OBVIOUS
      <4>2. SUFFICES ASSUME NEW p, NEW q, SumsTo(ts, Len(ts), p), SumsTo(ts, Len(ts), q)
                     PROVE  \A i \in 1 .. Len(ts) : p[i] = q[i]
        OBVIOUS
      <4>3. QED
        BY <4>1, <4>2, SumsUnique
    <3>4. QED
      BY <3>1, <3>2, <3>3, Zenon
  <2>6. f[n + 1] = f[n] \o x
    <3>1. f[n + 1] = f[(n + 1) - 1] \o us[n + 1]
      <4> HIDE DEF n
      <4>1. QED
        BY <1>2, <2>1, Zenon DEF SumsTo
    <3>2. QED
      BY <1>1, <2>1, <3>1
  <2>7. QED
    BY <1>3, <1>5, <2>3, <2>5, <2>6 DEF us
<1>6. QED
  BY <1>4, <1>5

\* The words of an entry are a text.
LEMMA WordsTyped == ASSUME NEW e \in Entries PROVE Words(e) \in Seq(Tokens)
<1>1. CASE e \in [type : {"assistant"}, text : Seq(Tokens), calls : BOOLEAN]
  BY <1>1 DEF Words
<1>2. CASE e \in [type : {"toolResult", "empty_reply"}]
  BY <1>2 DEF Words
<1>3. QED
  BY <1>1, <1>2 DEF Entries

\* The same of the entries of a transcript.
LEMMA FlatGrows ==
    ASSUME NEW tr \in Seq(Entries), NEW e \in Entries
    PROVE  Flat(Append(tr, e)) = Flat(tr) \o Words(e)
<1> DEFINE W(s) == [i \in DOMAIN s |-> Words(s[i])]
<1>1. Words(e) \in Seq(Tokens) /\ \A i \in 1 .. Len(tr) : Words(tr[i]) \in Seq(Tokens)
  BY WordsTyped
<1>2. W(tr) \in Seq(Seq(Tokens)) /\ Len(W(tr)) = Len(tr) /\ \A i \in 1 .. Len(tr) : W(tr)[i] = Words(tr[i])
  <2>1. DOMAIN tr = 1 .. Len(tr) /\ Len(tr) \in Nat
    OBVIOUS
  <2>2. W(tr) = [i \in 1 .. Len(tr) |-> Words(tr[i])]
    BY <2>1
  <2>3. W(tr) \in [1 .. Len(tr) -> Seq(Tokens)]
    BY <1>1, <2>2
  <2> HIDE DEF W
  <2>4. QED
    BY <2>1, <2>2, <2>3
<1>3. W(Append(tr, e)) = Append(W(tr), Words(e))
  <2> DEFINE q == Append(tr, e)
             p == Append(W(tr), Words(e))
             n == Len(tr)
  <2>1. n \in Nat /\ DOMAIN q = 1 .. n + 1 /\ q[n + 1] = e /\ \A i \in 1 .. n : q[i] = tr[i]
    OBVIOUS
  <2>2. p \in Seq(Seq(Tokens)) /\ Len(p) = n + 1 /\ p[n + 1] = Words(e) /\ \A i \in 1 .. n : p[i] = Words(tr[i])
    <3> HIDE DEF W
    <3>1. QED
      BY <1>1, <1>2
  <2>3. p = [i \in 1 .. n + 1 |-> p[i]]
    <3> HIDE DEF p
    <3>1. QED
      BY <2>2
  <2> HIDE DEF p, q
  <2>4. \A i \in 1 .. n + 1 : p[i] = Words(q[i])
    <3>1. \A i \in 1 .. n + 1 : i \in 1 .. n \/ i = n + 1
      BY <2>1
    <3>2. QED
      BY <2>1, <2>2, <3>1, Zenon
  <2>5. p = W(q)
    BY <2>1, <2>3, <2>4, Zenon
  <2>6. QED
    BY <2>5, Zenon DEF p, q
<1>4. FlattenSeq(Append(W(tr), Words(e))) = (IF W(tr) = <<>> THEN Words(e) ELSE FlattenSeq(W(tr)) \o Words(e))
  BY <1>1, <1>2, FlattenGrows
<1>5. FlattenSeq(<<>>) = <<>>
  BY DEF FlattenSeq
<1>6. \A t \in Seq(Tokens) : <<>> \o t = t
  OBVIOUS
<1>7. QED
  <2> HIDE DEF W
  <2>1. FlattenSeq(W(Append(tr, e))) = FlattenSeq(W(tr)) \o Words(e)
    BY <1>1, <1>3, <1>4, <1>5, <1>6, Zenon
  <2>2. QED
    BY <2>1 DEF Flat, W

\* So are the words of a transcript.
LEMMA FlatTyped == ASSUME NEW tr \in Seq(Entries) PROVE Flat(tr) \in Seq(Tokens)
<1> DEFINE ts == [i \in DOMAIN tr |-> Words(tr[i])]
<1>1. \A i \in 1 .. Len(tr) : Words(tr[i]) \in Seq(Tokens)
  BY WordsTyped
<1>2. DOMAIN tr = 1 .. Len(tr) /\ Len(tr) \in Nat
  OBVIOUS
<1>3. ts \in [1 .. Len(tr) -> Seq(Tokens)]
  BY <1>1, <1>2
<1> HIDE DEF ts
<1>4. ts \in Seq(Seq(Tokens)) /\ Len(ts) = Len(tr)
  BY <1>2, <1>3
<1>5. FlattenSeq(ts) \in Seq(Tokens)
  <2>1. CASE ts = <<>>
    BY <2>1 DEF FlattenSeq
  <2>2. CASE ts # <<>>
    <3>1. Len(ts) \in 0 .. Len(ts) /\ Len(ts) \in 1 .. Len(ts)
      BY <1>4, <2>2
    <3>2. PICK f \in [1 .. Len(ts) -> Seq(Tokens)] : SumsTo(ts, Len(ts), f)
      BY <1>4, <3>1, SumsExist
    <3>3. QED
      BY <1>4, <2>2, <3>1, <3>2, FlattenIs
  <2>3. QED
    BY <2>1, <2>2
<1>6. QED
  BY <1>5 DEF Flat, ts

\* An empty transcript says nothing.
LEMMA FlatOfNothing == Flat(<<>>) = <<>>
<1>1. DOMAIN <<>> = {}
  OBVIOUS
<1>2. [i \in DOMAIN <<>> |-> Words(<<>>[i])] = <<>>
  BY <1>1
<1>3. FlattenSeq(<<>>) = <<>>
  BY DEF FlattenSeq
<1>4. QED
  BY <1>2, <1>3 DEF Flat
-----------------------------------------------------------------------------
(********************************* the tab *********************************)

\* Texts are sequences, and stay so.
LEMMA Texts ==
    /\ <<>> \in Seq(Tokens)
    /\ \A a \in Seq(Tokens) : a \o <<>> = a /\ <<>> \o a = a /\ \A x \in Tokens : Append(a, x) # <<>>
    /\ \A a, b \in Seq(Tokens) : a \o b \in Seq(Tokens) /\ (a \o b = <<>> => a = <<>> /\ b = <<>>)
    /\ \A a \in Seq(Tokens), x \in Tokens : Append(a, x) \in Seq(Tokens) /\ Append(a, x) = a \o <<x>>
                                            /\ <<x>> \in Seq(Tokens)
    /\ \A a, b, c \in Seq(Tokens) : (a \o b) \o c = a \o (b \o c)
<1>1. <<>> \in Seq(Tokens)
  OBVIOUS
<1>2. \A a \in Seq(Tokens) : a \o <<>> = a /\ <<>> \o a = a /\ \A x \in Tokens : Append(a, x) # <<>>
  BY ConcatEmptySeq, AppendProperties
<1>3. \A a, b \in Seq(Tokens) : a \o b \in Seq(Tokens) /\ (a \o b = <<>> => a = <<>> /\ b = <<>>)
  BY ConcatEmptySeq
<1>4. \A a \in Seq(Tokens), x \in Tokens : Append(a, x) \in Seq(Tokens) /\ Append(a, x) = a \o <<x>>
                                           /\ <<x>> \in Seq(Tokens)
  BY AppendIsConcat
<1>5. \A a, b, c \in Seq(Tokens) : (a \o b) \o c = a \o (b \o c)
  BY ConcatAssociative
<1>6. QED
  BY <1>1, <1>2, <1>3, <1>4, <1>5, Zenon

\* What each event does to the view of the tab, field by field.
LEMMA BubbleIs ==
    ASSUME NEW t \in Views
    PROVE  LET u == WithBubble(t)
           IN  /\ u \in Views /\ u.created /\ u.bubble = (t.created => t.bubble)
               /\ u.shown = IF t.created THEN t.shown ELSE <<>>
               /\ u.content = t.content /\ u.delta = t.delta /\ u.streaming = t.streaming
  BY Texts DEF WithBubble, Views

\* The five changes of the tab, field by field: a delta,
LEMMA DeltaIs ==
    ASSUME NEW t \in Views, NEW w \in Seq(Tokens)
    PROVE  LET u == SeeDelta(t, w)
           IN  /\ u \in Views /\ u.created = t.created /\ u.bubble = t.bubble /\ u.shown = t.shown
               /\ u.content = t.content /\ u.delta = t.delta \o w /\ u.streaming = t.streaming
  BY Texts DEF SeeDelta, Views

\* the timer,
LEMMA FlushedIs ==
    ASSUME NEW t \in Views
    PROVE  LET u == Flushed(t)
           IN  /\ u \in Views /\ u.created = t.created /\ u.bubble = t.bubble
               /\ u.shown = IF t.bubble THEN t.content \o t.delta ELSE t.shown
               /\ u.content = t.content \o t.delta /\ u.delta = <<>> /\ u.streaming = t.streaming
<1>1. t.content \o t.delta \in Seq(Tokens)
  BY Texts DEF Views
<1>2. QED
  BY <1>1, Texts DEF Flushed, Stored, Views

\* a suppressed message,
LEMMA RemovedIs ==
    ASSUME NEW t \in Views
    PROVE  LET u == Removed(t)
           IN  /\ u \in Views /\ u.created = t.created /\ ~u.bubble /\ u.shown = <<>>
               /\ u.content = t.content /\ u.delta = t.delta /\ u.streaming = t.streaming
  BY Texts DEF Removed, Views

\* the end of the run,
LEMMA DoneIs ==
    ASSUME NEW t \in Views
    PROVE  LET u == SeeDone(t)
           IN  /\ u \in Views /\ u.created = t.created /\ u.streaming = FALSE
               /\ u.bubble = (t.bubble /\ Trimmed(t.content) # <<>>)
               /\ u.shown = IF Trimmed(t.content) = <<>> THEN <<>> ELSE t.shown
               /\ u.content = t.content /\ u.delta = t.delta
<1>1. CASE Trimmed(t.content) = <<>>
  <2>1. SeeDone(t) = [Removed(t) EXCEPT !.streaming = FALSE]
    BY <1>1 DEF SeeDone
  <2>2. QED
    BY <1>1, <2>1, RemovedIs DEF Views
<1>2. CASE Trimmed(t.content) # <<>>
  <2>1. SeeDone(t) = [t EXCEPT !.streaming = FALSE]
    BY <1>2 DEF SeeDone
  <2>2. QED
    BY <1>2, <2>1 DEF Views
<1>3. QED
  BY <1>1, <1>2

\* and an error.
LEMMA ErrorIs ==
    ASSUME NEW t \in Views
    PROVE  LET u == SeeError(t)
           IN  /\ u \in Views /\ u.created = t.created /\ u.streaming = FALSE /\ u.bubble = t.bubble
               /\ u.shown = t.shown /\ u.content = t.content /\ u.delta = t.delta
  BY DEF SeeError, Views

\* The bubble is there as soon as there is anything to be shown, and shows it.
Even(t) == /\ t.bubble = t.created /\ t.shown = t.content
           /\ ~t.created => t.content = <<>> /\ t.delta = <<>>

\* What was held back joins what waits.
LEMMA HeldIs ==
    ASSUME NEW t \in Views, NEW c \in Contexts, ~c.buffering => c.held = <<>>
    PROVE  LET u == SeeHeld(t, c)
           IN  /\ u \in Views /\ u.content = t.content /\ u.delta = t.delta \o c.held
               /\ u.streaming = t.streaming
               /\ u.created = (t.created \/ c.buffering)
               /\ t.shown = <<>> => u.shown = <<>>
               /\ Even(t) => Even(u)
<1>1. c.held \in Seq(Tokens) /\ c.buffering \in BOOLEAN
  BY DEF Contexts
<1>2. CASE c.buffering
  <2> DEFINE b == WithBubble(t)
             u == SeeDelta(b, c.held)
  <2>1. SeeHeld(t, c) = u
    BY <1>2 DEF SeeHeld, SeeStart
  <2>2. /\ b \in Views /\ b.created /\ b.bubble = (t.created => t.bubble)
        /\ b.shown = IF t.created THEN t.shown ELSE <<>>
        /\ b.content = t.content /\ b.delta = t.delta /\ b.streaming = t.streaming
    BY BubbleIs
  <2> HIDE DEF b
  <2>3. /\ u \in Views /\ u.created = b.created /\ u.bubble = b.bubble /\ u.shown = b.shown
        /\ u.content = b.content /\ u.delta = b.delta \o c.held /\ u.streaming = b.streaming
    BY <1>1, <2>2, DeltaIs
  <2> HIDE DEF u
  <2>4. t.created \in BOOLEAN /\ t.bubble \in BOOLEAN /\ u.created \in BOOLEAN /\ u.bubble \in BOOLEAN
    BY <2>3 DEF Views
  <2>5. Even(t) => Even(u)
    BY <2>2, <2>3, <2>4 DEF Even
  <2>6. QED
    BY <1>2, <2>1, <2>2, <2>3, <2>4, <2>5
<1>3. CASE ~c.buffering
  <2>1. SeeHeld(t, c) = t
    BY <1>3 DEF SeeHeld
  <2>2. t.delta \o c.held = t.delta
    BY <1>3, Texts DEF Views
  <2>3. t.created \in BOOLEAN
    BY DEF Views
  <2>4. QED
    BY <1>3, <2>1, <2>2, <2>3
<1>4. QED
  BY <1>1, <1>2, <1>3
-----------------------------------------------------------------------------
(******************************** the steps ********************************)

\* The parts of the state, by field.
LEMMA Parts ==
    ASSUME TypeOK
    PROVE  /\ /\ ctx.text \in Seq(Tokens) /\ ctx.held \in Seq(Tokens)
              /\ ctx.reasoning \in BOOLEAN /\ ctx.failedTool \in BOOLEAN /\ ctx.suppressed \in BOOLEAN
              /\ ctx.started \in BOOLEAN /\ ctx.buffering \in BOOLEAN /\ ctx.hadThinking \in BOOLEAN
           /\ /\ tab.shown \in Seq(Tokens) /\ tab.content \in Seq(Tokens) /\ tab.delta \in Seq(Tokens)
              /\ tab.bubble \in BOOLEAN /\ tab.created \in BOOLEAN /\ tab.streaming \in BOOLEAN
           /\ /\ spoken.said \in Seq(Tokens) /\ spoken.message \in Seq(Tokens) /\ spoken.block \in Seq(Tokens)
              /\ spoken.blocks \in Nat /\ spoken.messages \in Nat
              /\ spoken.thought \in BOOLEAN /\ spoken.whole \in BOOLEAN /\ spoken.silent \in BOOLEAN
              /\ spoken.lost \in BOOLEAN /\ spoken.cut \in BOOLEAN /\ spoken.failed \in BOOLEAN
           /\ /\ writer.text \in Seq(Tokens)
              /\ writer.suppressed \in BOOLEAN /\ writer.persisted \in BOOLEAN /\ writer.invoked \in BOOLEAN
  BY DEF TypeOK, Contexts, Views, Histories, Writers

\* One lemma per action. RunStarts makes a context and changes nothing else.
LEMMA RunStartsKeeps == ASSUME IInv, RunStarts PROVE IInv'
<1>1. TypeOK'
  BY DEF IInv, TypeOK, RunStarts, stored
<1>2. Gathered'
  BY DEF IInv, Gathered, RunStarts, Inside, stored
<1>3. Followed'
  BY DEF IInv, Followed, Good, TabFollows, TabIsFlushed, FileFollows, RunStarts, Inside, stored
<1>4. OutcomeIsSaid'
  BY DEF RunStarts, OutcomeIsSaid
<1>5. Silence'
  BY DEF IInv, Silence, QuietBefore, QuietDuring, QuietAfter, First, Quiet, RunStarts, Inside, stored
<1>6. QED
  BY <1>1, <1>2, <1>3, <1>4, <1>5 DEF IInv

\* The end of thinking changes the place only.
LEMMA ThinkingEndsKeeps == ASSUME IInv, ThinkingEnds PROVE IInv'
<1>1. TypeOK'
  BY DEF IInv, TypeOK, ThinkingEnds, stored
<1>2. Gathered'
  BY DEF IInv, Gathered, ThinkingEnds, Inside, stored
<1>3. Followed'
  BY DEF IInv, Followed, Good, TabFollows, TabIsFlushed, FileFollows, ThinkingEnds, Inside, stored
<1>4. OutcomeIsSaid'
  BY DEF ThinkingEnds, OutcomeIsSaid
<1>5. Silence'
  BY DEF IInv, Silence, QuietBefore, QuietDuring, QuietAfter, First, Quiet, ThinkingEnds, Inside, stored
<1>6. QED
  BY <1>1, <1>2, <1>3, <1>4, <1>5 DEF IInv

\* A message starts: nothing is held back yet, and the writer forgets the last one.
LEMMA MessageStartsKeeps == ASSUME IInv, MessageStarts PROVE IInv'
<1>1. /\ ctx' \in Contexts /\ ctx'.text = ctx.text /\ ctx'.suppressed = ctx.suppressed
      /\ ctx'.started /\ ctx'.buffering /\ ctx'.held = <<>>
  BY Texts DEF MessageStarts, IInv, TypeOK, Contexts
<1>2. /\ spoken' \in Histories /\ spoken'.said = spoken.said /\ spoken'.message = <<>> /\ spoken'.block = <<>>
      /\ spoken'.blocks = spoken.blocks /\ spoken'.whole = spoken.whole /\ spoken'.cut = spoken.cut
      /\ spoken'.silent = spoken.silent /\ spoken'.lost = spoken.lost /\ spoken'.failed = spoken.failed
  <2>1. spoken.messages + 1 \in Nat
    <3>1. spoken.messages \in Nat
      BY Parts DEF IInv
    <3>2. QED
      BY <3>1
  <2>2. QED
    BY <2>1, Texts DEF MessageStarts, IInv, TypeOK, Histories
<1>3. /\ writer' \in Writers /\ writer'.text = <<>> /\ ~writer'.suppressed
      /\ writer'.persisted = writer.persisted /\ transcript' = transcript
  BY Texts DEF MessageStarts, WriteStart, IInv, TypeOK, Writers
<1>4. at = "next" /\ at' = "message" /\ tab' = tab /\ payloads' = payloads
  BY DEF MessageStarts
<1>5. TypeOK'
  BY <1>1, <1>2, <1>3, <1>4 DEF IInv, TypeOK
<1>6. Gathered'
  BY <1>1, <1>2, <1>4 DEF IInv, Gathered, Inside
<1>7. Followed'
  <2> SUFFICES ASSUME Good' PROVE TabFollows' /\ TabIsFlushed' /\ FileFollows'
    BY DEF Followed
  <2>1. TabFollows /\ TabIsFlushed /\ FileFollows
    BY <1>2 DEF IInv, Followed, Good
  <2>2. ctx.held = <<>>
    BY <1>4, <2>1 DEF IInv, Gathered, TabFollows, Inside
  <2>3. TabFollows'
    BY <1>1, <1>2, <1>4, <2>1, <2>2 DEF TabFollows, Inside
  <2>4. TabIsFlushed'
    BY <1>4 DEF TabIsFlushed, Inside
  <2>5. FileFollows'
    <3>1. Flat(transcript) \o spoken'.message = spoken.said
      <4>1. Flat(transcript) = spoken.said /\ Flat(transcript) \in Seq(Tokens)
        BY <1>4, <2>1, FlatTyped DEF FileFollows, Inside, IInv, TypeOK
      <4>2. QED
        BY <1>2, <4>1, Texts, Zenon
    <3>2. ~IsNoReply(writer'.text)
      BY <1>3, EmptyText
    <3>3. QED
      BY <1>2, <1>3, <1>4, <2>1, <3>1, <3>2 DEF FileFollows, Inside
  <2>6. QED
    BY <2>3, <2>4, <2>5
<1>8. OutcomeIsSaid'
  BY <1>4 DEF OutcomeIsSaid
<1>9. Silence'
  BY <1>1, <1>2, <1>4 DEF IInv, Silence, QuietBefore, QuietDuring, QuietAfter, First, Quiet, Inside
<1>10. QED
  BY <1>5, <1>6, <1>7, <1>8, <1>9 DEF IInv

\* What the tab sees, it takes in as long as the run goes on.
LEMMA Heeded ==
    ASSUME IInv, at # "over", NEW t, Emit(t)
    PROVE  tab' = t
  BY DEF IInv, Gathered, Emit

\* Thinking may show an empty bubble before any word.
LEMMA ThinkingStartsKeeps == ASSUME IInv, ThinkingStarts PROVE IInv'
<1>1. /\ ctx' \in Contexts /\ ctx'.text = ctx.text /\ ctx'.suppressed = ctx.suppressed
      /\ ctx'.started = ctx.started /\ ctx'.buffering = ctx.buffering /\ ctx'.held = ctx.held
  BY StreamBounds DEF ThinkingStarts, IInv, TypeOK, Contexts
<1>2. /\ spoken' \in Histories /\ spoken'.said = spoken.said /\ spoken'.message = spoken.message
      /\ spoken'.block = spoken.block /\ spoken'.blocks = spoken.blocks /\ spoken'.whole = spoken.whole
      /\ spoken'.cut = spoken.cut /\ spoken'.silent = spoken.silent /\ spoken'.lost = spoken.lost
      /\ spoken'.failed = spoken.failed
  BY DEF ThinkingStarts, IInv, TypeOK, Histories
<1>3. at = "message" /\ at' = "thinking" /\ payloads' = payloads /\ writer' = writer /\ transcript' = transcript
  BY DEF ThinkingStarts, stored
<1>4. /\ tab' \in Views /\ tab'.created /\ tab'.bubble = (tab.created => tab.bubble)
      /\ tab'.shown = (IF tab.created THEN tab.shown ELSE <<>>)
      /\ tab'.content = tab.content /\ tab'.delta = tab.delta /\ tab'.streaming = tab.streaming
  <2>1. tab' = WithBubble(tab)
    BY <1>3, Heeded DEF ThinkingStarts
  <2>2. tab \in Views
    BY DEF IInv, TypeOK
  <2>3. QED
    BY <2>1, <2>2, BubbleIs
<1>5. TypeOK'
  BY <1>1, <1>2, <1>3, <1>4 DEF IInv, TypeOK
<1>6. Gathered'
  BY <1>1, <1>2, <1>3, <1>4 DEF IInv, Gathered, Inside
<1>7. Followed'
  <2> SUFFICES ASSUME Good' PROVE TabFollows' /\ TabIsFlushed' /\ FileFollows'
    BY DEF Followed
  <2>1. TabFollows /\ TabIsFlushed /\ FileFollows
    BY <1>2 DEF IInv, Followed, Good
  <2>2. TabFollows'
    BY <1>1, <1>2, <1>3, <1>4, <2>1 DEF TabFollows, Inside
  <2>3. TabIsFlushed'
    BY <1>3 DEF TabIsFlushed, Inside
  <2>4. FileFollows'
    BY <1>2, <1>3, <2>1 DEF FileFollows, Inside
  <2>5. QED
    BY <2>2, <2>3, <2>4
<1>8. OutcomeIsSaid'
  BY <1>3 DEF OutcomeIsSaid
<1>9. Silence'
  BY <1>1, <1>2, <1>3, <1>4 DEF IInv, Silence, QuietBefore, QuietDuring, QuietAfter, First, Quiet, Inside
<1>10. QED
  BY <1>5, <1>6, <1>7, <1>8, <1>9 DEF IInv

\* A block starts.
LEMMA TextStartsKeeps == ASSUME IInv, TextStarts PROVE IInv'
<1>1. /\ spoken' \in Histories /\ spoken'.said = spoken.said /\ spoken'.message = spoken.message
      /\ spoken'.block = <<>> /\ spoken'.blocks = spoken.blocks + 1 /\ spoken'.whole = spoken.whole
      /\ spoken'.cut = spoken.cut /\ spoken'.silent = spoken.silent /\ spoken'.lost = spoken.lost
      /\ spoken'.failed = spoken.failed
  <2>1. spoken.blocks + 1 \in Nat
    <3>1. spoken.blocks \in Nat
      BY Parts DEF IInv
    <3>2. QED
      BY <3>1
  <2>2. QED
    BY <2>1, Texts DEF TextStarts, IInv, TypeOK, Histories
<1>2. at = "message" /\ at' = "text" /\ ctx' = ctx /\ tab' = tab /\ payloads' = payloads
      /\ writer' = writer /\ transcript' = transcript
  BY DEF TextStarts, stored
<1>3. spoken'.blocks # 0 /\ (spoken'.blocks = 1 => spoken.blocks = 0)
  BY <1>1, Parts DEF IInv
<1>4. TypeOK'
  BY <1>1, <1>2 DEF IInv, TypeOK
<1>5. Gathered'
  BY <1>1, <1>2, <1>3 DEF IInv, Gathered, Inside
<1>6. Followed'
  BY <1>1, <1>2 DEF IInv, Followed, Good, TabFollows, TabIsFlushed, FileFollows, Inside
<1>7. OutcomeIsSaid'
  BY <1>2 DEF OutcomeIsSaid
<1>8. Silence'
  BY <1>1, <1>2, <1>3 DEF IInv, Silence, QuietBefore, QuietDuring, QuietAfter, First, Quiet, Inside
<1>9. QED
  BY <1>4, <1>5, <1>6, <1>7, <1>8 DEF IInv

\* The tab catches up: it shows what waited. Nothing waits when a run of which OutcomeIsSaid speaks
\* is over, nor where silence is to be kept.
LEMMA FlushTimerKeeps == ASSUME IInv, FlushTimer PROVE IInv'
<1>1. /\ tab.delta # <<>> /\ at' = at /\ ctx' = ctx /\ payloads' = payloads /\ writer' = writer
      /\ transcript' = transcript /\ spoken' = spoken /\ tab' = Flushed(tab)
  BY DEF FlushTimer, stored
<1>2. /\ tab' \in Views /\ tab'.created = tab.created /\ tab'.bubble = tab.bubble
      /\ tab'.shown = (IF tab.bubble THEN tab.content \o tab.delta ELSE tab.shown)
      /\ tab'.content = tab.content \o tab.delta /\ tab'.delta = <<>> /\ tab'.streaming = tab.streaming
  <2>1. tab \in Views
    BY DEF IInv, TypeOK
  <2>2. QED
    BY <1>1, <2>1, FlushedIs
<1>3. TypeOK'
  BY <1>1, <1>2 DEF IInv, TypeOK
<1>4. Gathered'
  BY <1>1, <1>2 DEF IInv, Gathered, Inside
<1>5. Followed'
  <2> SUFFICES ASSUME Good' PROVE TabFollows' /\ TabIsFlushed' /\ FileFollows'
    BY DEF Followed
  <2>1. TabFollows /\ TabIsFlushed /\ FileFollows
    BY <1>1 DEF IInv, Followed, Good
  <2>2. TabFollows'
    <3>1. tab'.content \o tab'.delta = tab.content \o tab.delta
      BY <1>2, Parts, Texts DEF IInv
    <3>2. QED
      BY <1>1, <1>2, <2>1, <3>1 DEF TabFollows, Inside
  <2>3. TabIsFlushed'
    BY <1>2 DEF TabIsFlushed
  <2>4. FileFollows'
    BY <1>1, <2>1 DEF FileFollows, Inside
  <2>5. QED
    BY <2>2, <2>3, <2>4
<1>6. OutcomeIsSaid'
  <2>1. ~(at = "over" /\ ~spoken.failed /\ ~spoken.silent /\ ~spoken.lost)
    BY <1>1 DEF IInv, Followed, Good, TabIsFlushed, Inside
  <2>2. QED
    BY <1>1, <2>1 DEF OutcomeIsSaid
<1>7. Silence'
  BY <1>1, <1>2 DEF IInv, Silence, QuietBefore, QuietDuring, QuietAfter, First, Quiet, Inside
<1>8. QED
  BY <1>3, <1>4, <1>5, <1>6, <1>7 DEF IInv

\* A failed run is none that the properties speak of.
LEMMA RunFailsKeeps == ASSUME IInv, RunFails PROVE IInv'
<1>1. at # "over" /\ at' = "over" /\ ctx' = ctx /\ payloads' = payloads /\ writer' = writer
      /\ transcript' = transcript
  BY DEF RunFails, stored
<1>2. /\ spoken' \in Histories /\ spoken'.said = spoken.said /\ spoken'.block = spoken.block
      /\ spoken'.blocks = spoken.blocks /\ spoken'.whole = spoken.whole
      /\ spoken'.cut = spoken.cut /\ spoken'.failed
  BY DEF RunFails, IInv, TypeOK, Histories
<1>3. /\ tab' \in Views /\ tab'.created = tab.created /\ tab'.streaming = FALSE /\ tab'.bubble = tab.bubble
      /\ tab'.shown = tab.shown /\ tab'.content = tab.content /\ tab'.delta = tab.delta
  <2>1. tab' = SeeError(tab)
    BY <1>1, Heeded DEF RunFails
  <2>2. tab \in Views
    BY DEF IInv, TypeOK
  <2>3. QED
    BY <2>1, <2>2, ErrorIs
<1>4. TypeOK'
  BY <1>1, <1>2, <1>3 DEF IInv, TypeOK
<1>5. Gathered'
  BY <1>1, <1>2, <1>3 DEF IInv, Gathered, Inside
<1>6. Followed' /\ OutcomeIsSaid'
  BY <1>2 DEF Followed, Good, OutcomeIsSaid
<1>7. Silence'
  <2>1. QuietBefore'
    BY <1>1, <1>2, <1>3 DEF IInv, Silence, QuietBefore, Quiet, Inside
  <2>2. QuietDuring'
    BY <1>1 DEF QuietDuring
  <2>3. QuietAfter'
    <3>1. CASE at = "text"
      <4>1. IsNoReply(spoken.said) => PossibleNoReply(spoken.said)
        BY DEF PossibleNoReply
      <4>2. QED
        BY <1>1, <1>2, <1>3, <3>1, <4>1 DEF IInv, Silence, QuietDuring, QuietAfter, First, Quiet
    <3>2. CASE at # "text"
      BY <1>1, <1>2, <1>3, <3>2 DEF IInv, Silence, QuietAfter, First, Quiet
    <3>3. QED
      BY <3>1, <3>2
  <2>4. QED
    BY <2>1, <2>2, <2>3 DEF Silence
<1>8. QED
  BY <1>4, <1>5, <1>6, <1>7 DEF IInv

\* Appending an entry that is a message, or the result of a tool after one that called it, keeps
\* every result behind its call.
LEMMA EntriesGrow ==
    ASSUME NEW tr \in Seq(Entries), NEW e \in Entries
    PROVE  LET t == Append(tr, e)
           IN  /\ t \in Seq(Entries) /\ t # <<>> /\ Len(t) = Len(tr) + 1 /\ t[Len(t)] = e
               /\ \A i \in DOMAIN t : (i \in DOMAIN tr /\ t[i] = tr[i]) \/ i = Len(t)
               /\ \A i \in DOMAIN tr : t[i] = tr[i]
               /\ DOMAIN t = 1 .. Len(tr) + 1 /\ DOMAIN tr = 1 .. Len(tr) /\ Len(tr) \in Nat
<1> DEFINE t == Append(tr, e)
<1>1. t \in Seq(Entries) /\ t # <<>> /\ Len(t) = Len(tr) + 1 /\ t[Len(tr) + 1] = e
      /\ \A i \in 1 .. Len(tr) : t[i] = tr[i]
  BY AppendProperties
<1>2. Len(tr) \in Nat /\ DOMAIN tr = 1 .. Len(tr)
  OBVIOUS
<1> HIDE DEF t
<1>3. DOMAIN t = 1 .. Len(tr) + 1
  BY <1>1
<1>4. \A i \in 1 .. Len(tr) + 1 : i \in 1 .. Len(tr) \/ i = Len(tr) + 1
  BY <1>2
<1>5. QED
  BY <1>1, <1>2, <1>3, <1>4 DEF t

\* What is said of each entry of a transcript of a run that is not over.
Behind(tr, i) == /\ tr[i].type \in {"assistant", "toolResult"}
                 /\ tr[i].type = "toolResult" => i > 1 /\ tr[i - 1].type = "assistant" /\ tr[i - 1].calls

\* Results still stand behind their calls when a message is appended, or a result behind a call.
LEMMA BehindGrows ==
    ASSUME NEW tr \in Seq(Entries), NEW e \in Entries, \A i \in DOMAIN tr : Behind(tr, i),
           \/ e.type = "assistant"
           \/ e.type = "toolResult" /\ tr # <<>> /\ tr[Len(tr)].type = "assistant" /\ tr[Len(tr)].calls
    PROVE  \A i \in DOMAIN Append(tr, e) : Behind(Append(tr, e), i)
<1> DEFINE t == Append(tr, e)
<1>1. /\ Len(t) = Len(tr) + 1 /\ t[Len(t)] = e
      /\ \A i \in DOMAIN t : (i \in DOMAIN tr /\ t[i] = tr[i]) \/ i = Len(t)
      /\ \A i \in DOMAIN tr : t[i] = tr[i]
      /\ DOMAIN tr = 1 .. Len(tr) /\ Len(tr) \in Nat
  BY EntriesGrow
<1> HIDE DEF t
<1>2. SUFFICES ASSUME NEW i \in DOMAIN t PROVE Behind(t, i)
  BY DEF t
<1>3. CASE i \in DOMAIN tr
  <2>1. Behind(tr, i) /\ t[i] = tr[i]
    BY <1>1, <1>3
  <2>2. i > 1 => t[i - 1] = tr[i - 1]
    <3>1. i > 1 => i - 1 \in DOMAIN tr
      BY <1>1, <1>3
    <3>2. QED
      BY <1>1, <3>1
  <2>3. QED
    BY <2>1, <2>2, Zenon DEF Behind
<1>4. CASE i = Len(t)
  <2>1. t[i] = e
    BY <1>1, <1>4
  <2>2. CASE e.type = "assistant"
    <3>1. t[i].type = "assistant"
      BY <2>1, <2>2
    <3>2. "assistant" \in {"assistant", "toolResult"} /\ "assistant" # "toolResult"
      OBVIOUS
    <3>3. QED
      BY <3>1, <3>2, Zenon DEF Behind
  <2>3. CASE e.type = "toolResult" /\ tr # <<>> /\ tr[Len(tr)].type = "assistant" /\ tr[Len(tr)].calls
    <3>1. Len(tr) # 0
      BY <2>3
    <3>2. Len(tr) \in DOMAIN tr /\ i > 1 /\ i - 1 = Len(tr)
      BY <1>1, <1>4, <3>1
    <3>3. t[i - 1] = tr[Len(tr)]
      BY <1>1, <3>2
    <3>4. t[i].type = "toolResult" /\ t[i - 1].type = "assistant" /\ t[i - 1].calls
      BY <2>1, <2>3, <3>3
    <3>5. QED
      BY <3>2, <3>4 DEF Behind
  <2>4. QED
    BY <2>2, <2>3
<1>5. QED
  BY <1>1, <1>3, <1>4

\* A tool ends: its result stands behind the call just written.
LEMMA ToolEndsKeeps == ASSUME IInv, NEW isError \in BOOLEAN, ToolEnds(isError) PROVE IInv'
<1> DEFINE e == [type |-> "toolResult"]
<1>1. e \in Entries /\ e.type = "toolResult" /\ Words(e) = <<>>
  BY DEF Entries, Words
<1>2. at = "tools" /\ at' = "next" /\ tab' = tab /\ payloads' = payloads /\ spoken' = spoken
      /\ transcript' = Append(transcript, e) /\ transcript \in Seq(Entries)
  BY DEF ToolEnds, WriteToolResult, IInv, TypeOK
<1> HIDE DEF e
<1>3. /\ ctx' \in Contexts /\ ctx'.text = ctx.text /\ ctx'.suppressed = ctx.suppressed
      /\ ctx'.started = ctx.started /\ ctx'.buffering = ctx.buffering /\ ctx'.held = ctx.held
  BY DEF ToolEnds, IInv, TypeOK, Contexts
<1>4. /\ writer' \in Writers /\ writer'.text = writer.text /\ writer'.suppressed = writer.suppressed
      /\ writer'.persisted = writer.persisted
  BY DEF ToolEnds, WriteToolResult, IInv, TypeOK, Writers
<1>5. TypeOK'
  BY <1>1, <1>2, <1>3, <1>4, EntriesGrow DEF IInv, TypeOK
<1>6. Gathered'
  BY <1>2, <1>3 DEF IInv, Gathered, Inside
<1>7. Followed'
  <2> SUFFICES ASSUME Good' PROVE TabFollows' /\ TabIsFlushed' /\ FileFollows'
    BY DEF Followed
  <2>1. TabFollows /\ TabIsFlushed /\ FileFollows
    BY <1>2 DEF IInv, Followed, Good
  <2>2. TabFollows' /\ TabIsFlushed'
    BY <1>2, <1>3, <2>1 DEF TabFollows, TabIsFlushed, Inside
  <2>3. FileFollows'
    <3>1. Flat(transcript') = Flat(transcript)
      <4>1. Flat(transcript) \in Seq(Tokens) /\ Flat(transcript') = Flat(transcript) \o <<>>
        BY <1>1, <1>2, FlatTyped, FlatGrows
      <4>2. QED
        BY <4>1, Texts, Zenon
    <3>2. \A i \in DOMAIN transcript' : Behind(transcript', i)
      <4>1. \A i \in DOMAIN transcript : Behind(transcript, i)
        BY <1>2, <2>1 DEF FileFollows, Behind
      <4>2. /\ transcript # <<>>
            /\ transcript[Len(transcript)].type = "assistant"
            /\ transcript[Len(transcript)].calls
        BY <1>2, <2>1 DEF FileFollows
      <4>3. QED
        BY <1>1, <1>2, <4>1, <4>2, BehindGrows
    <3>3. QED
      BY <1>2, <1>4, <2>1, <3>1, <3>2 DEF FileFollows, Inside, Behind
  <2>4. QED
    BY <2>2, <2>3
<1>8. OutcomeIsSaid'
  BY <1>2 DEF OutcomeIsSaid
<1>9. Silence'
  BY <1>2, <1>3 DEF IInv, Silence, QuietBefore, QuietDuring, QuietAfter, First, Quiet, Inside
<1>10. QED
  BY <1>5, <1>6, <1>7, <1>8, <1>9 DEF IInv

\* A delta is held back, released with what was held, or passed on; what the tab has and what is held
\* together grow by it in each case.
LEMMA TextDeltaKeeps == ASSUME IInv, NEW word \in Tokens, TextDelta(word) PROVE IInv'
<1> DEFINE text == Append(ctx.text, word)
<1>0. TypeOK /\ Gathered
  BY DEF IInv
<1>1. /\ spoken' \in Histories /\ spoken'.said = Append(spoken.said, word)
      /\ spoken'.message = Append(spoken.message, word) /\ spoken'.block = Append(spoken.block, word)
      /\ spoken'.blocks = spoken.blocks /\ spoken'.whole = spoken.whole
      /\ spoken'.cut = spoken.cut /\ spoken'.silent = spoken.silent /\ spoken'.lost = spoken.lost
      /\ spoken'.failed = spoken.failed
  BY <1>0, Texts, Parts DEF TextDelta, TypeOK, Histories
<1>2. /\ writer' \in Writers /\ writer'.suppressed = writer.suppressed
      /\ writer'.persisted = writer.persisted /\ transcript' = transcript
  BY <1>0, Texts, Parts DEF TextDelta, WriteDelta, TypeOK, Writers
<1>3. at = "text" /\ at' = "text" /\ payloads' = payloads
  BY DEF TextDelta
<1>4. text \in Seq(Tokens) /\ text = spoken'.said /\ text # <<>>
  BY <1>0, <1>1, Texts, Parts DEF Gathered
<1> HIDE DEF text
<1>5. Heard(word, text)
  BY DEF TextDelta, text
<1> DEFINE Late == ~ctx.started
           Hold == ctx.started /\ ctx.buffering /\ PossibleNoReply(text)
           Pass == ctx.started /\ ~(ctx.buffering /\ PossibleNoReply(text))
<1>6. Late \/ Hold \/ Pass
  OBVIOUS
<1>7. ASSUME Late
      PROVE  /\ tab' = tab /\ ctx' \in Contexts /\ ctx'.text = text /\ ctx'.suppressed = ctx.suppressed
             /\ ctx'.started = ctx.started /\ ctx'.buffering = ctx.buffering /\ ctx'.held = ctx.held
  BY <1>0, <1>4, <1>5, <1>7 DEF Heard, TypeOK, Contexts
<1>8. ASSUME Hold
      PROVE  /\ tab' = tab /\ ctx' \in Contexts /\ ctx'.text = text /\ ctx'.suppressed = ctx.suppressed
             /\ ctx'.started = ctx.started /\ ctx'.buffering = ctx.buffering
             /\ ctx'.held = Append(ctx.held, word)
  <2>1. ctx' = [ctx EXCEPT !.text = text, !.held = Append(@, word)] /\ tab' = tab
    BY <1>5, <1>8 DEF Heard
  <2>2. Append(ctx.held, word) \in Seq(Tokens)
    BY <1>0, Texts, Parts
  <2>3. QED
    BY <1>0, <1>4, <2>1, <2>2 DEF TypeOK, Contexts
<1>9. ASSUME Pass
      PROVE  /\ ctx' \in Contexts /\ ctx'.text = text /\ ctx'.suppressed = ctx.suppressed
             /\ ctx'.started = ctx.started /\ ctx'.buffering = FALSE /\ ctx'.held = <<>>
             /\ tab' = SeeDelta(SeeHeld(tab, ctx), <<word>>)
  <2>1. /\ ctx' = [ctx EXCEPT !.text = text, !.buffering = FALSE, !.held = <<>>]
        /\ Emit(SeeDelta(SeeHeld(tab, ctx), <<word>>))
    BY <1>5, <1>9 DEF Heard
  <2>2. tab' = SeeDelta(SeeHeld(tab, ctx), <<word>>)
    BY <1>3, <2>1, Heeded
  <2>3. QED
    BY <1>0, <1>4, <2>1, <2>2, Texts DEF TypeOK, Contexts
<1>10. ASSUME Pass
       PROVE  /\ tab' \in Views /\ tab'.streaming = tab.streaming
              /\ tab'.content = tab.content /\ tab'.delta = (tab.delta \o ctx.held) \o <<word>>
              /\ tab'.created = (tab.created \/ ctx.buffering)
              /\ Even(tab) /\ tab'.created => Even(tab')
  <2> DEFINE u == SeeHeld(tab, ctx)
  <2>1. /\ u \in Views /\ u.content = tab.content /\ u.delta = tab.delta \o ctx.held
        /\ u.streaming = tab.streaming /\ u.created = (tab.created \/ ctx.buffering)
        /\ Even(tab) => Even(u)
    BY <1>0, HeldIs DEF TypeOK, Gathered
  <2>2. <<word>> \in Seq(Tokens)
    OBVIOUS
  <2>3. tab' = SeeDelta(u, <<word>>)
    BY <1>9, <1>10
  <2> HIDE DEF u
  <2>4. /\ tab' \in Views /\ tab'.created = u.created /\ tab'.bubble = u.bubble /\ tab'.shown = u.shown
        /\ tab'.content = u.content /\ tab'.delta = u.delta \o <<word>> /\ tab'.streaming = u.streaming
    BY <2>1, <2>2, <2>3, DeltaIs
  <2>5. QED
    BY <2>1, <2>4 DEF Even
<1>11. TypeOK'
  <2>1. ctx' \in Contexts /\ tab' \in Views
    BY <1>0, <1>6, <1>7, <1>8, <1>9, <1>10 DEF TypeOK
  <2>2. QED
    BY <1>0, <1>1, <1>2, <1>3, <2>1 DEF TypeOK
<1>12. Gathered'
  <2>1. ctx'.text = text /\ ctx'.suppressed = ctx.suppressed /\ ctx'.started = ctx.started
        /\ (~ctx'.buffering => ctx'.held = <<>>) /\ tab'.streaming = tab.streaming
    BY <1>0, <1>6, <1>7, <1>8, <1>9, <1>10 DEF Gathered
  <2>2. QED
    BY <1>0, <1>1, <1>3, <1>4, <2>1 DEF Gathered, Inside
<1>13. Followed'
  <2> SUFFICES ASSUME Good' PROVE TabFollows' /\ TabIsFlushed' /\ FileFollows'
    BY DEF Followed
  <2>1. TabFollows /\ TabIsFlushed /\ FileFollows
    BY <1>1 DEF IInv, Followed, Good
  <2>2. ~Late /\ ~ctx.suppressed /\ (tab.content \o tab.delta) \o ctx.held = spoken.said
        /\ (ctx.buffering \/ tab.created)
    BY <1>0, <1>3, <2>1 DEF TabFollows, Gathered, Inside
  <2>3. TabFollows'
    <3>1. CASE Hold
      <4>1. (tab.content \o tab.delta) \o Append(ctx.held, word) = Append(spoken.said, word)
        <5>1. /\ tab.content \o tab.delta \in Seq(Tokens) /\ ctx.held \in Seq(Tokens)
              /\ (tab.content \o tab.delta) \o ctx.held = spoken.said
          BY <1>0, <2>2, Parts, Texts
        <5>2. \A a, b \in Seq(Tokens) : a \o Append(b, word) = Append(a \o b, word)
          BY Texts
        <5>3. QED
          BY <5>1, <5>2, Zenon
      <4>2. QED
        BY <1>1, <1>3, <1>8, <2>1, <2>2, <3>1, <4>1 DEF TabFollows, Inside
    <3>2. CASE Pass
      <4>1. (tab'.content \o tab'.delta) \o ctx'.held = spoken'.said
        <5>1. tab'.content \o tab'.delta = ((tab.content \o tab.delta) \o ctx.held) \o <<word>>
          <6>1. /\ tab.content \in Seq(Tokens) /\ tab.delta \in Seq(Tokens) /\ ctx.held \in Seq(Tokens)
                /\ <<word>> \in Seq(Tokens)
            BY <1>0, Parts, Texts
          <6>2. tab'.content = tab.content /\ tab'.delta = (tab.delta \o ctx.held) \o <<word>>
            BY <1>10, <3>2
          <6>3. tab.content \o ((tab.delta \o ctx.held) \o <<word>>)
                   = ((tab.content \o tab.delta) \o ctx.held) \o <<word>>
            <7> DEFINE a == tab.content
                       b == tab.delta
                       c == ctx.held
                       d == <<word>>
            <7>1. a \in Seq(Tokens) /\ b \in Seq(Tokens) /\ c \in Seq(Tokens) /\ d \in Seq(Tokens)
              BY <6>1
            <7> HIDE DEF a, b, c, d
            <7>2. a \o ((b \o c) \o d) = ((a \o b) \o c) \o d
              <8> DEFINE x == b \o c
              <8>1. x \in Seq(Tokens)
                BY <7>1, Texts
              <8>2. a \o x = (a \o b) \o c
                BY <7>1, Texts
              <8> HIDE DEF x
              <8>3. a \o (x \o d) = (a \o x) \o d
                BY <7>1, <8>1, ConcatAssociative
              <8>4. a \o (x \o d) = ((a \o b) \o c) \o d
                BY <8>2, <8>3, Zenon
              <8>5. QED
                BY <8>4 DEF x
            <7>3. QED
              BY <7>2 DEF a, b, c, d
          <6>4. QED
            BY <6>2, <6>3
        <5>2. ((tab.content \o tab.delta) \o ctx.held) \o <<word>> = spoken'.said
          <6>1. spoken.said \o <<word>> = Append(spoken.said, word)
            BY <1>0, Parts, Texts
          <6>2. QED
            BY <1>1, <2>2, <6>1
        <5>3. spoken'.said \o <<>> = spoken'.said /\ ctx'.held = <<>>
          BY <1>4, <1>9, <3>2, Texts
        <5>4. QED
          BY <5>1, <5>2, <5>3, Zenon
      <4>2. tab'.created
        BY <1>10, <2>2, <3>2
      <4>3. Even(tab')
        <5>1. Even(tab)
          BY <1>3, <2>1 DEF TabFollows, Even
        <5>2. QED
          BY <1>10, <3>2, <4>2, <5>1
      <4>4. QED
        BY <1>3, <1>9, <2>2, <3>2, <4>1, <4>2, <4>3 DEF TabFollows, Inside, Even
    <3>3. QED
      BY <1>6, <2>2, <3>1, <3>2
  <2>4. TabIsFlushed'
    BY <1>3 DEF TabIsFlushed, Inside
  <2>5. FileFollows'
    <3>1. Flat(transcript) \o spoken'.message = spoken'.said
      <4>1. Flat(transcript) \o spoken.message = spoken.said /\ Flat(transcript) \in Seq(Tokens)
        BY <1>0, <1>3, <2>1, FlatTyped DEF FileFollows, Inside, TypeOK
      <4>2. spoken.message \in Seq(Tokens) /\ spoken.said \in Seq(Tokens)
        BY <1>0, Parts
      <4>3. \A a, b \in Seq(Tokens) : a \o Append(b, word) = Append(a \o b, word)
        BY Texts
      <4>4. QED
        BY <1>1, <4>1, <4>2, <4>3, Zenon
    <3>2. QED
      BY <1>2, <1>3, <2>1, <3>1 DEF FileFollows, Inside
  <2>6. QED
    BY <2>3, <2>4, <2>5
<1>14. OutcomeIsSaid'
  BY <1>3 DEF OutcomeIsSaid
<1>15. Silence'
  <2>1. QuietBefore' /\ QuietAfter'
    BY <1>0, <1>1, <1>3 DEF Gathered, QuietBefore, QuietAfter
  <2>2. QuietDuring'
    <3> SUFFICES ASSUME First' PROVE /\ spoken'.said = spoken'.block
                                     /\ PossibleNoReply(spoken'.said) => Quiet' /\ ctx'.started /\ ctx'.buffering
      BY DEF QuietDuring
    <3>1. /\ spoken.said = spoken.block
          /\ PossibleNoReply(spoken.said) => Quiet /\ ctx.started /\ ctx.buffering
      BY <1>1, <1>3 DEF IInv, Silence, QuietDuring, First
    <3>2. ASSUME PossibleNoReply(spoken'.said) PROVE Quiet' /\ ctx'.started /\ ctx'.buffering
      <4>1. PossibleNoReply(spoken.said)
        BY <1>0, <1>1, <3>2, Parts, PossibleShrinks
      <4>2. Hold
        BY <1>4, <3>1, <3>2, <4>1
      <4>3. QED
        BY <1>8, <3>1, <4>1, <4>2 DEF Quiet
    <3>3. QED
      BY <1>1, <3>1, <3>2
  <2>3. QED
    BY <2>1, <2>2 DEF Silence
<1>16. QED
  BY <1>11, <1>12, <1>13, <1>14, <1>15 DEF IInv

\* A block ends: it was the silent token and all is dropped, or what was held is shown.
LEMMA TextEndsKeeps == ASSUME IInv, TextEnds PROVE IInv'
<1>0. TypeOK /\ Gathered
  BY DEF IInv
<1> DEFINE silent == IsNoReply(spoken.block)
<1>1. /\ spoken' \in Histories /\ spoken'.said = spoken.said /\ spoken'.message = spoken.message
      /\ spoken'.block = spoken.block /\ spoken'.blocks = spoken.blocks /\ spoken'.whole = spoken.whole
      /\ spoken'.cut = spoken.cut /\ spoken'.silent = (spoken.silent \/ silent)
      /\ spoken'.lost = spoken.lost /\ spoken'.failed = spoken.failed
  <2>1. silent \in BOOLEAN
    BY DEF IsNoReply
  <2>2. QED
    BY <1>0, <2>1, Parts DEF TextEnds, TypeOK, Histories
<1>2. /\ writer' \in Writers /\ writer'.text = spoken.block /\ writer'.suppressed = silent
      /\ writer'.persisted = writer.persisted /\ transcript' = transcript
  <2>1. silent \in BOOLEAN
    BY DEF IsNoReply
  <2>2. QED
    BY <1>0, <2>1, Parts DEF TextEnds, WriteTextEnd, TypeOK, Writers
<1>3. at = "text" /\ at' = "message" /\ payloads' = payloads
  BY DEF TextEnds
<1>4. ASSUME silent
      PROVE  /\ ctx' \in Contexts /\ ctx'.text = ctx.text /\ ctx'.suppressed
             /\ ctx'.held = <<>> /\ tab' = Removed(tab)
  <2>1. ctx' = Suppressed(ctx) /\ Emit(Removed(tab))
    BY <1>4 DEF TextEnds
  <2>2. tab' = Removed(tab)
    BY <1>3, <2>1, Heeded
  <2>3. QED
    BY <1>0, <2>1, <2>2, Texts DEF Suppressed, TypeOK, Contexts
<1>5. ASSUME ~silent
      PROVE  /\ ctx' \in Contexts /\ ctx'.text = ctx.text /\ ctx'.suppressed = ctx.suppressed
             /\ ctx'.started = ctx.started /\ ctx'.buffering = FALSE /\ ctx'.held = <<>>
             /\ tab' = SeeHeld(tab, ctx)
  <2>1. ctx' = Released(ctx) /\ Emit(SeeHeld(tab, ctx))
    BY <1>5 DEF TextEnds
  <2>2. tab' = SeeHeld(tab, ctx)
    BY <1>3, <2>1, Heeded
  <2>3. QED
    BY <1>0, <2>1, <2>2, Texts DEF Released, TypeOK, Contexts
<1>6. ASSUME silent
      PROVE  /\ tab' \in Views /\ tab'.shown = <<>> /\ tab'.content = tab.content
             /\ tab'.delta = tab.delta /\ tab'.streaming = tab.streaming
  BY <1>0, <1>4, <1>6, RemovedIs DEF TypeOK
<1>7. ASSUME ~silent
      PROVE  /\ tab' \in Views /\ tab'.content = tab.content /\ tab'.delta = tab.delta \o ctx.held
             /\ tab'.streaming = tab.streaming /\ tab'.created = (tab.created \/ ctx.buffering)
             /\ Even(tab) => Even(tab')
  <2> DEFINE u == SeeHeld(tab, ctx)
  <2>1. /\ u \in Views /\ u.content = tab.content /\ u.delta = tab.delta \o ctx.held
        /\ u.streaming = tab.streaming /\ u.created = (tab.created \/ ctx.buffering)
        /\ Even(tab) => Even(u)
    BY <1>0, HeldIs DEF TypeOK, Gathered
  <2> HIDE DEF u
  <2>2. tab' = u
    BY <1>5, <1>7 DEF u
  <2>3. QED
    BY <2>1, <2>2
<1> HIDE DEF silent
<1>8. TypeOK'
  BY <1>0, <1>1, <1>2, <1>3, <1>4, <1>5, <1>6, <1>7 DEF TypeOK
<1>9. Gathered'
  <2>1. silent => ctx.text # <<>>
    BY <1>0, EmptyText DEF silent, Gathered
  <2>2. QED
    BY <1>0, <1>1, <1>3, <1>4, <1>5, <1>6, <1>7, <2>1 DEF Gathered, Inside
<1>10. Followed'
  <2> SUFFICES ASSUME Good' PROVE TabFollows' /\ TabIsFlushed' /\ FileFollows'
    BY DEF Followed
  <2>1. Good /\ ~silent
    BY <1>1 DEF Good
  <2>2. TabFollows /\ TabIsFlushed /\ FileFollows
    BY <2>1 DEF IInv, Followed
  <2>3. TabFollows'
    <3>1. /\ (tab.content \o tab.delta) \o ctx.held = spoken.said /\ ~ctx.suppressed
          /\ ctx.buffering \/ tab.created
          /\ Even(tab)
      BY <1>3, <2>2 DEF TabFollows, Inside, Even
    <3>2. (tab'.content \o tab'.delta) \o ctx'.held = spoken'.said
      <4>1. \A a, b, c \in Seq(Tokens) : (a \o (b \o c)) \o <<>> = (a \o b) \o c
        BY Texts
      <4>2. /\ tab.content \in Seq(Tokens) /\ tab.delta \in Seq(Tokens) /\ ctx.held \in Seq(Tokens)
        BY <1>0, Parts
      <4>3. /\ tab'.content = tab.content /\ tab'.delta = tab.delta \o ctx.held
            /\ ctx'.held = <<>> /\ spoken'.said = spoken.said
        BY <1>1, <1>5, <1>7, <2>1
      <4>4. (tab.content \o (tab.delta \o ctx.held)) \o <<>> = (tab.content \o tab.delta) \o ctx.held
        BY <4>1, <4>2, Zenon
      <4>5. QED
        BY <3>1, <4>3, <4>4
    <3>3. QED
      BY <1>3, <1>5, <1>7, <2>1, <3>1, <3>2 DEF TabFollows, Inside, Even
  <2>4. TabIsFlushed'
    BY <1>3 DEF TabIsFlushed, Inside
  <2>5. FileFollows'
    <3>1. ~IsNoReply(writer'.text) /\ ~writer'.suppressed
      BY <1>2, <2>1 DEF silent
    <3>2. QED
      BY <1>1, <1>2, <1>3, <2>2, <3>1 DEF FileFollows, Inside
  <2>6. QED
    BY <2>3, <2>4, <2>5
<1>11. OutcomeIsSaid'
  BY <1>3 DEF OutcomeIsSaid
<1>12. Silence'
  <2>1. QuietBefore'
    BY <1>0, <1>1, <1>3 DEF Gathered, QuietBefore
  <2>2. QuietDuring'
    BY <1>3 DEF QuietDuring
  <2>3. QuietAfter'
    <3> SUFFICES ASSUME First', IsNoReply(spoken'.said) PROVE Quiet' /\ ctx'.suppressed
      BY <1>3 DEF QuietAfter
    <3>1. /\ spoken.said = spoken.block
          /\ PossibleNoReply(spoken.said) => Quiet
      BY <1>1, <1>3 DEF IInv, Silence, QuietDuring, First
    <3>2. silent /\ Quiet
      BY <1>1, <3>1 DEF silent, PossibleNoReply
    <3>3. QED
      BY <1>4, <1>6, <3>2 DEF Quiet
  <2>4. QED
    BY <2>1, <2>2, <2>3 DEF Silence
<1>13. QED
  BY <1>8, <1>9, <1>10, <1>11, <1>12 DEF IInv

-----------------------------------------------------------------------------
(* The end of a message, whether it was cut or not. *)

\* What was held back, and a text that was not streamed, are shown with what waits.
LEMMA FlushHeldIs ==
    ASSUME NEW t \in Views, NEW c \in Contexts, ~c.buffering => c.held = <<>>, NEW w \in Seq(Tokens),
           NEW u, \/ u = Flushed(SeeDelta(SeeHeld(t, c), w))
                  \/ w = <<>> /\ u = Flushed(SeeHeld(t, c))
    PROVE  /\ u \in Views /\ u.streaming = t.streaming /\ u.delta = <<>>
           /\ u.content = (t.content \o (t.delta \o c.held)) \o w
           /\ u.created = (t.created \/ c.buffering)
           /\ Even(t) /\ u.created => Even(u)
           /\ t.shown = <<>> /\ u.content = <<>> => u.shown = <<>>
<1> DEFINE h == SeeHeld(t, c)
           d == SeeDelta(h, w)
<1>1. /\ h \in Views /\ h.content = t.content /\ h.delta = t.delta \o c.held
      /\ h.streaming = t.streaming /\ h.created = (t.created \/ c.buffering)
      /\ (t.shown = <<>> => h.shown = <<>>) /\ (Even(t) => Even(h))
  BY HeldIs
<1>2. /\ t.content \in Seq(Tokens) /\ t.delta \in Seq(Tokens) /\ c.held \in Seq(Tokens)
      /\ t.delta \o c.held \in Seq(Tokens) /\ t.content \o (t.delta \o c.held) \in Seq(Tokens)
  BY Texts DEF Views, Contexts
<1> HIDE DEF h
<1>3. ASSUME NEW v \in Views, v.content = h.content, v.delta = h.delta \o w, v.streaming = h.streaming,
             v.created = h.created, v.bubble = h.bubble, v.shown = h.shown, u = Flushed(v)
      PROVE  /\ u \in Views /\ u.streaming = t.streaming /\ u.delta = <<>>
             /\ u.content = (t.content \o (t.delta \o c.held)) \o w
             /\ u.created = (t.created \/ c.buffering)
             /\ Even(t) /\ u.created => Even(u)
             /\ t.shown = <<>> /\ u.content = <<>> => u.shown = <<>>
  <2>1. /\ u \in Views /\ u.created = v.created /\ u.bubble = v.bubble
        /\ u.shown = (IF v.bubble THEN v.content \o v.delta ELSE v.shown)
        /\ u.content = v.content \o v.delta /\ u.delta = <<>> /\ u.streaming = v.streaming
    BY <1>3, FlushedIs
  <2>2. u.content = (t.content \o (t.delta \o c.held)) \o w
    <3>1. u.content = h.content \o (h.delta \o w)
      BY <1>3, <2>1
    <3>2. h.content \in Seq(Tokens) /\ h.delta \in Seq(Tokens)
      BY <1>1, <1>2
    <3>3. h.content \o (h.delta \o w) = (h.content \o h.delta) \o w
      <4> DEFINE p == h.content
                 q == h.delta
      <4>1. p \in Seq(Tokens) /\ q \in Seq(Tokens) /\ w \in Seq(Tokens)
        BY <3>2
      <4> HIDE DEF p, q
      <4>2. p \o (q \o w) = (p \o q) \o w
        BY <4>1, ConcatAssociative
      <4>3. QED
        BY <4>2 DEF p, q
    <3>4. QED
      BY <1>1, <3>1, <3>3
  <2>3. Even(t) /\ u.created => Even(u)
    BY <1>1, <1>3, <2>1 DEF Even
  <2>4. t.shown = <<>> /\ u.content = <<>> => u.shown = <<>>
    BY <1>1, <1>3, <2>1
  <2>5. QED
    BY <1>1, <1>3, <2>1, <2>2, <2>3, <2>4
<1>4. CASE u = Flushed(d)
  <2>1. /\ d \in Views /\ d.created = h.created /\ d.bubble = h.bubble /\ d.shown = h.shown
        /\ d.content = h.content /\ d.delta = h.delta \o w /\ d.streaming = h.streaming
    BY <1>1, DeltaIs
  <2> HIDE DEF d
  <2>2. QED
    BY <1>3, <1>4, <2>1
<1>5. CASE w = <<>> /\ u = Flushed(h)
  <2>1. h.delta = h.delta \o w
    BY <1>1, <1>2, <1>5, Texts
  <2>2. QED
    BY <1>1, <1>3, <1>5, <2>1
<1>6. QED
  BY <1>4, <1>5 DEF h, d

\* The text that is sent at the end, if any, and the three things that may become of the message:
\* nothing new is shown of it, it is silent, or it is shown whole.
Fallback(whole) == IF ctx.text = <<>> THEN whole ELSE <<>>

Deaf(whole) == /\ Fallback(whole) = <<>> /\ (ctx.suppressed \/ ctx.text = <<>>)
               /\ tab' = tab /\ ctx'.text = ctx.text /\ ctx'.suppressed = ctx.suppressed

Mute(whole) == /\ ~ctx.suppressed /\ Fallback(whole) # <<>> /\ IsNoReply(Fallback(whole))
               /\ tab' = Removed(tab) /\ ctx'.text = Fallback(whole) /\ ctx'.suppressed = TRUE

Told(whole) == /\ ~ctx.suppressed /\ (Fallback(whole) = <<>> \/ ~IsNoReply(Fallback(whole)))
               /\ \/ tab' = Flushed(SeeDelta(SeeHeld(tab, ctx), Fallback(whole)))
                  \/ Fallback(whole) = <<>> /\ tab' = Flushed(SeeHeld(tab, ctx))
               /\ ctx'.text = (IF Fallback(whole) # <<>> THEN Fallback(whole) ELSE ctx.text)
               /\ ctx'.suppressed = FALSE

\* What message_end leaves of context and tab: nothing changed, the message removed, or all of it told.
LEMMA OverIs ==
    ASSUME IInv, Inside, NEW whole \in Seq(Tokens), MessageOver(whole)
    PROVE  /\ ctx' \in Contexts /\ ctx'.buffering = FALSE /\ ctx'.held = <<>>
           /\ Deaf(whole) \/ Mute(whole) \/ Told(whole)
<1> DEFINE fb == IF ctx.text = <<>> THEN whole ELSE <<>>
<1>0. TypeOK /\ Gathered /\ at # "over"
  BY DEF IInv, Inside
<1>1. fb = Fallback(whole) /\ fb \in Seq(Tokens)
  BY Texts DEF Fallback
<1>2. /\ ctx \in Contexts /\ ctx.suppressed \in BOOLEAN
      /\ (ctx.started \/ ctx.suppressed) /\ (ctx.suppressed => ctx.text # <<>>)
  BY <1>0, Parts DEF TypeOK, Gathered
<1> HIDE DEF fb
<1>3. CASE ~ctx.started \/ ctx.suppressed
  <2>1. ctx' = Closed(ctx) /\ tab' = tab
    BY <1>3 DEF MessageOver
  <2>2. /\ ctx' \in Contexts /\ ctx'.buffering = FALSE /\ ctx'.held = <<>>
        /\ ctx'.text = ctx.text /\ ctx'.suppressed = ctx.suppressed
    BY <1>2, <2>1, Texts DEF Closed, Released, Contexts
  <2>3. fb = <<>> /\ ctx.suppressed
    BY <1>2, <1>3 DEF fb
  <2>4. QED
    BY <1>1, <2>1, <2>2, <2>3 DEF Deaf
<1>4. CASE /\ ~(~ctx.started \/ ctx.suppressed)
           /\ fb # <<>> /\ IsNoReply(fb)
  <2>1. ctx' = [Suppressed(ctx) EXCEPT !.text = fb] /\ Emit(Removed(tab))
    BY <1>4 DEF MessageOver, fb
  <2>2. tab' = Removed(tab)
    BY <1>0, <2>1, Heeded
  <2>3. /\ ctx' \in Contexts /\ ctx'.buffering = FALSE /\ ctx'.held = <<>>
        /\ ctx'.text = fb /\ ctx'.suppressed = TRUE
    BY <1>1, <1>2, <2>1, Texts DEF Suppressed, Contexts
  <2>4. QED
    BY <1>1, <1>4, <2>2, <2>3 DEF Mute
<1>5. CASE /\ ~(~ctx.started \/ ctx.suppressed)
           /\ fb # <<>> /\ ~IsNoReply(fb)
  <2>1. ctx' = [Closed(ctx) EXCEPT !.text = fb] /\ Emit(Flushed(SeeDelta(SeeHeld(tab, ctx), fb)))
    BY <1>5 DEF MessageOver, fb
  <2>2. tab' = Flushed(SeeDelta(SeeHeld(tab, ctx), fb))
    BY <1>0, <2>1, Heeded
  <2>3. /\ ctx' \in Contexts /\ ctx'.buffering = FALSE /\ ctx'.held = <<>>
        /\ ctx'.text = fb /\ ctx'.suppressed = ctx.suppressed
    BY <1>1, <1>2, <2>1, Texts DEF Closed, Released, Contexts
  <2>4. ctx'.suppressed = FALSE
    BY <1>2, <1>5, <2>3
  <2>5. QED
    BY <1>1, <1>5, <2>2, <2>3, <2>4 DEF Told
<1>6. CASE /\ ~(~ctx.started \/ ctx.suppressed)
           /\ fb = <<>> /\ ctx.hadThinking /\ ctx.text = <<>>
  <2>1. ctx' = Closed(ctx) /\ tab' = tab
    BY <1>6 DEF MessageOver, fb
  <2>2. /\ ctx' \in Contexts /\ ctx'.buffering = FALSE /\ ctx'.held = <<>>
        /\ ctx'.text = ctx.text /\ ctx'.suppressed = ctx.suppressed
    BY <1>2, <2>1, Texts DEF Closed, Released, Contexts
  <2>3. QED
    BY <1>1, <1>6, <2>1, <2>2 DEF Deaf
<1>7. CASE /\ ~(~ctx.started \/ ctx.suppressed)
           /\ fb = <<>> /\ ~(ctx.hadThinking /\ ctx.text = <<>>)
  <2>1. ctx' = Closed(ctx) /\ Emit(Flushed(SeeHeld(tab, ctx)))
    BY <1>7 DEF MessageOver, fb
  <2>2. tab' = Flushed(SeeHeld(tab, ctx))
    BY <1>0, <2>1, Heeded
  <2>3. /\ ctx' \in Contexts /\ ctx'.buffering = FALSE /\ ctx'.held = <<>>
        /\ ctx'.text = ctx.text /\ ctx'.suppressed = ctx.suppressed
    BY <1>2, <2>1, Texts DEF Closed, Released, Contexts
  <2>4. ctx'.suppressed = FALSE
    BY <1>2, <1>7, <2>3
  <2>5. QED
    BY <1>1, <1>7, <2>2, <2>3, <2>4 DEF Told
<1>8. QED
  BY <1>3, <1>4, <1>5, <1>6, <1>7

\* A message that is neither silent nor empty is written.
Kept(content, calls) ==
    /\ transcript' = Append(transcript, [type |-> "assistant", text |-> content, calls |-> calls])
    /\ writer'.persisted = TRUE
Dropped == transcript' = transcript /\ writer'.persisted = writer.persisted

\* What message_end leaves of writer and transcript; an entry that says something is kept unless silent.
LEMMA WrittenIs ==
    ASSUME TypeOK, NEW content \in Seq(Tokens), NEW thought \in BOOLEAN, NEW calls \in BOOLEAN,
           WriteMessage(content, thought, calls)
    PROVE  /\ writer' \in Writers /\ writer'.text = <<>> /\ writer'.suppressed = FALSE
           /\ transcript' \in Seq(Entries)
           /\ Kept(content, calls) \/ Dropped
           /\ (~writer.suppressed /\ ~IsNoReply(writer.text) /\ ~IsNoReply(content)) =>
                 (Kept(content, calls) \/ (Dropped /\ content = <<>> /\ ~calls))
<1> DEFINE text == IF writer.text = <<>> THEN content ELSE writer.text
           thinkingOnly == text = <<>> /\ thought
           dropped == \/ text = <<>> /\ ~thinkingOnly /\ ~calls
                      \/ writer.suppressed
                      \/ ~thinkingOnly /\ ~calls /\ IsNoReply(text)
           e == [type |-> "assistant", text |-> content, calls |-> calls]
<1>1. /\ transcript' = IF dropped THEN transcript ELSE Append(transcript, e)
      /\ writer' = [writer EXCEPT !.persisted = @ \/ ~dropped, !.text = <<>>, !.suppressed = FALSE]
  BY DEF WriteMessage
<1>2. e \in Entries
  BY DEF Entries
<1>3. (~writer.suppressed /\ ~IsNoReply(writer.text) /\ ~IsNoReply(content)) => (dropped => content = <<>> /\ ~calls)
  BY Zenon
<1>4. dropped \in BOOLEAN
  BY Parts DEF IsNoReply
<1> HIDE DEF dropped, e
<1>5. /\ writer' \in Writers /\ writer'.text = <<>> /\ writer'.suppressed = FALSE
      /\ writer'.persisted = (writer.persisted \/ ~dropped)
  BY <1>1, <1>4, Texts DEF TypeOK, Writers
<1>6. CASE dropped
  <2>1. Dropped
    BY <1>1, <1>5, <1>6, Parts DEF Dropped
  <2>2. QED
    BY <1>3, <1>5, <1>6, <2>1 DEF Dropped, TypeOK
<1>7. CASE ~dropped
  <2>1. Kept(content, calls)
    BY <1>1, <1>5, <1>7, Parts DEF Kept, e
  <2>2. transcript' \in Seq(Entries)
    BY <1>1, <1>2, <1>7, EntriesGrow DEF TypeOK
  <2>3. QED
    BY <1>5, <2>1, <2>2
<1>8. QED
  BY <1>6, <1>7

\* What both ends of a message do to the rest of the state.
Over(whole, calls) ==
    /\ at' = IF calls THEN "tools" ELSE "done"
    /\ payloads' = payloads
    /\ spoken' \in Histories
    /\ spoken'.said = IF ctx.text = <<>> THEN spoken.said \o whole ELSE spoken.said
    /\ spoken'.block = spoken.block /\ spoken'.blocks = spoken.blocks
    /\ spoken'.whole = (spoken.whole \/ (whole # <<>> /\ ctx.text = <<>>))
    /\ spoken.cut \/ at = "text" => spoken'.cut
    /\ Good' => /\ Good /\ ~IsNoReply(spoken.message \o whole) /\ (whole = <<>> \/ ctx.text = <<>>)
                /\ at = "text" => ~IsNoReply(writer.text)

\* Both ways in which a message ends keep the invariant.
LEMMA OverKeeps ==
    ASSUME IInv, Inside, NEW whole \in Seq(Tokens), NEW calls \in BOOLEAN,
           spoken.message # <<>> => whole = <<>>,
           MessageOver(whole), WriteMessage(spoken.message \o whole, spoken.thought, calls),
           Over(whole, calls)
    PROVE  IInv'
<1> DEFINE content == spoken.message \o whole
           fb == Fallback(whole)
<1>0. TypeOK /\ Gathered /\ at \in {"message", "thinking", "text"}
  BY DEF IInv, Inside
<1>1. /\ ctx' \in Contexts /\ ctx'.buffering = FALSE /\ ctx'.held = <<>>
      /\ Deaf(whole) \/ Mute(whole) \/ Told(whole)
  BY OverIs
<1>2. content \in Seq(Tokens)
  BY <1>0, Parts, Texts
<1>3. /\ writer' \in Writers /\ writer'.text = <<>> /\ writer'.suppressed = FALSE
      /\ transcript' \in Seq(Entries) /\ (Kept(content, calls) \/ Dropped)
      /\ (~writer.suppressed /\ ~IsNoReply(writer.text) /\ ~IsNoReply(content)) =>
            (Kept(content, calls) \/ (Dropped /\ content = <<>> /\ ~calls))
  BY <1>0, <1>2, Parts, WrittenIs
<1>4. at' \in {"tools", "done"} /\ payloads' = payloads /\ spoken' \in Histories
  BY DEF Over
<1>5. fb \in Seq(Tokens) /\ (ctx.text = <<>> => fb = whole) /\ (ctx.text # <<>> => fb = <<>>)
  BY Texts DEF Fallback
<1> HIDE DEF fb
<1>6. spoken'.said = spoken.said \o fb /\ spoken.said \in Seq(Tokens)
  <2>1. spoken.said \in Seq(Tokens)
    BY <1>0, Parts
  <2>2. CASE ctx.text = <<>>
    BY <1>5, <2>1, <2>2 DEF Over
  <2>3. CASE ctx.text # <<>>
    <3>1. spoken'.said = spoken.said /\ fb = <<>>
      BY <1>5, <2>3 DEF Over
    <3>2. spoken.said \o <<>> = spoken.said
      BY <2>1, Texts
    <3>3. QED
      BY <2>1, <3>1, <3>2
  <2>4. QED
    BY <2>2, <2>3
\* The view after a message that was told.
<1>7. ASSUME Told(whole)
      PROVE  /\ tab' \in Views /\ tab'.streaming = tab.streaming /\ tab'.delta = <<>>
             /\ tab'.content = (tab.content \o (tab.delta \o ctx.held)) \o fb
             /\ tab'.created = (tab.created \/ ctx.buffering)
             /\ Even(tab) /\ tab'.created => Even(tab')
             /\ tab.shown = <<>> /\ tab'.content = <<>> => tab'.shown = <<>>
  <2>1. tab \in Views /\ ctx \in Contexts /\ (~ctx.buffering => ctx.held = <<>>)
    BY <1>0 DEF TypeOK, Gathered
  <2>2. \/ tab' = Flushed(SeeDelta(SeeHeld(tab, ctx), fb))
        \/ fb = <<>> /\ tab' = Flushed(SeeHeld(tab, ctx))
    BY <1>7 DEF Told, fb
  <2>3. QED
    BY <1>5, <2>1, <2>2, FlushHeldIs
<1>8. ASSUME Mute(whole)
      PROVE  /\ tab' \in Views /\ tab'.shown = <<>> /\ tab'.content = tab.content
             /\ tab'.delta = tab.delta /\ tab'.streaming = tab.streaming
  BY <1>0, <1>8, RemovedIs DEF TypeOK, Mute
<1>9. TypeOK'
  <2>1. tab' \in Views
    BY <1>0, <1>1, <1>7, <1>8 DEF TypeOK, Deaf
  <2>2. QED
    BY <1>0, <1>1, <1>3, <1>4, <2>1 DEF TypeOK
<1>10. Gathered'
  <2>1. ctx'.text = spoken.said \o fb
    <3>1. CASE fb = <<>>
      BY <1>0, <1>1, <1>6, <3>1, Texts DEF Gathered, Deaf, Mute, Told, fb
    <3>2. CASE fb # <<>>
      <4>1. ctx'.text = fb /\ spoken.said = <<>>
        BY <1>0, <1>1, <1>5, <3>2 DEF Gathered, Deaf, Mute, Told, fb
      <4>2. QED
        BY <1>5, <4>1, Texts
    <3>3. QED
      BY <3>1, <3>2
  <2>2. ctx'.suppressed => ctx'.text # <<>>
    BY <1>0, <1>1 DEF Gathered, Deaf, Mute, Told
  <2>3. tab'.streaming = tab.streaming
    BY <1>1, <1>7, <1>8 DEF Deaf
  <2>4. (spoken'.whole \/ spoken'.block # <<>>) => spoken'.said # <<>>
    <3>1. spoken.said # <<>> => spoken'.said # <<>>
      BY <1>5, <1>6, Texts
    <3>2. whole # <<>> /\ ctx.text = <<>> => spoken'.said # <<>>
      BY <1>5, <1>6, Texts
    <3>3. QED
      BY <1>0, <3>1, <3>2 DEF Gathered, Over
  <2>5. QED
    BY <1>0, <1>1, <1>4, <1>6, <2>1, <2>2, <2>3, <2>4 DEF Gathered, Inside
<1>11. Followed'
  <2> SUFFICES ASSUME Good' PROVE TabFollows' /\ TabIsFlushed' /\ FileFollows'
    BY DEF Followed
  <2>1. /\ Good /\ ~IsNoReply(content) /\ (whole = <<>> \/ ctx.text = <<>>)
        /\ at = "text" => ~IsNoReply(writer.text)
    BY DEF Over
  <2>2. TabFollows /\ TabIsFlushed /\ FileFollows
    BY <2>1 DEF IInv, Followed
  <2>3. /\ (tab.content \o tab.delta) \o ctx.held = spoken.said /\ ~ctx.suppressed
        /\ ctx.buffering \/ tab.created
        /\ Even(tab)
    BY <1>0, <2>2 DEF TabFollows, Inside, Even
  <2>4. ~Mute(whole)
    <3> SUFFICES ASSUME Mute(whole) PROVE FALSE
      OBVIOUS
    <3>1. fb # <<>> /\ IsNoReply(fb)
      BY DEF Mute, fb
    <3>2. fb = whole /\ spoken.message = <<>>
      BY <1>5, <3>1
    <3>3. content = fb
      BY <3>2, Texts
    <3>4. QED
      BY <2>1, <3>1, <3>3
  <2>5. TabFollows' /\ TabIsFlushed'
    <3>1. CASE Deaf(whole)
      <4>1. tab' = tab /\ ctx'.suppressed = ctx.suppressed /\ ctx.text = <<>> /\ fb = <<>>
        BY <2>3, <3>1 DEF Deaf, fb
      <4>2. tab.delta = <<>> /\ ctx.held = <<>> /\ spoken'.said = spoken.said
        <5>1. spoken.said = <<>>
          BY <1>0, <4>1 DEF Gathered
        <5>2. tab.content \o tab.delta \in Seq(Tokens) /\ tab.content \in Seq(Tokens) /\ tab.delta \in Seq(Tokens)
              /\ ctx.held \in Seq(Tokens)
          BY <1>0, Parts, Texts
        <5>3. tab.content \o tab.delta = <<>> /\ ctx.held = <<>>
          BY <2>3, <5>1, <5>2, Texts
        <5>4. QED
          BY <1>6, <4>1, <5>2, <5>3, Texts
      <4>3. QED
        BY <1>1, <1>4, <2>3, <4>1, <4>2 DEF TabFollows, TabIsFlushed, Inside, Even
    <3>2. CASE Told(whole)
      <4>1. tab'.created /\ Even(tab') /\ tab'.delta = <<>> /\ ctx'.suppressed = FALSE
        BY <1>7, <2>3, <3>2 DEF Told
      <4>2. (tab'.content \o tab'.delta) \o ctx'.held = spoken'.said
        <5>1. tab'.content = spoken'.said
          <6>1. tab.content \in Seq(Tokens) /\ tab.delta \in Seq(Tokens) /\ ctx.held \in Seq(Tokens)
            BY <1>0, Parts
          <6>2. tab.content \o (tab.delta \o ctx.held) = (tab.content \o tab.delta) \o ctx.held
            BY <6>1, Texts, Zenon
          <6>3. QED
            BY <1>6, <1>7, <2>3, <3>2, <6>2
        <5>2. \A a \in Seq(Tokens) : (a \o <<>>) \o <<>> = a
          BY Texts
        <5>3. spoken'.said \in Seq(Tokens)
          BY <1>4 DEF Histories
        <5>4. QED
          BY <1>1, <4>1, <5>1, <5>2, <5>3, Zenon
      <4>3. QED
        BY <1>1, <1>4, <4>1, <4>2 DEF TabFollows, TabIsFlushed, Inside, Even
    <3>3. QED
      BY <1>1, <2>4, <3>1, <3>2
  <2>6. FileFollows'
    <3>1. /\ Flat(transcript) \o spoken.message = spoken.said
          /\ writer.persisted \/ Flat(transcript) = <<>>
          /\ ~writer.suppressed /\ ~IsNoReply(writer.text)
          /\ \A i \in DOMAIN transcript : Behind(transcript, i)
      BY <1>0, <2>1, <2>2 DEF FileFollows, Inside, Behind
    <3>2. /\ Flat(transcript) \in Seq(Tokens) /\ transcript \in Seq(Entries)
          /\ spoken.message \in Seq(Tokens)
      BY <1>0, FlatTyped, Parts DEF TypeOK
    <3>3. spoken'.said = Flat(transcript) \o content
      <4>1. fb = whole
        BY <1>5, <2>1
      <4>2. Flat(transcript) \o content = (Flat(transcript) \o spoken.message) \o whole
        <5> DEFINE a == Flat(transcript)
                   b == spoken.message
        <5>1. a \in Seq(Tokens) /\ b \in Seq(Tokens) /\ whole \in Seq(Tokens)
          BY <3>2
        <5> HIDE DEF a, b
        <5>2. a \o (b \o whole) = (a \o b) \o whole
          BY <5>1, Texts, Zenon
        <5>3. QED
          BY <5>2 DEF a, b
      <4>3. QED
        BY <1>6, <3>1, <4>1, <4>2
    <3>4. CASE Kept(content, calls)
      <4> DEFINE e == [type |-> "assistant", text |-> content, calls |-> calls]
      <4>1. e \in Entries /\ e.type = "assistant" /\ e.calls = calls /\ Words(e) = content
        BY <1>2 DEF Entries, Words
      <4>2. transcript' = Append(transcript, e) /\ writer'.persisted = TRUE
        BY <3>4 DEF Kept
      <4> HIDE DEF e
      <4>3. Flat(transcript') = spoken'.said
        BY <3>2, <3>3, <4>1, <4>2, FlatGrows
      <4>4. \A i \in DOMAIN transcript' : Behind(transcript', i)
        BY <3>1, <3>2, <4>1, <4>2, BehindGrows
      <4>5. transcript' # <<>> /\ transcript'[Len(transcript')] = e
        BY <3>2, <4>1, <4>2, EntriesGrow
      <4>6. at' = "tools" => calls
        BY DEF Over
      <4>7. QED
        BY <1>3, <1>4, <4>1, <4>2, <4>3, <4>4, <4>5, <4>6 DEF FileFollows, Inside, Behind
    <3>5. CASE Dropped /\ content = <<>> /\ ~calls
      <4>1. Flat(transcript') = spoken'.said /\ transcript' = transcript /\ writer'.persisted = writer.persisted
        BY <3>2, <3>3, <3>5, Texts DEF Dropped
      <4>2. at' = "done"
        BY <3>5 DEF Over
      <4>3. QED
        BY <1>3, <3>1, <4>1, <4>2 DEF FileFollows, Inside, Behind
    <3>6. QED
      BY <1>3, <2>1, <3>1, <3>4, <3>5
  <2>7. QED
    BY <2>5, <2>6
<1>12. OutcomeIsSaid'
  BY <1>4 DEF OutcomeIsSaid
<1>13. Silence'
  <2>1. QuietBefore'
    <3> SUFFICES ASSUME spoken'.blocks = 0, ~spoken'.whole
                 PROVE  spoken'.said = <<>> /\ ctx'.held = <<>> /\ Quiet'
      BY <1>4 DEF QuietBefore, Inside
    <3>1. spoken.said = <<>> /\ ctx.held = <<>> /\ Quiet
      BY DEF Over, IInv, Silence, QuietBefore
    <3>2. fb = <<>>
      BY <1>0, <1>5, <3>1 DEF Over, Gathered
    <3>3. CASE Deaf(whole)
      BY <1>1, <1>6, <3>1, <3>2, <3>3, Texts DEF Deaf, Quiet
    <3>4. CASE Told(whole)
      <4>1. tab'.content = <<>>
        BY <1>7, <3>1, <3>2, <3>4, Texts DEF Quiet
      <4>2. QED
        BY <1>1, <1>6, <1>7, <3>1, <3>2, <3>4, <4>1, Texts DEF Quiet
    <3>5. QED
      BY <1>1, <3>2, <3>3, <3>4 DEF Mute, fb
  <2>2. QuietDuring'
    BY <1>4 DEF QuietDuring
  <2>3. QuietAfter'
    <3> SUFFICES ASSUME First', IsNoReply(spoken'.said) PROVE Quiet' /\ ctx'.suppressed
      BY <1>4 DEF QuietAfter
    <3>1. First /\ at # "text" /\ (spoken'.whole => spoken.blocks = 0)
      BY DEF First, Over
    <3>2. CASE fb = <<>>
      <4>1. spoken'.said = spoken.said
        BY <1>6, <3>2, Texts
      <4>2. Quiet /\ ctx.suppressed
        BY <1>0, <3>1, <4>1 DEF IInv, Silence, QuietAfter
      <4>3. QED
        BY <1>1, <4>2 DEF Deaf, Mute, Told, Quiet
    <3>3. CASE fb # <<>>
      <4>1. fb = whole /\ ctx.text = <<>> /\ spoken.said = <<>>
        BY <1>0, <1>5, <3>3 DEF Gathered
      <4>2. spoken'.whole /\ ~spoken.whole
        BY <1>0, <3>3, <4>1 DEF Over, Gathered
      <4>3. Quiet
        BY <3>1, <4>2 DEF IInv, Silence, QuietBefore
      <4>4. spoken'.said = fb
        BY <1>5, <1>6, <4>1, Texts
      <4>5. Mute(whole)
        BY <1>1, <3>3, <4>4 DEF Deaf, Told, fb
      <4>6. QED
        BY <1>8, <4>3, <4>5 DEF Quiet, Mute
    <3>4. QED
      BY <3>2, <3>3
  <2>4. QED
    BY <2>1, <2>2, <2>3 DEF Silence
<1>14. QED
  BY <1>9, <1>10, <1>11, <1>12, <1>13 DEF IInv

\* The two ends of a message, and that of the run.
LEMMA MessageEndsKeeps ==
    ASSUME IInv, NEW whole \in Wholes, NEW calls \in BOOLEAN, MessageEnds(whole, calls)
    PROVE  IInv'
<1>0. TypeOK /\ whole \in Seq(Tokens) /\ Inside /\ at = "message"
  BY StreamBounds DEF IInv, MessageEnds, Inside
<1> DEFINE silent == IsNoReply(spoken.message \o whole)
           late == whole # <<>> /\ ctx.text # <<>>
           early == whole # <<>> /\ ctx.text = <<>>
           said == IF ctx.text = <<>> THEN spoken.said \o whole ELSE spoken.said
<1>1. silent \in BOOLEAN /\ late \in BOOLEAN /\ early \in BOOLEAN /\ said \in Seq(Tokens)
  BY <1>0, Parts, Texts DEF IsNoReply
<1>2. spoken' = [spoken EXCEPT !.said = said, !.whole = @ \/ early, !.silent = @ \/ silent, !.lost = @ \/ late]
  BY DEF MessageEnds
<1> HIDE DEF silent, said, late, early
<1>3. /\ spoken' \in Histories /\ spoken'.said = said
      /\ spoken'.block = spoken.block /\ spoken'.blocks = spoken.blocks /\ spoken'.cut = spoken.cut
      /\ spoken'.whole = (spoken.whole \/ early) /\ spoken'.silent = (spoken.silent \/ silent)
      /\ spoken'.lost = (spoken.lost \/ late) /\ spoken'.failed = spoken.failed
  <2>1. (spoken.whole \/ early) \in BOOLEAN /\ (spoken.silent \/ silent) \in BOOLEAN
        /\ (spoken.lost \/ late) \in BOOLEAN
    OBVIOUS
  <2>2. spoken \in Histories
    BY <1>0 DEF TypeOK
  <2> DEFINE w == spoken.whole \/ early
             s == spoken.silent \/ silent
             l == spoken.lost \/ late
  <2>3. spoken' = [spoken EXCEPT !.said = said, !.whole = w, !.silent = s, !.lost = l]
    BY <1>2
  <2> HIDE DEF w, s, l
  <2>4. /\ spoken' \in Histories /\ spoken'.said = said
        /\ spoken'.block = spoken.block /\ spoken'.blocks = spoken.blocks /\ spoken'.cut = spoken.cut
        /\ spoken'.whole = w /\ spoken'.silent = s /\ spoken'.lost = l /\ spoken'.failed = spoken.failed
    <3>1. w \in BOOLEAN /\ s \in BOOLEAN /\ l \in BOOLEAN
      BY <2>1 DEF w, s, l
    <3>2. QED
      BY <1>1, <2>2, <2>3, <3>1 DEF Histories
  <2>5. QED
    BY <2>4 DEF w, s, l
<1>4. Good' => Good /\ ~silent /\ ~late
  BY <1>3 DEF Good
<1>5. Over(whole, calls)
  BY <1>0, <1>3, <1>4 DEF Over, MessageEnds, said, silent, late, early
<1>6. QED
  BY <1>0, <1>5, OverKeeps DEF MessageEnds

\* A cut message ends with what was streamed.
LEMMA MessageCutKeeps == ASSUME IInv, MessageCut PROVE IInv'
<1>0. TypeOK /\ Inside /\ at' = "done" /\ payloads' = payloads /\ MessageOver(<<>>)
      /\ WriteMessage(spoken.message, spoken.thought, FALSE)
  BY DEF IInv, MessageCut, Inside
<1> DEFINE silent == IsNoReply(spoken.message)
           written == IsNoReply(writer.text)
<1>1. silent \in BOOLEAN /\ written \in BOOLEAN
  BY DEF IsNoReply
<1>2. spoken' = [spoken EXCEPT !.cut = TRUE, !.silent = @ \/ silent \/ written]
  BY DEF MessageCut
<1> HIDE DEF silent, written
<1>3. /\ spoken' \in Histories /\ spoken'.said = spoken.said
      /\ spoken'.block = spoken.block /\ spoken'.blocks = spoken.blocks /\ spoken'.cut
      /\ spoken'.whole = spoken.whole /\ spoken'.silent = (spoken.silent \/ silent \/ written)
      /\ spoken'.lost = spoken.lost /\ spoken'.failed = spoken.failed
  BY <1>0, <1>1, <1>2 DEF TypeOK, Histories
<1>4. Good' => Good /\ ~silent /\ ~written
  BY <1>3 DEF Good
<1>5. spoken.message \o <<>> = spoken.message /\ spoken.said \o <<>> = spoken.said
  BY <1>0, Parts, Texts
<1>6. spoken'.whole = (spoken.whole \/ (<<>> # <<>> /\ ctx.text = <<>>))
  BY <1>0, <1>3, Parts
<1>7. Over(<<>>, FALSE)
  BY <1>0, <1>3, <1>4, <1>5, <1>6 DEF Over, silent, written
<1>8. WriteMessage(spoken.message \o <<>>, spoken.thought, FALSE)
  BY <1>0, <1>5
<1>9. QED
  BY <1>0, <1>7, <1>8, Texts, OverKeeps

\* The members of a sequence of at most two.
LEMMA Members ==
    /\ ToSet(<<>>) = {}
    /\ \A a : ToSet(<<a>>) = {a}
    /\ \A a, b : ToSet(<<a, b>>) = {a, b}
  BY DEF ToSet

\* Sequences of one and of two elements.
LEMMA PairIs ==
    ASSUME NEW S, NEW a \in S, NEW b \in S
    PROVE  /\ <<a>> \in Seq(S) /\ <<a>> # <<>> /\ <<b>> \in Seq(S)
           /\ <<a, b>> # <<>> /\ <<a>> \o <<b>> = <<a, b>>
<1> DEFINE s == <<a>>
           t == <<b>>
           p == s \o t
           q == <<a, b>>
<1>1. s \in Seq(S) /\ Len(s) = 1 /\ s[1] = a /\ t \in Seq(S) /\ Len(t) = 1 /\ t[1] = b
  OBVIOUS
<1>2. q \in Seq(S) /\ Len(q) = 2 /\ q[1] = a /\ q[2] = b
  OBVIOUS
<1> HIDE DEF s, t, q
<1>3. /\ p \in Seq(S) /\ Len(p) = Len(s) + Len(t)
      /\ \A i \in 1 .. Len(s) + Len(t) : p[i] = IF i <= Len(s) THEN s[i] ELSE t[i - Len(s)]
  BY <1>1, ConcatProperties
<1> HIDE DEF p
<1>4. Len(p) = 2 /\ p[1] = a /\ p[2] = b
  BY <1>1, <1>3
<1>5. p = q
  <2>1. \A i \in 1 .. 2 : i = 1 \/ i = 2
    OBVIOUS
  <2>2. \A i \in 1 .. 2 : p[i] = q[i]
    BY <1>2, <1>4, <2>1
  <2>3. QED
    BY <1>2, <1>3, <1>4, <2>2
<1>6. s # <<>> /\ q # <<>>
  <2>1. Len(<<>>) = 0 /\ Len(s) # 0 /\ Len(q) # 0
    BY <1>1, <1>2
  <2>2. QED
    BY <2>1, Zenon
<1>7. QED
  BY <1>1, <1>5, <1>6 DEF s, t, p, q

\* The payloads: a text unless it is blank or silent, and the reasoning; or the error of a tool.
ReasoningPayload == [type |-> "reasoning"]
ErrorPayload == [type |-> "error"]
TextPayload == [type |-> "text", content |-> ctx.text]

\* The payloads, by whether the text is blank or silent.
LEMMA AssembledIs ==
    ASSUME TypeOK
    PROVE  /\ Assembled \in Seq(Payloads)
           /\ (Trimmed(ctx.text) = <<>> \/ IsNoReply(ctx.text)) =>
                 Assembled \in {<<>>, <<ReasoningPayload>>, <<ErrorPayload>>}
           /\ ~(Trimmed(ctx.text) = <<>> \/ IsNoReply(ctx.text)) =>
                 Assembled \in {<<TextPayload>>, <<TextPayload, ReasoningPayload>>}
<1> DEFINE r == ReasoningPayload
           e == ErrorPayload
           p == TextPayload
           none == Trimmed(ctx.text) = <<>> \/ IsNoReply(ctx.text)
           text == IF none THEN <<>> ELSE <<p>>
           reasoning == IF ctx.reasoning THEN <<r>> ELSE <<>>
<1>1. r \in Payloads /\ e \in Payloads /\ p \in Payloads
  BY Parts DEF Payloads, ReasoningPayload, ErrorPayload, TextPayload
<1>2. Assembled = IF text \o reasoning = <<>> /\ ctx.failedTool THEN <<e>> ELSE text \o reasoning
  BY DEF Assembled, ReasoningPayload, ErrorPayload, TextPayload
<1> HIDE DEF r, e, p, none
<1>3. /\ <<>> \o <<>> = <<>> /\ <<>> \o <<r>> = <<r>> /\ <<p>> \o <<>> = <<p>> /\ <<p>> \o <<r>> = <<p, r>>
      /\ <<p>> # <<>> /\ <<p, r>> # <<>>
  <2>1. /\ <<r>> \in Seq(Payloads) /\ <<p>> \in Seq(Payloads) /\ <<p>> # <<>>
        /\ <<p, r>> # <<>> /\ <<p>> \o <<r>> = <<p, r>>
    BY <1>1, PairIs
  <2>2. \A t \in Seq(Payloads) : t \o <<>> = t /\ <<>> \o t = t
    BY ConcatEmptySeq
  <2>3. <<>> \in Seq(Payloads)
    OBVIOUS
  <2>4. QED
    BY <1>1, <2>1, <2>2, <2>3, Zenon
<1>4. \/ Assembled = <<>> /\ none
      \/ Assembled = <<e>> /\ none
      \/ Assembled = <<r>> /\ none
      \/ Assembled = <<p>> /\ ~none
      \/ Assembled = <<p, r>> /\ ~none
  <2>1. text = IF none THEN <<>> ELSE <<p>>
    OBVIOUS
  <2>2. reasoning = <<>> \/ reasoning = <<r>>
    OBVIOUS
  <2> HIDE DEF text, reasoning
  <2>3. QED
    BY <1>2, <1>3, <2>1, <2>2, Zenon
<1>5. \A a, b \in Payloads : <<a>> \in Seq(Payloads) /\ <<a, b>> \in Seq(Payloads) /\ <<>> \in Seq(Payloads)
  OBVIOUS
<1>6. Assembled \in Seq(Payloads)
  BY <1>1, <1>4, <1>5, Zenon
<1>7. QED
  BY <1>4, <1>6 DEF r, e, p, none

\* What wait() gets is what was said.
LEMMA AnsweredIs ==
    ASSUME TypeOK, Gathered, ~IsNoReply(spoken.said), payloads' = Assembled, spoken'.said = spoken.said
    PROVE  Answered'
<1> DEFINE r == ReasoningPayload
           e == ErrorPayload
           p == TextPayload
           blank == Trimmed(ctx.text) = <<>>
<1>1. /\ r.type # "text" /\ e.type # "text" /\ p.type = "text"
      /\ p = [type |-> "text", content |-> spoken.said]
  BY DEF ReasoningPayload, ErrorPayload, TextPayload, Gathered
<1>2. SaidAloud' = IF blank THEN <<>> ELSE spoken.said
  BY DEF SaidAloud, Gathered
<1>3. ctx.text # <<>> \/ blank
  BY EmptyText
<1>4. /\ blank => payloads' \in {<<>>, <<r>>, <<e>>}
      /\ ~blank => payloads' \in {<<p>>, <<p, r>>}
  BY AssembledIs DEF Gathered
<1> HIDE DEF r, e, p, blank
<1>5. blank => ToSet(payloads') \in {{}, {r}, {e}}
  BY <1>4, Members, Zenon
<1>6. ~blank => ToSet(payloads') \in {{p}, {p, r}}
  BY <1>4, Members, Zenon
<1>7. CASE blank
  <2>1. SaidAloud' = <<>>
    BY <1>2, <1>7
  <2>2. {[type |-> "text", content |-> words] : words \in {SaidAloud'} \ {<<>>}} = {}
    BY <2>1
  <2>3. {q \in ToSet(payloads') : q.type = "text"} = {}
    BY <1>1, <1>5, <1>7
  <2>4. QED
    BY <2>2, <2>3 DEF Answered
<1>8. CASE ~blank
  <2>1. {SaidAloud'} \ {<<>>} = {spoken.said}
    BY <1>2, <1>3, <1>8 DEF Gathered
  <2>2. {[type |-> "text", content |-> words] : words \in {SaidAloud'} \ {<<>>}}
           = {[type |-> "text", content |-> spoken.said]}
    BY <2>1
  <2>3. {q \in ToSet(payloads') : q.type = "text"} = {p}
    BY <1>1, <1>6, <1>8
  <2>4. QED
    BY <1>1, <2>2, <2>3 DEF Answered
<1>9. QED
  BY <1>7, <1>8

\* The run ends: the invariant of the last moment gives OutcomeIsSaid.
LEMMA RunEndsKeeps == ASSUME IInv, RunEnds PROVE IInv'
<1>0. TypeOK /\ Gathered
  BY DEF IInv
<1>1. at = "done" /\ at' = "over" /\ payloads' = Assembled /\ ctx' = ctx /\ spoken' = spoken /\ writer' = writer
  BY DEF RunEnds, WriteEnd
<1>2. tab' = SeeDone(tab)
  BY <1>1, Heeded DEF RunEnds
<1>3. /\ tab' \in Views /\ tab'.created = tab.created /\ tab'.streaming = FALSE
      /\ tab'.bubble = (tab.bubble /\ Trimmed(tab.content) # <<>>)
      /\ tab'.shown = (IF Trimmed(tab.content) = <<>> THEN <<>> ELSE tab.shown)
      /\ tab'.content = tab.content /\ tab'.delta = tab.delta
  BY <1>0, <1>2, DoneIs DEF TypeOK
<1> DEFINE e == [type |-> "empty_reply"]
<1>4. e \in Entries /\ Words(e) = <<>>
  BY DEF Entries, Words
<1>5. transcript' = IF writer.persisted \/ writer.invoked THEN transcript ELSE Append(transcript, e)
  BY DEF RunEnds, WriteEnd
<1>6. e.type # "toolResult" /\ e.type # "assistant"
  OBVIOUS
<1> HIDE DEF e
<1>7. TypeOK'
  <2>1. transcript' \in Seq(Entries)
    BY <1>0, <1>4, <1>5, EntriesGrow DEF TypeOK
  <2>2. payloads' \in Seq(Payloads)
    BY <1>0, <1>1, AssembledIs
  <2>3. QED
    BY <1>0, <1>1, <1>3, <2>1, <2>2 DEF TypeOK
<1>8. Gathered'
  BY <1>0, <1>1, <1>3 DEF Gathered, Inside
<1>9. ASSUME Good
      PROVE  /\ ~ctx.suppressed /\ Even(tab) /\ tab.content = spoken.said /\ tab.delta = <<>>
  <2>1. TabFollows /\ TabIsFlushed
    BY <1>9 DEF IInv, Followed
  <2>2. /\ (tab.content \o tab.delta) \o ctx.held = spoken.said /\ tab.delta = <<>> /\ ctx.held = <<>>
        /\ ~ctx.suppressed /\ Even(tab)
    BY <1>0, <1>1, <2>1 DEF TabFollows, TabIsFlushed, Inside, Gathered, Even
  <2>3. (tab.content \o <<>>) \o <<>> = tab.content
    BY <1>0, Parts, Texts
  <2>4. QED
    BY <2>2, <2>3
<1>10. Followed'
  BY <1>1, <1>3, <1>9 DEF Followed, Good, TabFollows, TabIsFlushed, FileFollows, Inside
<1>11. OutcomeIsSaid'
  <2> SUFFICES ASSUME Good, ~IsNoReply(spoken.said)
               PROVE  Shown' /\ Answered' /\ Recorded'
    BY <1>1 DEF OutcomeIsSaid, Good
  <2>1. Shown'
    <3>1. SaidAloud' = IF Trimmed(tab.content) = <<>> THEN <<>> ELSE tab.content
      BY <1>1, <1>9 DEF SaidAloud
    <3>2. Trimmed(tab.content) # <<>> => tab.content # <<>>
      BY EmptyText
    <3>3. Trimmed(tab.content) # <<>> => tab.bubble = TRUE /\ tab.shown = tab.content
      BY <1>0, <1>9, <3>2, Parts DEF Even
    <3>4. QED
      BY <1>3, <3>1, <3>2, <3>3 DEF Shown
  <2>2. Answered'
    BY <1>0, <1>1, AnsweredIs
  <2>3. Recorded'
    <3>1. /\ Flat(transcript) = spoken.said
          /\ writer.persisted \/ Flat(transcript) = <<>>
          /\ \A i \in DOMAIN transcript : Behind(transcript, i)
      BY <1>1 DEF IInv, Followed, FileFollows, Inside, Behind
    <3>2. transcript \in Seq(Entries)
      BY <1>0 DEF TypeOK
    <3>3. e \notin ToSet(transcript)
      <4>1. \A i \in DOMAIN transcript : transcript[i] # e
        BY <1>6, <3>1 DEF Behind
      <4>2. QED
        BY <4>1 DEF ToSet
    <3>4. CASE writer.persisted \/ writer.invoked
      <4>1. transcript' = transcript
        BY <1>5, <3>4
      <4>2. QED
        BY <1>1, <3>1, <3>3, <4>1 DEF Recorded, Flat, Behind, e
    <3>5. CASE ~(writer.persisted \/ writer.invoked)
      <4>1. transcript' = Append(transcript, e) /\ spoken.said = <<>>
        BY <1>5, <3>1, <3>5
      <4>2. Flat(transcript') = Flat(transcript) \o <<>> /\ Flat(transcript) = <<>>
        BY <1>4, <3>1, <3>2, <4>1, FlatGrows
      <4>3. Flat(transcript') = spoken'.said /\ spoken'.said = <<>>
        BY <1>1, <4>1, <4>2, Texts
      <4>4. ASSUME NEW i \in DOMAIN transcript', transcript'[i].type = "toolResult"
            PROVE  i > 1 /\ transcript'[i - 1].type = "assistant" /\ transcript'[i - 1].calls
        <5>1. /\ (i \in DOMAIN transcript /\ transcript'[i] = transcript[i]) \/ transcript'[i] = e
              /\ \A k \in DOMAIN transcript : transcript'[k] = transcript[k]
              /\ DOMAIN transcript = 1 .. Len(transcript) /\ Len(transcript) \in Nat
          BY <1>4, <3>2, <4>1, EntriesGrow
        <5>2. i \in DOMAIN transcript /\ transcript'[i] = transcript[i]
          BY <1>6, <4>4, <5>1
        <5>3. i > 1 /\ transcript[i - 1].type = "assistant" /\ transcript[i - 1].calls
          BY <3>1, <4>4, <5>2 DEF Behind
        <5>4. i - 1 \in DOMAIN transcript
          BY <5>1, <5>2, <5>3
        <5>5. QED
          BY <5>1, <5>3, <5>4
      <4>5. QED
        BY <4>3, <4>4 DEF Recorded, Flat
    <3>6. QED
      BY <3>4, <3>5
  <2>4. QED
    BY <2>1, <2>2, <2>3
<1>12. Silence'
  <2>1. QuietBefore'
    <3> SUFFICES ASSUME spoken.blocks = 0, ~spoken.whole
                 PROVE  spoken.said = <<>> /\ ctx.held = <<>> /\ Quiet'
      BY <1>1 DEF QuietBefore, Inside
    <3>1. spoken.said = <<>> /\ ctx.held = <<>> /\ Quiet
      BY DEF IInv, Silence, QuietBefore
    <3>2. QED
      BY <1>3, <3>1 DEF Quiet
  <2>2. QuietDuring'
    BY <1>1 DEF QuietDuring
  <2>3. QuietAfter'
    <3> SUFFICES ASSUME First, IsNoReply(spoken.said) PROVE Quiet' /\ ~tab'.bubble
      BY <1>1 DEF QuietAfter, First
    <3>1. Quiet
      BY <1>1 DEF IInv, Silence, QuietAfter
    <3>2. Trimmed(tab.content) = <<>>
      BY <3>1, EmptyText DEF Quiet
    <3>3. QED
      BY <1>3, <3>1, <3>2 DEF Quiet
  <2>4. QED
    BY <2>1, <2>2, <2>3 DEF Silence
<1>13. QED
  BY <1>7, <1>8, <1>10, <1>11, <1>12 DEF IInv
-----------------------------------------------------------------------------
(****************************** the theorems *******************************)

\* The invariant holds at first,
LEMMA InitIsGood == Init => IInv
<1> SUFFICES ASSUME Init PROVE IInv
  OBVIOUS
<1>1. TypeOK
  BY Texts DEF Init, TypeOK, Contexts, Views, Payloads, Writers, Entries, Histories
<1>2. Gathered
  BY DEF Init, Gathered, Inside
<1>3. Followed
  <2>1. TabFollows /\ TabIsFlushed
    <3>1. (tab.content \o tab.delta) \o ctx.held = spoken.said
      BY Texts DEF Init
    <3>2. QED
      BY <3>1 DEF Init, TabFollows, TabIsFlushed, Inside
  <2>2. FileFollows
    <3>1. Flat(transcript) = <<>>
      BY FlatOfNothing DEF Init
    <3>2. \A i \in DOMAIN transcript : FALSE
      BY DEF Init
    <3>3. QED
      BY <3>1, <3>2 DEF Init, FileFollows, Inside
  <2>3. QED
    BY <2>1, <2>2 DEF Followed
<1>4. OutcomeIsSaid
  BY DEF Init, OutcomeIsSaid
<1>5. Silence
  BY EmptyText DEF Init, Silence, QuietBefore, QuietDuring, QuietAfter, Quiet, Inside
<1>6. QED
  BY <1>1, <1>2, <1>3, <1>4, <1>5 DEF IInv

\* is kept by every step,
LEMMA StepIsGood == IInv /\ [Next]_vars => IInv'
<1> SUFFICES ASSUME IInv, [Next]_vars PROVE IInv'
  OBVIOUS
<1>1. CASE RunStarts
  BY <1>1, RunStartsKeeps
<1>2. CASE MessageStarts
  BY <1>2, MessageStartsKeeps
<1>3. CASE ThinkingStarts
  BY <1>3, ThinkingStartsKeeps
<1>4. CASE ThinkingEnds
  BY <1>4, ThinkingEndsKeeps
<1>5. CASE TextStarts
  BY <1>5, TextStartsKeeps
<1>6. CASE TextEnds
  BY <1>6, TextEndsKeeps
<1>7. ASSUME NEW word \in Tokens, TextDelta(word) PROVE IInv'
  BY <1>7, TextDeltaKeeps
<1>8. ASSUME NEW whole \in Wholes, NEW calls \in BOOLEAN, MessageEnds(whole, calls) PROVE IInv'
  BY <1>8, MessageEndsKeeps
<1>9. ASSUME NEW isError \in BOOLEAN, ToolEnds(isError) PROVE IInv'
  BY <1>9, ToolEndsKeeps
<1>10. CASE MessageCut
  BY <1>10, MessageCutKeeps
<1>11. CASE RunEnds
  BY <1>11, RunEndsKeeps
<1>12. CASE RunFails
  BY <1>12, RunFailsKeeps
<1>13. CASE FlushTimer
  BY <1>13, FlushTimerKeeps
<1>14. CASE UNCHANGED vars
  <2>1. TypeOK' /\ Gathered' /\ Silence'
    BY <1>14 DEF vars, stored, IInv, TypeOK, Gathered, Inside, Silence, QuietBefore, QuietDuring, QuietAfter,
                 First, Quiet
  <2>2. Followed'
    BY <1>14 DEF vars, stored, IInv, Followed, Good, TabFollows, TabIsFlushed, FileFollows, Inside
  <2>3. OutcomeIsSaid'
    <3>1. OutcomeIsSaid
      BY DEF IInv
    <3>2. QED
      BY <1>14, <3>1, Zenon DEF vars, stored, OutcomeIsSaid, Shown, Answered, Recorded, SaidAloud
  <2>4. QED
    BY <2>1, <2>2, <2>3 DEF IInv
<1>15. QED
  BY <1>1, <1>2, <1>3, <1>4, <1>5, <1>6, <1>7, <1>8, <1>9, <1>10, <1>11, <1>12, <1>13, <1>14 DEF Next

\* and so holds always.
LEMMA AlwaysGood == Spec => []IInv
  BY InitIsGood, StepIsGood, PTL DEF Spec

\* Context, view, payloads, transcript and history have their types, however long the run.
THEOREM Typed == Spec => []TypeOK
<1>1. IInv => TypeOK
  BY DEF IInv
<1>2. QED
  BY <1>1, AlwaysGood, PTL

\* For any number of messages, blocks and deltas, and any texts a message may bring whole: a run that
\* ended well, and was not silent, has told the tab, wait() and the transcript the same, and all of it
\* (StreamProcessor, useChatStream, persistRuntimeEvent).
THEOREM EveryoneIsTold == Spec => []OutcomeIsSaid
<1>1. IInv => OutcomeIsSaid
  BY DEF IInv
<1>2. QED
  BY <1>1, AlwaysGood, PTL

\* No word of a first block that is, or may yet become, the silent token is in the tab, at any moment
\* (ReplyFilter, useChatStream).
THEOREM SilenceIsKept == Spec => []SilenceKept
<1>1. IInv => SilenceKept
  <2> SUFFICES ASSUME IInv, First, IsNoReply(spoken.said) \/ (at = "text" /\ PossibleNoReply(spoken.said))
               PROVE  /\ Trimmed((tab.shown \o tab.content) \o tab.delta) = <<>>
                      /\ (at = "over" /\ ~spoken.failed) => ~tab.bubble
    BY DEF SilenceKept, First
  <2>1. Quiet
    BY DEF IInv, Silence, QuietDuring, QuietAfter, PossibleNoReply
  <2>2. (<<>> \o <<>>) \o <<>> = <<>>
    BY Texts
  <2>3. Trimmed((tab.shown \o tab.content) \o tab.delta) = <<>>
    BY <2>1, <2>2, EmptyText DEF Quiet
  <2>4. (at = "over" /\ ~spoken.failed) => ~tab.bubble
    BY DEF IInv, Silence, QuietAfter
  <2>5. QED
    BY <2>3, <2>4
<1>2. QED
  BY <1>1, AlwaysGood, PTL
=============================================================================
