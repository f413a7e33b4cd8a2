----------------------------- MODULE EdgeProofs -----------------------------
(***************************************************************************)
(* Theorems about the edge of the enrollment listener, for any clients,    *)
(* connections, limits, windows and byte streams: where TCP cuts the bytes *)
(* makes no difference to the PROXY header, the limits hold whatever fails *)
(* and whatever is in flight, and an address answers for its own client.   *)
(***************************************************************************)
EXTENDS EnrollEdge, SequenceTheorems, FiniteSetTheorems, TLAPS

-----------------------------------------------------------------------------
(* parse_header *)

\* b is what has arrived of s.
Begins(b, s) == Len(b) <= Len(s) /\ \A i \in 1 .. Len(b) : b[i] = s[i]

\* p and b agree as far as both go.
Agree(p, b) == \A i \in 1 .. Len(p) : i <= Len(b) => p[i] = b[i]

LEMMA StartsLikeAgrees ==
    ASSUME NEW S, NEW p \in Seq(S), NEW b \in Seq(S)
    PROVE  StartsLike(p, b) <=> Agree(p, b)
<1>0. Len(p) \in Nat /\ Len(b) \in Nat /\ SubSeq(p, 1, Len(p)) = p /\ SubSeq(b, 1, Len(b)) = b
  BY LenProperties, SubSeqFull
<1>1. ASSUME NEW x \in Seq(S), NEW y \in Seq(S)
      PROVE  IsPrefix(x, y) <=> (Len(x) <= Len(y) /\ \A i \in 1 .. Len(x) : x[i] = y[i])
  <2>0. Len(x) \in Nat /\ Len(y) \in Nat /\ SubSeq(x, 1, Len(x)) = x
    BY LenProperties, SubSeqFull
  <2>1. CASE Len(x) <= Len(y)
    <3>0. \A i \in 1 .. Len(x) : y[i] \in S
      BY <2>0, <2>1, ElementOfSeq
    <3>1. /\ SubSeq(y, 1, Len(x)) \in Seq(S) /\ Len(SubSeq(y, 1, Len(x))) = Len(x)
          /\ \A i \in 1 .. Len(x) : SubSeq(y, 1, Len(x))[i] = y[i]
      BY <2>0, <3>0, SubSeqProperties
    <3>2. (\A i \in 1 .. Len(x) : x[i] = y[i]) => x = SubSeq(y, 1, Len(x))
      <4>. SUFFICES ASSUME \A i \in 1 .. Len(x) : x[i] = y[i] PROVE x = SubSeq(y, 1, Len(x))
        OBVIOUS
      <4>1. \A i \in 1 .. Len(x) : x[i] = SubSeq(y, 1, Len(x))[i]
        BY <3>1
      <4>. QED
        BY <3>1, <4>1, SeqEqual
    <3>. QED
      BY <2>0, <2>1, <3>1, <3>2 DEF IsPrefix
  <2>2. CASE ~(Len(x) <= Len(y))
    BY <2>2 DEF IsPrefix
  <2>. QED
    BY <2>1, <2>2
<1>2. Len(p) <= Len(b) => (IsPrefix(p, b) <=> Agree(p, b))
  BY <1>0, <1>1 DEF Agree
<1>3. Len(b) <= Len(p) => (IsPrefix(b, p) <=> Agree(p, b))
  <2>. SUFFICES ASSUME Len(b) <= Len(p) PROVE IsPrefix(b, p) <=> Agree(p, b)
    OBVIOUS
  <2>1. \A i : (i \in 1 .. Len(b)) <=> (i \in 1 .. Len(p) /\ i <= Len(b))
    BY <1>0
  <2>. QED
    BY <1>0, <1>1, <2>1 DEF Agree
<1>4. Len(p) < Len(b) => ~IsPrefix(b, p)
  BY <1>0 DEF IsPrefix
<1>5. Len(b) < Len(p) => ~IsPrefix(p, b)
  BY <1>0 DEF IsPrefix
<1>6. \A x, y \in Nat : x = y \/ x < y \/ y < x
  OBVIOUS
<1>7. \A x, y \in Nat : (x = y => x <= y /\ y <= x) /\ (x < y => x <= y)
  OBVIOUS
<1>8. CASE Len(p) = Len(b)
  BY <1>0, <1>2, <1>3, <1>7, <1>8 DEF StartsLike
<1>9. CASE Len(p) < Len(b)
  BY <1>0, <1>2, <1>4, <1>7, <1>9 DEF StartsLike
<1>10. CASE Len(b) < Len(p)
  BY <1>0, <1>3, <1>5, <1>7, <1>10 DEF StartsLike
<1>. QED
  BY <1>0, <1>6, <1>8, <1>9, <1>10

\* A start that does not fit does not come to fit.
LEMMA StartsLikeStable ==
    ASSUME NEW S, NEW p \in Seq(S), NEW b \in Seq(S), NEW s \in Seq(S), Begins(b, s)
    PROVE  /\ ~StartsLike(p, b) => ~StartsLike(p, s)
           /\ Len(p) <= Len(b) => (StartsLike(p, s) <=> StartsLike(p, b))
<1>0. Len(p) \in Nat /\ Len(b) \in Nat /\ Len(s) \in Nat
  BY LenProperties
<1>1. Agree(p, s) => Agree(p, b)
  BY <1>0 DEF Agree, Begins
<1>2. Len(p) <= Len(b) => (Agree(p, b) => Agree(p, s))
  BY <1>0 DEF Agree, Begins
<1>. QED
  BY <1>1, <1>2, StartsLikeAgrees

LEMMA Least ==
    ASSUME NEW T, T \subseteq Nat, T # {}
    PROVE  \E x \in T : \A y \in T : x <= y
<1>. DEFINE R == OpToRel(<,Nat)
<1>1. IsWellFoundedOn(R, Nat)
  BY NatLessThanWellFounded, Zenon
<1>2. PICK x \in T : \A y \in T : <<y, x>> \notin R
  <2>. HIDE DEF R
  <2>. QED
    BY <1>1, WFMin
<1>3. \A y \in T : y < x => <<y, x>> \in R
  BY Zenon DEF OpToRel
<1>4. \A y \in T : ~(y < x) /\ y \in Nat /\ x \in Nat
  BY <1>2, <1>3
<1>5. \A y \in T : x <= y
  BY <1>4
<1>. QED
  BY <1>5

\* Where a line may end, and where the first one does.
Ends(b) == {i \in 1 .. Len(b) - 1 : i < V1Max /\ b[i] = "CR" /\ b[i + 1] = "LF"}
First(E) == CHOOSE i \in E : \A k \in E : i <= k

LEMMA FirstIs ==
    ASSUME NEW E, E \subseteq Nat, E # {}
    PROVE  First(E) \in E /\ \A k \in E : First(E) <= k
<1>1. \E i \in E : \A k \in E : i <= k
  BY Least
<1>. QED
  BY <1>1, Zenon DEF First

LEMMA FirstIsOnly ==
    ASSUME NEW E, E \subseteq Nat, NEW m \in E, \A k \in E : m <= k
    PROVE  First(E) = m
<1>1. First(E) \in E /\ First(E) <= m /\ m <= First(E)
  BY FirstIs
<1>2. First(E) \in Nat /\ m \in Nat
  BY <1>1
<1>3. \A x, y \in Nat : x <= y /\ y <= x => x = y
  OBVIOUS
<1>. QED
  BY <1>1, <1>2, <1>3

\* Bytes that come later start no earlier line end.
LEMMA EndsStable ==
    ASSUME NEW S, NEW b \in Seq(S), NEW s \in Seq(S), Begins(b, s), Ends(b) # {}
    PROVE  /\ Ends(s) # {} /\ First(Ends(s)) = First(Ends(b))
           /\ First(Ends(b)) \in 1 .. Len(b) - 1
           /\ ~TooLong(s)
<1>. USE ProxyAssumption
<1>0. Len(b) \in Nat /\ Len(s) \in Nat /\ Len(b) <= Len(s)
  BY LenProperties DEF Begins
<1>1. Ends(b) \subseteq Nat /\ Ends(s) \subseteq Nat
  BY <1>0 DEF Ends
<1>2. First(Ends(b)) \in Ends(b) /\ \A k \in Ends(b) : First(Ends(b)) <= k
  BY <1>1, FirstIs
<1>. DEFINE m == First(Ends(b))
<1>3. m \in 1 .. Len(b) - 1 /\ m < V1Max /\ b[m] = "CR" /\ b[m + 1] = "LF"
  BY <1>2 DEF Ends
<1>4. s[m] = "CR" /\ s[m + 1] = "LF"
  BY <1>0, <1>3 DEF Begins
<1>5. m \in Ends(s)
  BY <1>0, <1>3, <1>4 DEF Ends
<1>6. ASSUME NEW k \in Ends(s) PROVE m <= k
  <2>1. CASE k + 1 <= Len(b)
    <3>1. k \in Ends(b)
      BY <1>0, <2>1 DEF Ends, Begins
    <3>. QED
      BY <1>2, <3>1
  <2>2. CASE ~(k + 1 <= Len(b))
    <3>1. k \in Nat
      BY <1>1
    <3>. QED
      BY <1>0, <1>3, <2>2, <3>1
  <2>. QED
    BY <2>1, <2>2
<1>7. First(Ends(s)) = m
  <2>. HIDE DEF m
  <2>. QED
    BY <1>1, <1>5, <1>6, FirstIsOnly
<1>8. m \in 1 .. V1Max - 1
  BY <1>0, <1>3
<1>9. ~TooLong(s)
  BY <1>4, <1>8 DEF TooLong
<1>. QED
  BY <1>3, <1>5, <1>7, <1>9

LEMMA SubSeqStable ==
    ASSUME NEW S, NEW b \in Seq(S), NEW s \in Seq(S), Begins(b, s),
           NEW i \in Nat \ {0}, NEW j \in Nat, j <= Len(b)
    PROVE  SubSeq(b, i, j) = SubSeq(s, i, j)
<1>0. Len(b) \in Nat /\ Len(s) \in Nat /\ Len(b) <= Len(s)
  BY LenProperties DEF Begins
<1>1. \A k \in i .. j : b[k] = s[k] /\ b[k] \in S /\ s[k] \in S
  BY <1>0, ElementOfSeq DEF Begins
<1>2. /\ SubSeq(b, i, j) \in Seq(S) /\ Len(SubSeq(b, i, j)) = IF i <= j THEN j - i + 1 ELSE 0
      /\ \A k \in 1 .. j - i + 1 : SubSeq(b, i, j)[k] = b[i + k - 1]
  BY <1>1, SubSeqProperties
<1>3. /\ SubSeq(s, i, j) \in Seq(S) /\ Len(SubSeq(s, i, j)) = IF i <= j THEN j - i + 1 ELSE 0
      /\ \A k \in 1 .. j - i + 1 : SubSeq(s, i, j)[k] = s[i + k - 1]
  BY <1>1, SubSeqProperties
<1>4. \A k \in 1 .. Len(SubSeq(b, i, j)) : SubSeq(b, i, j)[k] = SubSeq(s, i, j)[k]
  <2>. SUFFICES ASSUME NEW k \in 1 .. Len(SubSeq(b, i, j)) PROVE SubSeq(b, i, j)[k] = SubSeq(s, i, j)[k]
    OBVIOUS
  <2>1. k \in 1 .. j - i + 1 /\ i + k - 1 \in i .. j
    BY <1>2
  <2>. QED
    BY <1>1, <1>2, <1>3, <2>1
<1>. QED
  BY <1>2, <1>3, <1>4, SeqEqual

\* The limit on a v1 line looks at its first bytes only.
LEMMA TooLongStable ==
    ASSUME NEW S, NEW b \in Seq(S), NEW s \in Seq(S), Begins(b, s)
    PROVE  TooLong(b) => TooLong(s)
<1>0. Len(b) \in Nat /\ Len(s) \in Nat /\ Len(b) <= Len(s) /\ V1Max \in Nat
  BY LenProperties, ProxyAssumption DEF Begins
<1>1. ASSUME TooLong(b) PROVE TooLong(s)
  <2>1. \A i \in 1 .. V1Max - 1 : b[i] = s[i] /\ b[i + 1] = s[i + 1]
    BY <1>0, <1>1 DEF TooLong, Begins
  <2>. QED
    BY <1>0, <1>1, <2>1 DEF TooLong
<1>. QED
  BY <1>1

\* What ParseV1 makes of a complete line.
V1Line(line, end) ==
    CASE line # <<>> /\ line[1] = "UNKNOWN"      -> Header(Balancer, end + 1)
      [] Len(line) = 1 /\ line[1] \in Caller     -> Header(line[1], end + 1)
      [] OTHER                                   -> Bad

LEMMA ParseV1Is ==
    ASSUME NEW b
    PROVE  ParseV1(b) =
             IF ~StartsLike(V1Prefix, b) \/ TooLong(b) THEN Bad
             ELSE IF Ends(b) = {} THEN More
             ELSE V1Line(SubSeq(b, 3, First(Ends(b)) - 1), First(Ends(b)))
<1>1. Len(V1Prefix) + 1 = 3
  BY DEF V1Prefix
<1>2. ParseV1(b) =
        CASE ~StartsLike(V1Prefix, b)                  -> Bad
          [] StartsLike(V1Prefix, b) /\ TooLong(b)     -> Bad
          [] OTHER ->
               IF Ends(b) = {} THEN More
               ELSE V1Line(SubSeq(b, Len(V1Prefix) + 1, First(Ends(b)) - 1), First(Ends(b)))
  BY Zenon DEF ParseV1, Ends, First, V1Line
<1>. QED
  BY <1>1, <1>2

LEMMA V1Stable ==
    ASSUME NEW S, NEW b \in Seq(S), NEW s \in Seq(S), Begins(b, s), V1Prefix \in Seq(S),
           ParseV1(b).verdict # "more"
    PROVE  ParseV1(s) = ParseV1(b)
<1>1. CASE ~StartsLike(V1Prefix, b)
  BY <1>1, StartsLikeStable, ParseV1Is
<1>2. CASE StartsLike(V1Prefix, b) /\ TooLong(b)
  BY <1>2, TooLongStable, ParseV1Is
<1>3. CASE StartsLike(V1Prefix, b) /\ ~TooLong(b)
  <2>1. Ends(b) # {}
    BY <1>3, ParseV1Is DEF More
  <2>2. /\ Ends(s) # {} /\ First(Ends(s)) = First(Ends(b)) /\ ~TooLong(s)
        /\ First(Ends(b)) \in 1 .. Len(b) - 1
    BY <2>1, EndsStable
  <2>3. Len(b) \in Nat /\ Len(b) >= 2 /\ Len(V1Prefix) = 2
    BY <2>2, LenProperties DEF V1Prefix
  <2>4. StartsLike(V1Prefix, s)
    BY <1>3, <2>3, StartsLikeStable
  <2>5. SubSeq(b, 3, First(Ends(b)) - 1) = SubSeq(s, 3, First(Ends(b)) - 1)
    <3>. DEFINE j == First(Ends(b)) - 1
    <3>1. j \in Nat /\ j <= Len(b) /\ 3 \in Nat \ {0}
      BY <2>2, <2>3
    <3>. HIDE DEF j
    <3>2. SubSeq(b, 3, j) = SubSeq(s, 3, j)
      BY <3>1, SubSeqStable
    <3>. QED
      BY <3>2 DEF j
  <2>6. ParseV1(b) = V1Line(SubSeq(b, 3, First(Ends(b)) - 1), First(Ends(b)))
    BY <1>3, <2>1, ParseV1Is
  <2>7. ParseV1(s) = V1Line(SubSeq(s, 3, First(Ends(s)) - 1), First(Ends(s)))
    BY <2>2, <2>4, ParseV1Is
  <2>. QED
    BY <2>2, <2>5, <2>6, <2>7
<1>. QED
  BY <1>1, <1>2, <1>3

V2Length(x) == IF x \in DOMAIN BodyLength THEN BodyLength[x] ELSE 0

LEMMA ParseV2Is ==
    ASSUME NEW b
    PROVE  ParseV2(b) =
             IF ~StartsLike(V2Signature, b) THEN Bad
             ELSE IF Len(b) < 5 THEN More
             ELSE IF \/ b[4] \notin {"TCP", "LOCAL", "UNSPEC"}
                     \/ V2Length(b[5]) > V2MaxBody
                     \/ b[4] = "TCP" /\ V2Length(b[5]) = 0         THEN Bad
             ELSE IF Len(b) < 5 + V2Length(b[5]) THEN More
             ELSE Header(IF b[4] = "TCP" THEN b[6] ELSE Balancer, 5 + V2Length(b[5]))
<1>. DEFINE f == Len(V2Signature) + 2
<1>1. f = 5 /\ f - 1 = 4 /\ f + 1 = 6
  BY DEF V2Signature
<1>2. ParseV2(b) =
             IF ~StartsLike(V2Signature, b) THEN Bad
             ELSE IF Len(b) < f THEN More
             ELSE IF \/ b[f - 1] \notin {"TCP", "LOCAL", "UNSPEC"}
                     \/ V2Length(b[f]) > V2MaxBody
                     \/ b[f - 1] = "TCP" /\ V2Length(b[f]) = 0         THEN Bad
             ELSE IF Len(b) < f + V2Length(b[f]) THEN More
             ELSE Header(IF b[f - 1] = "TCP" THEN b[f + 1] ELSE Balancer, f + V2Length(b[f]))
  BY Zenon DEF ParseV2, V2Length
<1>. HIDE DEF f
<1>. QED
  BY <1>1, <1>2

LEMMA V2LengthType == \A x : V2Length(x) \in Nat
BY ProxyAssumption DEF V2Length, BodyLength

LEMMA V2Stable ==
    ASSUME NEW S, NEW b \in Seq(S), NEW s \in Seq(S), Begins(b, s), V2Signature \in Seq(S),
           ParseV2(b).verdict # "more"
    PROVE  ParseV2(s) = ParseV2(b)
<1>0. Len(b) \in Nat /\ Len(s) \in Nat /\ Len(b) <= Len(s)
  BY LenProperties DEF Begins
<1>1. CASE ~StartsLike(V2Signature, b)
  BY <1>1, StartsLikeStable, ParseV2Is
<1>2. CASE StartsLike(V2Signature, b)
  <2>1. Len(b) >= 5
    BY <1>0, <1>2, ParseV2Is DEF More
  <2>2. b[4] = s[4] /\ b[5] = s[5] /\ (Len(b) >= 6 => b[6] = s[6])
    BY <1>0, <2>1 DEF Begins
  <2>3. StartsLike(V2Signature, s)
    <3>1. Len(V2Signature) = 3
      BY DEF V2Signature
    <3>. QED
      BY <1>0, <1>2, <2>1, <3>1, StartsLikeStable
  <2>. DEFINE length == V2Length(b[5])
             bad == \/ b[4] \notin {"TCP", "LOCAL", "UNSPEC"}
                    \/ length > V2MaxBody
                    \/ b[4] = "TCP" /\ length = 0
  <2>4. length \in Nat
    BY V2LengthType
  <2>5. ParseV2(b) = IF bad THEN Bad ELSE IF Len(b) < 5 + length THEN More
                     ELSE Header(IF b[4] = "TCP" THEN b[6] ELSE Balancer, 5 + length)
    BY <1>0, <1>2, <2>1, ParseV2Is
  <2>6. ParseV2(s) = IF bad THEN Bad ELSE IF Len(s) < 5 + length THEN More
                     ELSE Header(IF b[4] = "TCP" THEN s[6] ELSE Balancer, 5 + length)
    BY <1>0, <2>1, <2>2, <2>3, ParseV2Is
  <2>7. CASE bad
    BY <2>5, <2>6, <2>7
  <2>8. CASE ~bad
    <3>1. Len(b) >= 5 + length /\ Len(s) >= 5 + length
      BY <1>0, <2>4, <2>5, <2>8 DEF More
    <3>2. b[4] = "TCP" => b[6] = s[6]
      BY <1>0, <2>2, <2>4, <2>8, <3>1
    <3>3. ParseV2(b) = Header(IF b[4] = "TCP" THEN b[6] ELSE Balancer, 5 + length)
      BY <1>0, <2>4, <2>5, <2>8, <3>1
    <3>4. ParseV2(s) = Header(IF b[4] = "TCP" THEN s[6] ELSE Balancer, 5 + length)
      BY <1>0, <2>4, <2>6, <2>8, <3>1
    <3>. QED
      BY <3>2, <3>3, <3>4
  <2>. QED
    BY <2>7, <2>8
<1>. QED
  BY <1>1, <1>2

LEMMA ParseIs ==
    ASSUME NEW b
    PROVE  ParseHeader(b) = IF b = <<>> THEN More
                            ELSE IF b[1] = "P" THEN ParseV1(b)
                            ELSE IF b[1] = "CR" THEN ParseV2(b) ELSE Bad
BY DEF ParseHeader

\* Once the parser has an answer, more bytes do not change it.
LEMMA ParseStable ==
    ASSUME NEW S, NEW b \in Seq(S), NEW s \in Seq(S), Begins(b, s), ParseHeader(b).verdict # "more"
    PROVE  ParseHeader(s) = ParseHeader(b)
<1>. DEFINE T == S \cup {"P", "R", "CR", "LF", "Q"}
<1>0. b \in Seq(T) /\ s \in Seq(T) /\ V1Prefix \in Seq(T) /\ V2Signature \in Seq(T)
  BY DEF V1Prefix, V2Signature
<1>1. b # <<>>
  BY ParseIs DEF More
<1>2. s # <<>> /\ s[1] = b[1]
  BY <1>1, LenProperties, EmptySeq DEF Begins
<1>. HIDE DEF T
<1>3. CASE b[1] = "P"
  BY <1>0, <1>1, <1>2, <1>3, ParseIs, V1Stable
<1>4. CASE b[1] = "CR"
  BY <1>0, <1>1, <1>2, <1>4, ParseIs, V2Stable
<1>5. CASE b[1] \notin {"P", "CR"}
  BY <1>1, <1>2, <1>5, ParseIs
<1>. QED
  BY <1>3, <1>4, <1>5

\* A header takes no more than what has arrived.
LEMMA ParseConsumes ==
    ASSUME NEW S, NEW b \in Seq(S), ParseHeader(b).verdict = "header"
    PROVE  ParseHeader(b).consumed \in 1 .. Len(b)
<1>0. Len(b) \in Nat /\ b # <<>> /\ More.verdict = "more" /\ Bad.verdict = "bad"
  BY LenProperties, ParseIs DEF More, Bad
<1>1. CASE b[1] = "P"
  <2>0. ParseHeader(b) = ParseV1(b)
    BY <1>0, <1>1, ParseIs
  <2>1. Ends(b) # {} /\ ParseV1(b) = V1Line(SubSeq(b, 3, First(Ends(b)) - 1), First(Ends(b)))
    BY <1>0, <2>0, ParseV1Is
  <2>2. First(Ends(b)) \in 1 .. Len(b) - 1
    <3>1. Ends(b) \subseteq Nat
      BY <1>0 DEF Ends
    <3>2. First(Ends(b)) \in Ends(b)
      BY <2>1, <3>1, FirstIs
    <3>. QED
      BY <3>2 DEF Ends
  <2>3. ParseV1(b).consumed = First(Ends(b)) + 1
    <3>. DEFINE l == SubSeq(b, 3, First(Ends(b)) - 1)
               e == First(Ends(b))
    <3>. HIDE DEF l, e
    <3>1. V1Line(l, e).verdict = "header"
      BY <2>0, <2>1 DEF l, e
    <3>2. V1Line(l, e).consumed = e + 1
      BY <1>0, <3>1 DEF V1Line, Header
    <3>. QED
      BY <2>1, <3>2 DEF l, e
  <2>. QED
    BY <1>0, <2>0, <2>2, <2>3
<1>2. CASE b[1] = "CR"
  <2>0. ParseHeader(b) = ParseV2(b)
    BY <1>0, <1>2, ParseIs
  <2>1. V2Length(b[5]) \in Nat
    BY V2LengthType
  <2>2. /\ ~(Len(b) < 5) /\ ~(Len(b) < 5 + V2Length(b[5]))
        /\ ParseV2(b) = Header(IF b[4] = "TCP" THEN b[6] ELSE Balancer, 5 + V2Length(b[5]))
    BY <1>0, <2>0, ParseV2Is
  <2>. QED
    BY <1>0, <2>0, <2>1, <2>2 DEF Header
<1>. QED
  BY <1>0, <1>1, <1>2, ParseIs

-----------------------------------------------------------------------------
(* A connection *)

Byte == UNION {UNION {ToSet(s) : s \in Sends[a]} : a \in Caller}

LEMMA SendsBytes ==
    ASSUME NEW a \in Caller, NEW s \in Sends[a]
    PROVE  s \in Seq(Byte)
<1>1. s \in Seq(ToSet(s)) /\ ToSet(s) \subseteq Byte
  BY ProxyAssumption DEF Byte
<1>. QED
  BY <1>1

ConnShape ==
    /\ phase \in [Conn -> {"new", "header", "tls", "closed"}]
    /\ caller \in [Conn -> Caller]
    /\ client \in [Conn -> Caller \cup {Balancer, NoClient}]
    /\ wire \in [Conn -> Seq(Byte)] /\ got \in [Conn -> Nat]
    /\ buf \in [Conn -> Seq(Byte)] /\ fed \in [Conn -> Seq(Byte)]

\* How far a connection has come with the bytes it was sent.
Read(c) ==
    LET h == ParseHeader(wire[c])
    IN  /\ got[c] <= Len(wire[c])
        /\ wire[c] = <<>> \/ wire[c] \in Sends[caller[c]]
        /\ phase[c] = "new" => got[c] = 0 /\ buf[c] = <<>>
        /\ phase[c] = "header" => buf[c] = SubSeq(wire[c], 1, got[c])
        /\ phase[c] = "tls" => /\ h.verdict = "header" /\ client[c] = h.client
                               /\ h.consumed \in 1 .. got[c]
                               /\ fed[c] = SubSeq(wire[c], h.consumed + 1, got[c])
        /\ phase[c] = "closed" /\ buf[c] # <<>> => h.verdict = "bad"

ConnInv == ConnShape /\ \A c \in Conn : Read(c)

LEMMA ConnInvIsReadOnce == ConnInv => HeaderReadOnce
BY DEF ConnInv, Read, HeaderReadOnce

LEMMA NamedClient ==
    ASSUME ConnInv, NEW c \in Conn, phase[c] = "tls"
    PROVE  /\ client[c] = ParseHeader(wire[c]).client
           /\ client[c] \in {caller[c], Balancer}
<1>1. /\ ParseHeader(wire[c]).verdict = "header" /\ client[c] = ParseHeader(wire[c]).client
      /\ wire[c] = <<>> \/ wire[c] \in Sends[caller[c]]
  BY DEF ConnInv, Read
<1>2. wire[c] # <<>>
  BY <1>1, ParseIs DEF More
<1>3. caller[c] \in Caller
  BY DEF ConnInv, ConnShape
<1>. QED
  BY <1>1, <1>2, <1>3, ProxyAssumption

LEMMA ConnInvType == ConnInv => ConnTypeOK
<1>. SUFFICES ASSUME ConnInv PROVE ConnTypeOK
  OBVIOUS
<1>1. ASSUME NEW c \in Conn, phase[c] = "tls" PROVE client[c] # NoClient
  BY <1>1, NamedClient, ProxyAssumption DEF ConnInv, ConnShape
<1>. QED
  BY <1>1 DEF ConnTypeOK, ConnInv, ConnShape

LEMMA ConnInitInv == ConnInit => ConnInv
<1>. SUFFICES ASSUME ConnInit PROVE ConnInv
  OBVIOUS
<1>1. <<>> \in Seq(Byte) /\ Len(<<>>) = 0
  OBVIOUS
<1>2. ConnShape
  BY <1>1 DEF ConnInit, ConnShape
<1>3. ASSUME NEW c \in Conn PROVE Read(c)
  BY <1>1 DEF ConnInit, Read
<1>. QED
  BY <1>2, <1>3 DEF ConnInv

\* A connection that is left alone stays as it is.
LEMMA ReadAlone ==
    ASSUME NEW c, Read(c), UNCHANGED <<phase[c], caller[c], wire[c], got[c], buf[c], client[c], fed[c]>>
    PROVE  Read(c)'
BY DEF Read

LEMMA ConnectInv ==
    ASSUME ConnInv, NEW c \in Conn, NEW trusted, Connect(c, trusted)
    PROVE  ConnInv'
<1>. USE DEF ConnShape
<1>1. PICK s \in Sends[caller[c]] : wire' = [wire EXCEPT ![c] = s]
  BY DEF Connect
<1>2. s \in Seq(Byte) /\ ConnShape /\ phase'[c] \in {"header", "closed"}
  BY <1>1, SendsBytes DEF ConnInv, Connect
<1>3. ConnShape'
  BY <1>1, <1>2 DEF Connect
<1>4. Read(c)'
  <2>1. got'[c] = 0 /\ buf'[c] = <<>> /\ wire'[c] = s /\ caller'[c] = caller[c]
    BY <1>1, <1>2 DEF Connect, ConnInv, Read
  <2>2. SubSeq(s, 1, 0) = <<>> /\ 0 <= Len(s)
    BY <1>2, SubSeqEmpty, LenProperties
  <2>. QED
    BY <1>2, <2>1, <2>2 DEF Read
<1>5. ASSUME NEW d \in Conn, d # c PROVE Read(d)'
  <2>1. UNCHANGED <<phase[d], caller[d], wire[d], got[d], buf[d], client[d], fed[d]>>
    BY <1>1, <1>2, <1>5 DEF Connect
  <2>. QED
    BY <2>1, ReadAlone DEF ConnInv
<1>. QED
  BY <1>3, <1>4, <1>5 DEF ConnInv

LEMMA DropInv ==
    ASSUME ConnInv, NEW c \in Conn, Drop(c)
    PROVE  ConnInv'
<1>1. <<>> \in Seq(Byte) /\ Len(<<>>) = 0 /\ ConnShape
  BY DEF ConnInv
<1>2. ConnShape'
  BY <1>1 DEF Drop, ConnShape
<1>3. Read(c)'
  <2>1. phase'[c] = "closed" /\ wire'[c] = <<>> /\ got'[c] = 0 /\ buf'[c] = <<>>
    BY <1>1 DEF Drop, ConnShape
  <2>. QED
    BY <1>1, <2>1 DEF Read
<1>4. ASSUME NEW d \in Conn, d # c PROVE Read(d)'
  <2>1. UNCHANGED <<phase[d], caller[d], wire[d], got[d], buf[d], client[d], fed[d]>>
    BY <1>1, <1>4 DEF Drop, ConnShape
  <2>. QED
    BY <2>1, ReadAlone DEF ConnInv
<1>. QED
  BY <1>2, <1>3, <1>4 DEF ConnInv

LEMMA SubSeqIn ==
    ASSUME NEW S, NEW s \in Seq(S), NEW m \in Nat \ {0}, NEW n \in Nat, n <= Len(s)
    PROVE  SubSeq(s, m, n) \in Seq(S) /\ Len(SubSeq(s, m, n)) = IF m <= n THEN n - m + 1 ELSE 0
<1>1. \A i \in m .. n : s[i] \in S
  BY ElementOfSeq, LenProperties
<1>. QED
  BY <1>1, SubSeqProperties

LEMMA SubSeqBegins ==
    ASSUME NEW S, NEW s \in Seq(S), NEW n \in Nat, n <= Len(s)
    PROVE  SubSeq(s, 1, n) \in Seq(S) /\ Len(SubSeq(s, 1, n)) = n /\ Begins(SubSeq(s, 1, n), s)
<1>1. \A i \in 1 .. n : s[i] \in S
  BY ElementOfSeq, LenProperties
<1>2. /\ SubSeq(s, 1, n) \in Seq(S) /\ Len(SubSeq(s, 1, n)) = IF 1 <= n THEN n - 1 + 1 ELSE 0
      /\ \A i \in 1 .. n - 1 + 1 : SubSeq(s, 1, n)[i] = s[1 + i - 1]
  BY <1>1, SubSeqProperties
<1>3. Len(SubSeq(s, 1, n)) = n
  BY <1>2
<1>4. \A i \in 1 .. n : SubSeq(s, 1, n)[i] = s[i]
  BY <1>2
<1>. QED
  BY <1>2, <1>3, <1>4 DEF Begins

LEMMA Spans ==
    ASSUME NEW a \in Nat, NEW g \in Nat, NEW l \in Nat, NEW k \in 1 .. a, a <= g, g <= l
    PROVE  k + 1 \in 1 .. l + 1 /\ a \in (k + 1) - 1 .. l /\ g \in a .. l
OBVIOUS

LEMMA DataInv ==
    ASSUME ConnInv, NEW c \in Conn, NEW n \in 1 .. Len(wire[c]) - got[c], DataReceived(c, n)
    PROVE  ConnInv'
<1>0. ConnShape /\ Read(c) /\ wire[c] \in Seq(Byte) /\ got[c] \in Nat /\ Len(wire[c]) \in Nat
  BY LenProperties DEF ConnInv, ConnShape
<1>. DEFINE w == wire[c]
           g == got[c] + n
           data == SubSeq(wire[c], got[c] + 1, got[c] + n)
           b == buf[c] \o data
           h == ParseHeader(b)
<1>1. g \in Nat /\ g <= Len(w) /\ got[c] <= g /\ got[c] <= Len(w) /\ got[c] + 1 \in Nat \ {0}
  BY <1>0 DEF Read
<1>2. data \in Seq(Byte) /\ b \in Seq(Byte)
  BY <1>0, <1>1, SubSeqIn, ConcatProperties DEF ConnShape
<1>3. /\ got'[c] = g /\ wire'[c] = w /\ caller'[c] = caller[c] /\ UNCHANGED <<caller, wire>>
      /\ got' = [got EXCEPT ![c] = g]
  BY <1>0 DEF DataReceived, ConnShape
<1>4. phase[c] = "header" => b = SubSeq(w, 1, g)
  <2>. SUFFICES ASSUME phase[c] = "header" PROVE b = SubSeq(w, 1, g)
    OBVIOUS
  <2>1. buf[c] = SubSeq(w, 1, got[c])
    BY <1>0 DEF Read
  <2>2. 1 \in 1 .. Len(w) + 1 /\ got[c] \in 1 - 1 .. Len(w) /\ g \in got[c] .. Len(w)
    BY <1>0, <1>1
  <2>. HIDE DEF g
  <2>3. SubSeq(w, 1, got[c]) \o SubSeq(w, got[c] + 1, g) = SubSeq(w, 1, g)
    BY <1>0, <2>2, ConcatAdjacentSubSeq
  <2>. QED
    BY <2>1, <2>3 DEF g
<1>6. phase[c] = "header" => Len(b) = g /\ Begins(b, w)
  <2>. HIDE DEF g, b
  <2>1. Len(SubSeq(w, 1, g)) = g /\ Begins(SubSeq(w, 1, g), w)
    BY <1>0, <1>1, SubSeqBegins
  <2>. QED
    BY <1>4, <2>1
<1>5. phase[c] = "header" /\ h.verdict # "more" => ParseHeader(w) = h
  <2>. HIDE DEF b
  <2>. QED
    BY <1>0, <1>2, <1>6, ParseStable
<1>7. ASSUME NEW d \in Conn, d # c PROVE UNCHANGED <<phase[d], caller[d], wire[d], got[d], buf[d], client[d], fed[d]>>
  BY <1>0, <1>7 DEF DataReceived, StartTLS, ConnShape
<1>8. ASSUME ConnShape', Read(c)' PROVE ConnInv'
  <2>1. ASSUME NEW d \in Conn, d # c PROVE Read(d)'
    BY <1>7, <2>1, ReadAlone DEF ConnInv
  <2>. QED
    BY <1>8, <2>1 DEF ConnInv
<1>9. CASE /\ phase[c] = "tls"
           /\ fed' = [fed EXCEPT ![c] = @ \o data]
           /\ UNCHANGED <<phase, client, buf>>
  <2>. DEFINE k == ParseHeader(w).consumed
  <2>1. k \in 1 .. got[c] /\ fed[c] = SubSeq(w, k + 1, got[c]) /\ fed[c] \in Seq(Byte)
    BY <1>0, <1>9 DEF Read, ConnShape
  <2>2. k + 1 \in 1 .. Len(w) + 1 /\ got[c] \in (k + 1) - 1 .. Len(w) /\ g \in got[c] .. Len(w)
    <3>1. Len(w) \in Nat /\ k \in 1 .. got[c] /\ got[c] <= g /\ g <= Len(w) /\ g \in Nat /\ got[c] \in Nat
      BY <1>0, <1>1, <2>1
    <3>. HIDE DEF k, g, w
    <3>. QED
      BY <3>1, Spans
  <2>3. fed[c] \o data = SubSeq(w, k + 1, g)
    <3>. HIDE DEF k, g
    <3>1. SubSeq(w, k + 1, got[c]) \o SubSeq(w, got[c] + 1, g) = SubSeq(w, k + 1, g)
      BY <1>0, <2>2, ConcatAdjacentSubSeq
    <3>. QED
      BY <2>1, <3>1 DEF g
  <2>4. fed[c] \o data \in Seq(Byte)
    BY <1>2, <2>1, ConcatProperties
  <2>. HIDE DEF data
  <2>5. ConnShape'
    <3>1. fed' \in [Conn -> Seq(Byte)]
      BY <1>0, <1>9, <2>4 DEF ConnShape
    <3>2. got' \in [Conn -> Nat]
      BY <1>0, <1>1, <1>3 DEF ConnShape
    <3>. QED
      BY <1>0, <1>3, <1>9, <3>1, <3>2 DEF ConnShape
  <2>6. fed'[c] = SubSeq(w, k + 1, g) /\ phase'[c] = "tls" /\ client'[c] = client[c]
    BY <1>0, <1>9, <2>3 DEF ConnShape
  <2>7. k \in 1 .. g
    BY <1>1, <2>1
  <2>. HIDE DEF g
  <2>8. Read(c)'
    BY <1>0, <1>1, <1>3, <1>9, <2>6, <2>7 DEF Read
  <2>. QED
    BY <1>8, <2>5, <2>8
<1>10. CASE /\ phase[c] = "header" /\ h.verdict = "more"
            /\ buf' = [buf EXCEPT ![c] = b]
            /\ UNCHANGED <<phase, client, fed>>
  <2>. HIDE DEF b, g
  <2>1. ConnShape' /\ buf'[c] = b /\ phase'[c] = "header"
    BY <1>0, <1>1, <1>2, <1>3, <1>10 DEF ConnShape
  <2>2. Read(c)'
    BY <1>0, <1>1, <1>3, <1>4, <1>10, <2>1 DEF Read
  <2>. QED
    BY <1>8, <2>1, <2>2
<1>11. CASE /\ phase[c] = "header" /\ h.verdict = "bad"
            /\ phase' = [phase EXCEPT ![c] = "closed"]
            /\ buf' = [buf EXCEPT ![c] = b]
            /\ UNCHANGED <<client, fed>>
  <2>. HIDE DEF b, g
  <2>1. ConnShape' /\ phase'[c] = "closed" /\ ParseHeader(w).verdict = "bad"
    BY <1>0, <1>1, <1>2, <1>3, <1>5, <1>11 DEF ConnShape
  <2>2. Read(c)'
    BY <1>0, <1>1, <1>3, <2>1 DEF Read
  <2>. QED
    BY <1>8, <2>1, <2>2
<1>12. CASE phase[c] = "header" /\ h.verdict = "header" /\ StartTLS(c, h, b)
  <2>0. ParseHeader(w) = h /\ h.consumed \in 1 .. Len(b)
    BY <1>2, <1>5, <1>12, ParseConsumes
  <2>1. h.client \in {caller[c], Balancer}
    <3>1. w = <<>> \/ w \in Sends[caller[c]]
      BY <1>0 DEF Read
    <3>2. w # <<>>
      BY <1>12, <2>0, ParseIs DEF More
    <3>. QED
      BY <1>0, <1>12, <2>0, <3>1, <3>2, ProxyAssumption DEF ConnShape
  <2>. DEFINE k == h.consumed
  <2>2. SubSeq(b, k + 1, Len(b)) = SubSeq(w, k + 1, g)
    <3>. HIDE DEF g, b, k
    <3>1. k \in 1 .. g /\ Len(b) = g /\ b \in Seq(Byte)
      BY <1>2, <1>6, <1>12, <2>0 DEF k
    <3>2. Begins(b, w) /\ k + 1 \in Nat \ {0} /\ g <= Len(b) /\ g \in Nat /\ w \in Seq(Byte)
      BY <1>0, <1>1, <1>6, <1>12, <3>1
    <3>3. SubSeq(b, k + 1, g) = SubSeq(w, k + 1, g)
      <4>1. b \in Seq(Byte)
        BY <3>1
      <4>. HIDE DEF w
      <4>. QED
        BY <3>2, <4>1, SubSeqStable
    <3>. QED
      BY <3>1, <3>3
  <2>3. k \in 1 .. g
    BY <1>6, <1>12, <2>0
  <2>4. SubSeq(w, k + 1, g) \in Seq(Byte)
    <3>. HIDE DEF g, k
    <3>1. k + 1 \in Nat \ {0}
      BY <2>3
    <3>. QED
      BY <1>0, <1>1, <3>1, SubSeqIn
  <2>5. /\ phase' = [phase EXCEPT ![c] = "tls"]
        /\ client' = [client EXCEPT ![c] = h.client]
        /\ fed' = [fed EXCEPT ![c] = SubSeq(w, k + 1, g)]
        /\ buf' = [buf EXCEPT ![c] = <<>>]
        /\ got' = [got EXCEPT ![c] = g]
    BY <1>12, <2>2 DEF StartTLS, DataReceived
  <2>. HIDE DEF b, g, k, h
  <2>6. ConnShape'
    <3>1. /\ h.client \in Caller \cup {Balancer, NoClient}
          /\ <<>> \in Seq(Byte)
      BY <1>0, <2>1 DEF ConnShape
    <3>2. client' \in [Conn -> Caller \cup {Balancer, NoClient}] /\ fed' \in [Conn -> Seq(Byte)]
      BY <1>0, <2>4, <2>5, <3>1 DEF ConnShape
    <3>3. got' \in [Conn -> Nat] /\ buf' \in [Conn -> Seq(Byte)]
      BY <1>0, <1>1, <2>5, <3>1 DEF ConnShape
    <3>4. phase' \in [Conn -> {"new", "header", "tls", "closed"}]
      BY <1>0, <2>5 DEF ConnShape
    <3>. QED
      BY <1>0, <1>3, <3>2, <3>3, <3>4 DEF ConnShape
  <2>7. Read(c)'
    <3>1. /\ phase'[c] = "tls" /\ client'[c] = h.client /\ fed'[c] = SubSeq(w, k + 1, g)
          /\ got'[c] = g /\ wire'[c] = w /\ caller'[c] = caller[c] /\ buf'[c] = <<>>
      BY <1>0, <1>3, <2>5 DEF ConnShape
    <3>. QED
      BY <1>0, <1>1, <1>12, <2>0, <2>3, <3>1 DEF Read, k
  <2>. QED
    BY <1>8, <2>6, <2>7
<1>. QED
  BY <1>9, <1>10, <1>11, <1>12 DEF DataReceived

LEMMA ConnNextInv == ConnInv /\ [ConnNext]_connvars => ConnInv'
<1>. SUFFICES ASSUME ConnInv, [ConnNext]_connvars PROVE ConnInv'
  OBVIOUS
<1>1. CASE UNCHANGED connvars
  BY <1>1 DEF connvars, ConnInv, ConnShape, Read
<1>2. CASE ConnNext
  BY <1>2, ConnectInv, DataInv, DropInv DEF ConnNext
<1>. QED
  BY <1>1, <1>2

LEMMA ConnInvariant == ConnSpec => []ConnInv
BY ConnInitInv, ConnNextInv, PTL DEF ConnSpec

\* Every variable keeps its type, and TLS never starts without a client.
THEOREM ConnTypeCorrect == ConnSpec => []ConnTypeOK
BY ConnInvariant, ConnInvType, PTL

\* For any streams and any cuts: HTTP sees the client and TLS the bytes of the
\* uncut stream, and only a stream that is bad uncut is refused.
THEOREM CutsMakeNoDifference == ConnSpec => []HeaderReadOnce
BY ConnInvariant, ConnInvIsReadOnce, PTL

-----------------------------------------------------------------------------
(* The limiter: types *)

At == {"idle", "peek", "hit", "serve", "record"}

LimitShape ==
    /\ now \in 0 .. MaxTime
    /\ requests \in [Key -> [count : Nat, reset : Nat]]
    /\ failures \in [Key -> [count : Nat, reset : Nat]]
    /\ req \in [Slot -> [at : At, key : Key \cup {"?"}]]
    /\ \A r \in Slot : req[r].at # "idle" => req[r].key \in Key
    /\ sent \in 0 .. MaxRequests
    /\ served \in [Key -> [0 .. MaxTime -> Nat]]
    /\ lines \in [Bucket -> [Key -> Nat]]

\* The limiter by itself, with any known address for a request.
LimitNext ==
    \/ \E r \in Slot : (\E k \in Key : Dispatch(r, k)) \/ Middleware(r)
    \/ Pass

LEMMA LimitShapeType == LimitShape => LimitTypeOK
BY DEF LimitShape, LimitTypeOK, At

LEMMA LimitInitShape == LimitInit => LimitShape
BY WindowsArePositive DEF LimitInit, LimitShape, At, Idle, Empty, Bucket

LEMMA GotoShape ==
    ASSUME LimitShape, NEW r \in Slot, req[r].at # "idle", NEW a \in At, Goto(r, a)
    PROVE  /\ req' \in [Slot -> [at : At, key : Key \cup {"?"}]]
           /\ \A q \in Slot : req'[q].at # "idle" => req'[q].key \in Key
BY DEF LimitShape, Goto

LEMMA AnswerShape ==
    ASSUME LimitShape, NEW r \in Slot, Answer(r)
    PROVE  /\ req' \in [Slot -> [at : At, key : Key \cup {"?"}]]
           /\ \A q \in Slot : req'[q].at # "idle" => req'[q].key \in Key
BY DEF LimitShape, Answer, Idle, At

LEMMA Incremented ==
    ASSUME NEW D, NEW f \in [D -> Nat], NEW d \in D
    PROVE  [f EXCEPT ![d] = @ + 1] \in [D -> Nat]
OBVIOUS

LEMMA HitType ==
    ASSUME LimitShape, NEW b \in [count : Nat, reset : Nat], NEW w \in Nat \ {0}
    PROVE  Hit(b, w) \in [count : Nat, reset : Nat]
<1>1. b.count + 1 \in Nat /\ now + w \in Nat
  BY WindowsArePositive DEF LimitShape
<1>2. CASE Live(b)
  BY <1>1, <1>2 DEF Hit
<1>3. CASE ~Live(b)
  BY <1>1, <1>3 DEF Hit
<1>. QED
  BY <1>2, <1>3

LEMMA LineType ==
    ASSUME LimitShape, NEW bucket \in Bucket, NEW k \in Key, NEW b,
           Line(bucket, k, b) \/ NoLine(bucket, k, b)
    PROVE  lines' \in [Bucket -> [Key -> Nat]]
<1>1. CASE Line(bucket, k, b)
  <2>1. (IF Live(b) THEN lines[bucket][k] + 1 ELSE 1) \in Nat
    BY DEF LimitShape
  <2>. QED
    BY <1>1, <2>1 DEF LimitShape, Line
<1>2. CASE NoLine(bucket, k, b)
  <2>1. (IF Live(b) THEN lines[bucket][k] ELSE 0) \in Nat
    BY DEF LimitShape
  <2>. QED
    BY <1>2, <2>1 DEF LimitShape, NoLine
<1>. QED
  BY <1>1, <1>2

LEMMA LimitNextShape == LimitShape /\ [LimitNext]_limitvars => LimitShape'
<1>. SUFFICES ASSUME LimitShape, [LimitNext]_limitvars PROVE LimitShape'
  OBVIOUS
<1>. USE WindowsArePositive
<1>0. {"requests", "failures"} \subseteq Bucket /\ {"idle", "peek", "hit", "serve", "record"} \subseteq At
  BY DEF Bucket, At
<1>1. CASE UNCHANGED limitvars
  BY <1>1 DEF limitvars, LimitShape
<1>2. CASE Pass
  BY <1>2 DEF Pass, LimitShape
<1>3. ASSUME NEW r \in Slot, NEW k \in Key, Dispatch(r, k) PROVE LimitShape'
  <2>1. [at |-> "peek", key |-> k] \in [at : At, key : Key \cup {"?"}]
    BY <1>0
  <2>2. sent' \in 0 .. MaxRequests
    BY <1>3 DEF Dispatch, LimitShape
  <2>3. req' = [req EXCEPT ![r] = [at |-> "peek", key |-> k]] /\ UNCHANGED <<now, requests, failures, served, lines>>
    BY <1>3 DEF Dispatch
  <2>4. /\ req' \in [Slot -> [at : At, key : Key \cup {"?"}]]
        /\ \A q \in Slot : req'[q].at # "idle" => req'[q].key \in Key
    BY <2>1, <2>3 DEF LimitShape
  <2>. QED
    BY <2>2, <2>3, <2>4 DEF LimitShape
<1>4. ASSUME NEW r \in Slot, PeekFailures(r) PROVE LimitShape'
  <2>1. Goto(r, "hit") \/ Answer(r)
    BY <1>4 DEF PeekFailures
  <2>2. req[r].at # "idle"
    BY <1>4 DEF PeekFailures
  <2>. QED
    BY <1>0, <1>4, <2>1, <2>2, GotoShape, AnswerShape DEF PeekFailures, LimitShape
<1>5. ASSUME NEW r \in Slot, HitRequests(r) PROVE LimitShape'
  <2>. DEFINE k == req[r].key
             b == Hit(requests[k], RequestWindow)
  <2>1. k \in Key /\ req[r].at # "idle"
    BY <1>5 DEF HitRequests, LimitShape
  <2>2. b \in [count : Nat, reset : Nat]
    BY <2>1, HitType DEF LimitShape
  <2>3. Goto(r, "serve") \/ Answer(r)
    BY <1>5 DEF HitRequests
  <2>4. requests' = requests \/ requests' = [requests EXCEPT ![k] = b]
    BY <1>5 DEF HitRequests
  <2>5. lines' \in [Bucket -> [Key -> Nat]]
    <3>1. lines' = lines \/ Line("requests", k, requests[k]) \/ NoLine("requests", k, requests[k])
      BY <1>5 DEF HitRequests
    <3>. QED
      BY <1>0, <2>1, <3>1, LineType DEF LimitShape
  <2>6. served' = served \/ served' = [served EXCEPT ![k][now] = @ + 1]
    BY <1>5 DEF HitRequests
  <2>7. served' \in [Key -> [0 .. MaxTime -> Nat]]
    <3>1. now \in 0 .. MaxTime /\ served[k] \in [0 .. MaxTime -> Nat]
      BY <2>1 DEF LimitShape
    <3>2. [served[k] EXCEPT ![now] = @ + 1] \in [0 .. MaxTime -> Nat]
      BY <3>1, Incremented
    <3>. QED
      BY <2>1, <2>6, <3>2 DEF LimitShape
  <2>8. UNCHANGED <<now, failures, sent>>
    BY <1>5 DEF HitRequests
  <2>. HIDE DEF b
  <2>9. requests' \in [Key -> [count : Nat, reset : Nat]]
    BY <2>1, <2>2, <2>4 DEF LimitShape
  <2>10. /\ req' \in [Slot -> [at : At, key : Key \cup {"?"}]]
         /\ \A q \in Slot : req'[q].at # "idle" => req'[q].key \in Key
    BY <1>0, <2>1, <2>3, GotoShape, AnswerShape
  <2>. QED
    BY <2>5, <2>7, <2>8, <2>9, <2>10 DEF LimitShape
<1>6. ASSUME NEW r \in Slot, FailClosed(r) PROVE LimitShape'
  <2>. DEFINE k == req[r].key
             b == Hit(requests[k], RequestWindow)
  <2>1. k \in Key /\ Answer(r)
    BY <1>6 DEF FailClosed, LimitShape
  <2>2. b \in [count : Nat, reset : Nat]
    BY <2>1, HitType DEF LimitShape
  <2>3. requests' = requests \/ requests' = [requests EXCEPT ![k] = b]
    BY <1>6 DEF FailClosed
  <2>4. lines' = lines \/ NoLine("requests", k, requests[k])
    BY <1>6 DEF FailClosed
  <2>5. lines' \in [Bucket -> [Key -> Nat]]
    BY <1>0, <2>1, <2>4, LineType DEF LimitShape
  <2>6. UNCHANGED <<now, failures, sent, served>>
    BY <1>6 DEF FailClosed
  <2>. HIDE DEF b
  <2>7. requests' \in [Key -> [count : Nat, reset : Nat]]
    BY <2>1, <2>2, <2>3 DEF LimitShape
  <2>8. /\ req' \in [Slot -> [at : At, key : Key \cup {"?"}]]
        /\ \A q \in Slot : req'[q].at # "idle" => req'[q].key \in Key
    BY <2>1, AnswerShape
  <2>. QED
    BY <2>5, <2>6, <2>7, <2>8 DEF LimitShape
<1>7. ASSUME NEW r \in Slot, NEW f, Serve(r, f) PROVE LimitShape'
  <2>1. (Goto(r, "record") \/ Answer(r)) /\ req[r].at # "idle"
    BY <1>7 DEF Serve
  <2>. QED
    BY <1>0, <1>7, <2>1, GotoShape, AnswerShape DEF Serve, LimitShape
<1>8. ASSUME NEW r \in Slot, HitFailures(r) \/ RecordLost(r) PROVE LimitShape'
  <2>. DEFINE k == req[r].key
             b == Hit(failures[k], FailureWindow)
  <2>1. k \in Key /\ Answer(r)
    BY <1>8 DEF HitFailures, RecordLost, LimitShape
  <2>2. b \in [count : Nat, reset : Nat]
    BY <2>1, HitType DEF LimitShape
  <2>3. failures' = failures \/ failures' = [failures EXCEPT ![k] = b]
    BY <1>8 DEF HitFailures, RecordLost
  <2>4. lines' = lines \/ Line("failures", k, failures[k]) \/ NoLine("failures", k, failures[k])
    BY <1>8 DEF HitFailures, RecordLost
  <2>5. lines' \in [Bucket -> [Key -> Nat]]
    BY <1>0, <2>1, <2>4, LineType DEF LimitShape
  <2>6. UNCHANGED <<now, requests, sent, served>>
    BY <1>8 DEF HitFailures, RecordLost
  <2>. HIDE DEF b
  <2>7. failures' \in [Key -> [count : Nat, reset : Nat]]
    BY <2>1, <2>2, <2>3 DEF LimitShape
  <2>8. /\ req' \in [Slot -> [at : At, key : Key \cup {"?"}]]
        /\ \A q \in Slot : req'[q].at # "idle" => req'[q].key \in Key
    BY <2>1, AnswerShape
  <2>. QED
    BY <2>5, <2>6, <2>7, <2>8 DEF LimitShape
<1>. QED
  BY <1>1, <1>2, <1>3, <1>4, <1>5, <1>6, <1>7, <1>8 DEF LimitNext, Middleware

\* The edge feeds the limiter addresses that the header gave it.
LEMMA EdgeStep ==
    ASSUME ConnInv, [EdgeNext]_edgevars
    PROVE  [ConnNext]_connvars /\ [LimitNext]_limitvars
<1>1. ASSUME NEW c \in Conn, Request(c) PROVE LimitNext
  <2>1. client[c] \in Key
    BY <1>1, NamedClient, OneRequestPerConnection DEF Request, ConnInv, ConnShape
  <2>. QED
    BY <1>1, <2>1, OneRequestPerConnection DEF Request, LimitNext
<1>2. ASSUME NEW c \in Conn, Handle(c) PROVE LimitNext
  BY <1>2, OneRequestPerConnection DEF Handle, LimitNext
<1>3. ASSUME NEW c \in Conn, Request(c) \/ Handle(c) PROVE UNCHANGED connvars
  BY <1>3 DEF Request, Handle
<1>4. CASE EdgeNext
  BY <1>1, <1>2, <1>3, <1>4 DEF EdgeNext, LimitNext
<1>5. CASE UNCHANGED edgevars
  BY <1>5 DEF edgevars
<1>. QED
  BY <1>4, <1>5

LEMMA EdgeShape == EdgeSpec => [](ConnInv /\ LimitShape)
<1>1. EdgeInit => ConnInv /\ LimitShape
  BY ConnInitInv, LimitInitShape DEF EdgeInit
<1>2. ConnInv /\ LimitShape /\ [EdgeNext]_edgevars => (ConnInv /\ LimitShape)'
  BY EdgeStep, ConnNextInv, LimitNextShape
<1>. QED
  BY <1>1, <1>2, PTL DEF EdgeSpec

\* Every variable keeps its type.
THEOREM LimitTypeCorrect == EdgeSpec => []LimitTypeOK
BY EdgeShape, LimitShapeType, PTL

-----------------------------------------------------------------------------
(* The limiter: what a step does to the buckets of an address *)

\* A step leaves the request bucket alone, or it is a hit on it; the hit may let a
\* request through, and may write a line.
RequestsStep(k) ==
    \/ /\ requests'[k] = requests[k]
       /\ served'[k] = served[k] \/ RequestLimit = 0
       /\ lines'["requests"][k] = lines["requests"][k]
    \/ /\ now' = now
       /\ requests'[k] = Hit(requests[k], RequestWindow)
       /\ \/ served'[k] = served[k]
          \/ /\ served'[k] = [served[k] EXCEPT ![now] = @ + 1]
             /\ Within(requests'[k], RequestLimit)
       /\ \/ /\ RequestsTrip(requests'[k])
             /\ lines'["requests"][k] = IF Live(requests[k]) THEN lines["requests"][k] + 1 ELSE 1
          \/ lines'["requests"][k] = IF Live(requests[k]) THEN lines["requests"][k] ELSE 0

FailuresStep(k) ==
    \/ /\ failures'[k] = failures[k]
       /\ lines'["failures"][k] = lines["failures"][k]
    \/ /\ now' = now
       /\ failures'[k] = Hit(failures[k], FailureWindow)
       /\ \/ /\ FailuresTrip(failures'[k])
             /\ lines'["failures"][k] = IF Live(failures[k]) THEN lines["failures"][k] + 1 ELSE 1
          \/ lines'["failures"][k] = IF Live(failures[k]) THEN lines["failures"][k] ELSE 0

LEMMA LineDoes ==
    ASSUME LimitShape, NEW bucket \in Bucket, NEW k \in Key, NEW b
    PROVE  /\ Line(bucket, k, b) =>
                /\ lines'[bucket][k] = IF Live(b) THEN lines[bucket][k] + 1 ELSE 1
                /\ \A u \in Bucket, i \in Key : u # bucket \/ i # k => lines'[u][i] = lines[u][i]
           /\ NoLine(bucket, k, b) =>
                /\ lines'[bucket][k] = IF Live(b) THEN lines[bucket][k] ELSE 0
                /\ \A u \in Bucket, i \in Key : u # bucket \/ i # k => lines'[u][i] = lines[u][i]
<1>0. lines \in [Bucket -> [Key -> Nat]]
  BY DEF LimitShape
<1>1. ASSUME NEW n, lines' = [lines EXCEPT ![bucket][k] = n]
      PROVE  /\ lines'[bucket][k] = n
             /\ \A u \in Bucket, i \in Key : u # bucket \/ i # k => lines'[u][i] = lines[u][i]
  BY <1>0, <1>1
<1>2. ASSUME Line(bucket, k, b)
      PROVE  lines' = [lines EXCEPT ![bucket][k] = IF Live(b) THEN lines[bucket][k] + 1 ELSE 1]
  BY <1>0, <1>2 DEF Line
<1>3. ASSUME NoLine(bucket, k, b)
      PROVE  lines' = [lines EXCEPT ![bucket][k] = IF Live(b) THEN lines[bucket][k] ELSE 0]
  BY <1>0, <1>3 DEF NoLine
<1>. QED
  BY <1>1, <1>2, <1>3

LEMMA BucketSteps ==
    ASSUME LimitShape, [LimitNext]_limitvars, NEW k \in Key
    PROVE  RequestsStep(k) /\ FailuresStep(k)
<1>0. /\ "requests" \in Bucket /\ "failures" \in Bucket /\ "requests" # "failures"
      /\ requests \in [Key -> [count : Nat, reset : Nat]]
      /\ failures \in [Key -> [count : Nat, reset : Nat]]
      /\ served \in [Key -> [0 .. MaxTime -> Nat]] /\ now \in 0 .. MaxTime
  BY DEF Bucket, LimitShape
<1>1. CASE UNCHANGED <<requests, failures, served, lines>>
  BY <1>1 DEF RequestsStep, FailuresStep
<1>2. ASSUME NEW r \in Slot, HitRequests(r) PROVE RequestsStep(k) /\ FailuresStep(k)
  <2>. DEFINE q == req[r].key
             b == Hit(requests[q], RequestWindow)
  <2>0. q \in Key
    BY <1>2 DEF HitRequests, LimitShape
  <2>1. CASE RequestLimit = 0
    BY <1>2, <2>1 DEF HitRequests, RequestsStep, FailuresStep
  <2>2. CASE RequestLimit # 0
    <3>1. /\ requests' = [requests EXCEPT ![q] = b]
          /\ \/ RequestsTrip(b) /\ Line("requests", q, requests[q])
             \/ NoLine("requests", q, requests[q])
          /\ UNCHANGED <<now, failures>>
      BY <1>2, <2>2 DEF HitRequests
    <3>2. served' = served \/ (Within(b, RequestLimit) /\ served' = [served EXCEPT ![q][now] = @ + 1])
      <4>1. Within(b, RequestLimit) \/ Answer(r)
        BY <1>2, <2>2 DEF HitRequests
      <4>2. Answer(r) => req'[r].at = "idle"
        BY DEF Answer, Idle, LimitShape
      <4>3. served' = IF req'[r].at = "serve" THEN [served EXCEPT ![q][now] = @ + 1] ELSE served
        BY <1>2 DEF HitRequests
      <4>. QED
        BY <4>1, <4>2, <4>3
    <3>. HIDE DEF b
    <3>3. CASE k = q
      <4>1. requests'[k] = b
        BY <1>0, <2>0, <3>1, <3>3
      <4>2. served'[k] = served[k] \/ (Within(b, RequestLimit) /\ served'[k] = [served[k] EXCEPT ![now] = @ + 1])
        BY <1>0, <2>0, <3>2, <3>3
      <4>3. \/ RequestsTrip(b) /\ lines'["requests"][k] = IF Live(requests[k]) THEN lines["requests"][k] + 1 ELSE 1
            \/ lines'["requests"][k] = IF Live(requests[k]) THEN lines["requests"][k] ELSE 0
        BY <1>0, <2>0, <3>1, <3>3, LineDoes
      <4>4. lines'["failures"][k] = lines["failures"][k]
        <5>1. CASE Line("requests", q, requests[q])
          BY <1>0, <2>0, <5>1, LineDoes
        <5>2. CASE NoLine("requests", q, requests[q])
          BY <1>0, <2>0, <5>2, LineDoes
        <5>. QED
          BY <3>1, <5>1, <5>2
      <4>. QED
        BY <3>1, <3>3, <4>1, <4>2, <4>3, <4>4 DEF RequestsStep, FailuresStep, b
    <3>4. CASE k # q
      <4>1. requests'[k] = requests[k] /\ served'[k] = served[k]
        BY <1>0, <2>0, <3>1, <3>2, <3>4
      <4>2. lines'["failures"][k] = lines["failures"][k] /\ lines'["requests"][k] = lines["requests"][k]
        BY <1>0, <2>0, <3>1, <3>4, LineDoes
      <4>. QED
        BY <3>1, <4>1, <4>2 DEF RequestsStep, FailuresStep
    <3>. QED
      BY <3>3, <3>4
  <2>. QED
    BY <2>1, <2>2
<1>3. ASSUME NEW r \in Slot, FailClosed(r) PROVE RequestsStep(k) /\ FailuresStep(k)
  <2>. DEFINE q == req[r].key
             b == Hit(requests[q], RequestWindow)
  <2>0. q \in Key /\ UNCHANGED <<now, failures, served>>
    BY <1>3 DEF FailClosed, LimitShape
  <2>1. CASE UNCHANGED <<requests, lines>>
    BY <1>1, <2>0, <2>1
  <2>2. CASE requests' = [requests EXCEPT ![q] = b] /\ NoLine("requests", q, requests[q])
    <3>. HIDE DEF b
    <3>1. lines'["failures"][k] = lines["failures"][k]
      BY <1>0, <2>0, <2>2, LineDoes
    <3>2. CASE k = q
      <4>1. requests'[k] = b /\ lines'["requests"][k] = IF Live(requests[k]) THEN lines["requests"][k] ELSE 0
        BY <1>0, <2>0, <2>2, <3>2, LineDoes
      <4>. QED
        BY <2>0, <3>1, <3>2, <4>1 DEF RequestsStep, FailuresStep, b
    <3>3. CASE k # q
      <4>1. requests'[k] = requests[k] /\ lines'["requests"][k] = lines["requests"][k]
        BY <1>0, <2>0, <2>2, <3>3, LineDoes
      <4>. QED
        BY <2>0, <3>1, <4>1 DEF RequestsStep, FailuresStep
    <3>. QED
      BY <3>2, <3>3
  <2>. QED
    BY <1>3, <2>1, <2>2 DEF FailClosed
<1>4. ASSUME NEW r \in Slot, HitFailures(r) \/ RecordLost(r) PROVE RequestsStep(k) /\ FailuresStep(k)
  <2>. DEFINE q == req[r].key
             b == Hit(failures[q], FailureWindow)
  <2>0. q \in Key /\ UNCHANGED <<now, requests, served>>
    BY <1>4 DEF HitFailures, RecordLost, LimitShape
  <2>1. CASE UNCHANGED <<failures, lines>>
    BY <1>1, <2>0, <2>1
  <2>2. CASE /\ failures' = [failures EXCEPT ![q] = b]
             /\ \/ FailuresTrip(b) /\ Line("failures", q, failures[q])
                \/ NoLine("failures", q, failures[q])
    <3>. HIDE DEF b
    <3>1. lines'["requests"][k] = lines["requests"][k]
      BY <1>0, <2>0, <2>2, LineDoes
    <3>2. CASE k = q
      <4>1. failures'[k] = b
        BY <1>0, <2>0, <2>2, <3>2
      <4>2. \/ FailuresTrip(b) /\ lines'["failures"][k] = IF Live(failures[k]) THEN lines["failures"][k] + 1 ELSE 1
            \/ lines'["failures"][k] = IF Live(failures[k]) THEN lines["failures"][k] ELSE 0
        BY <1>0, <2>0, <2>2, <3>2, LineDoes
      <4>. QED
        BY <2>0, <3>1, <3>2, <4>1, <4>2 DEF RequestsStep, FailuresStep, b
    <3>3. CASE k # q
      <4>1. failures'[k] = failures[k] /\ lines'["failures"][k] = lines["failures"][k]
        BY <1>0, <2>0, <2>2, <3>3, LineDoes
      <4>. QED
        BY <2>0, <3>1, <4>1 DEF RequestsStep, FailuresStep
    <3>. QED
      BY <3>2, <3>3
  <2>. QED
    BY <1>4, <2>1, <2>2 DEF HitFailures, RecordLost
<1>5. ASSUME NEW r \in Slot, NEW f, PeekFailures(r) \/ Serve(r, f) PROVE UNCHANGED <<requests, failures, served, lines>>
  BY <1>5 DEF PeekFailures, Serve
<1>6. ASSUME NEW r \in Slot, NEW q, Dispatch(r, q) PROVE UNCHANGED <<requests, failures, served, lines>>
  BY <1>6 DEF Dispatch
<1>7. CASE Pass \/ UNCHANGED limitvars
  BY <1>1, <1>7 DEF Pass, limitvars
<1>. QED
  BY <1>1, <1>2, <1>3, <1>4, <1>5, <1>6, <1>7 DEF LimitNext, Middleware

LEMMA HitDoes ==
    ASSUME LimitShape, NEW b \in [count : Nat, reset : Nat], NEW w
    PROVE  /\ Live(b) => Hit(b, w).count = b.count + 1 /\ Hit(b, w).reset = b.reset
           /\ ~Live(b) => Hit(b, w).count = 1 /\ Hit(b, w).reset = now + w
BY DEF Hit

\* "Further hits don't extend it", whatever the store does.
THEOREM WindowsAreFixed == EdgeSpec => WindowIsFixed
<1>. DEFINE Fixed ==
       \A k \in Key :
         /\ Live(requests[k]) => requests'[k].reset = requests[k].reset
                                 /\ requests'[k].count >= requests[k].count
         /\ Live(failures[k]) => failures'[k].reset = failures[k].reset
                                 /\ failures'[k].count >= failures[k].count
<1>1. ASSUME LimitShape, [LimitNext]_limitvars PROVE Fixed
  <2>. SUFFICES ASSUME NEW k \in Key
                PROVE  /\ Live(requests[k]) => requests'[k].reset = requests[k].reset
                                               /\ requests'[k].count >= requests[k].count
                       /\ Live(failures[k]) => failures'[k].reset = failures[k].reset
                                               /\ failures'[k].count >= failures[k].count
    OBVIOUS
  <2>1. /\ requests[k] \in [count : Nat, reset : Nat] /\ failures[k] \in [count : Nat, reset : Nat]
        /\ requests[k].count \in Nat /\ failures[k].count \in Nat
    BY <1>1 DEF LimitShape
  <2>2. requests'[k] = requests[k] \/ requests'[k] = Hit(requests[k], RequestWindow)
    BY <1>1, BucketSteps DEF RequestsStep
  <2>3. failures'[k] = failures[k] \/ failures'[k] = Hit(failures[k], FailureWindow)
    BY <1>1, BucketSteps DEF FailuresStep
  <2>4. ASSUME Live(requests[k])
        PROVE  requests'[k].reset = requests[k].reset /\ requests'[k].count >= requests[k].count
    BY <1>1, <2>1, <2>2, <2>4, HitDoes
  <2>5. ASSUME Live(failures[k])
        PROVE  failures'[k].reset = failures[k].reset /\ failures'[k].count >= failures[k].count
    BY <1>1, <2>1, <2>3, <2>5, HitDoes
  <2>. QED
    BY <2>4, <2>5
<1>. HIDE DEF Fixed
<1>2. ConnInv /\ LimitShape /\ [EdgeNext]_edgevars => [Fixed]_limitvars
  BY <1>1, EdgeStep
<1>3. EdgeSpec => [][Fixed]_limitvars
  BY <1>2, EdgeShape, PTL DEF EdgeSpec
<1>. QED
  BY <1>3 DEF WindowIsFixed, Fixed

\* A line was written only if the bucket is past its limit.
LinesInv ==
    \A k \in Key :
        /\ lines["requests"][k] <= 1
        /\ lines["requests"][k] = 1 => requests[k].count > RequestLimit
        /\ lines["failures"][k] <= 1
        /\ lines["failures"][k] = 1 => failures[k].count >= FailureLimit

LEMMA LinesNext ==
    ASSUME LimitShape, LinesInv, [LimitNext]_limitvars
    PROVE  LinesInv'
<1>. SUFFICES ASSUME NEW k \in Key
              PROVE  /\ lines'["requests"][k] <= 1
                     /\ lines'["requests"][k] = 1 => requests'[k].count > RequestLimit
                     /\ lines'["failures"][k] <= 1
                     /\ lines'["failures"][k] = 1 => failures'[k].count >= FailureLimit
  BY DEF LinesInv
<1>1. /\ requests[k] \in [count : Nat, reset : Nat] /\ failures[k] \in [count : Nat, reset : Nat]
      /\ requests[k].count \in Nat /\ failures[k].count \in Nat
      /\ lines["requests"][k] \in Nat /\ lines["failures"][k] \in Nat
      /\ RequestLimit \in Nat /\ FailureLimit \in Nat
  BY WindowsArePositive DEF LimitShape, Bucket
<1>2. /\ lines["requests"][k] <= 1
      /\ lines["requests"][k] = 1 => requests[k].count > RequestLimit
      /\ lines["failures"][k] <= 1
      /\ lines["failures"][k] = 1 => failures[k].count >= FailureLimit
  BY DEF LinesInv
<1>3. RequestsStep(k) /\ FailuresStep(k)
  BY BucketSteps
<1>4. lines'["requests"][k] <= 1 /\ (lines'["requests"][k] = 1 => requests'[k].count > RequestLimit)
  <2>1. CASE requests'[k] = requests[k] /\ lines'["requests"][k] = lines["requests"][k]
    BY <1>1, <1>2, <2>1
  <2>2. CASE requests'[k] = Hit(requests[k], RequestWindow)
             /\ RequestsTrip(requests'[k])
             /\ lines'["requests"][k] = IF Live(requests[k]) THEN lines["requests"][k] + 1 ELSE 1
    BY <1>1, <1>2, <2>2, HitDoes DEF RequestsTrip
  <2>3. CASE requests'[k] = Hit(requests[k], RequestWindow)
             /\ lines'["requests"][k] = IF Live(requests[k]) THEN lines["requests"][k] ELSE 0
    BY <1>1, <1>2, <2>3, HitDoes
  <2>. QED
    BY <1>3, <2>1, <2>2, <2>3 DEF RequestsStep
<1>5. lines'["failures"][k] <= 1 /\ (lines'["failures"][k] = 1 => failures'[k].count >= FailureLimit)
  <2>1. CASE failures'[k] = failures[k] /\ lines'["failures"][k] = lines["failures"][k]
    BY <1>1, <1>2, <2>1
  <2>2. CASE failures'[k] = Hit(failures[k], FailureWindow)
             /\ FailuresTrip(failures'[k])
             /\ lines'["failures"][k] = IF Live(failures[k]) THEN lines["failures"][k] + 1 ELSE 1
    BY <1>1, <1>2, <2>2, HitDoes DEF FailuresTrip
  <2>3. CASE failures'[k] = Hit(failures[k], FailureWindow)
             /\ lines'["failures"][k] = IF Live(failures[k]) THEN lines["failures"][k] ELSE 0
    BY <1>1, <1>2, <2>3, HitDoes
  <2>. QED
    BY <1>3, <2>1, <2>2, <2>3 DEF FailuresStep
<1>. QED
  BY <1>4, <1>5

\* No window of a bucket has two audit lines, however many requests it blocks.
THEOREM OneLine == EdgeSpec => []OneLinePerTrip
<1>1. EdgeInit => LinesInv
  BY WindowsArePositive DEF EdgeInit, LimitInit, LinesInv, Bucket, Empty
<1>2. ConnInv /\ LimitShape /\ LinesInv /\ [EdgeNext]_edgevars => LinesInv'
  BY EdgeStep, LinesNext
<1>3. LinesInv => OneLinePerTrip
  BY DEF LinesInv, OneLinePerTrip, Bucket
<1>. QED
  BY <1>1, <1>2, <1>3, EdgeShape, PTL DEF EdgeSpec

-----------------------------------------------------------------------------
(* The lockout *)

\* Requests with the key of r and a progress in A.
Among(k, A) == {r \in Slot : req[r].key = k /\ req[r].at \in A}

LEMMA AmongFinite ==
    ASSUME NEW k, NEW A
    PROVE  /\ IsFiniteSet(Among(k, A)) /\ Cardinality(Among(k, A)) \in Nat
           /\ Cardinality(Among(k, A)) <= Cardinality(Slot) /\ Cardinality(Slot) \in Nat
BY WindowsArePositive, FS_Subset, FS_CardinalityType DEF Among

LEMMA AmongShrinks ==
    ASSUME NEW k, NEW A, Among(k, A)' \subseteq Among(k, A)
    PROVE  Cardinality(Among(k, A)') <= Cardinality(Among(k, A))
BY AmongFinite, FS_Subset

LEMMA AmongLoses ==
    ASSUME NEW k, NEW A, NEW r \in Among(k, A), Among(k, A)' \subseteq Among(k, A) \ {r}
    PROVE  /\ Cardinality(Among(k, A)') + 1 <= Cardinality(Among(k, A))
           /\ Cardinality(Among(k, A)') + 1 <= Cardinality(Slot)
<1>. DEFINE S == Among(k, A)
           T == Among(k, A) \ {r}
           U == Among(k, A)'
<1>. HIDE DEF S, T, U
<1>1. IsFiniteSet(S) /\ Cardinality(S) \in Nat /\ Cardinality(S) <= Cardinality(Slot) /\ Cardinality(Slot) \in Nat
  BY AmongFinite DEF S
<1>2. IsFiniteSet(T) /\ Cardinality(T) = Cardinality(S) - 1
  BY <1>1, FS_RemoveElement DEF S, T
<1>3. Cardinality(U) <= Cardinality(T) /\ IsFiniteSet(U)
  BY <1>2, FS_Subset DEF T, U
<1>4. Cardinality(U) \in Nat /\ Cardinality(T) \in Nat
  BY <1>2, <1>3, FS_CardinalityType
<1>5. \A x, y, z, w \in Nat : x <= y /\ y = z - 1 /\ z <= w => x + 1 <= z /\ x + 1 <= w
  OBVIOUS
<1>6. Cardinality(U) + 1 <= Cardinality(S) /\ Cardinality(U) + 1 <= Cardinality(Slot)
  BY <1>1, <1>2, <1>3, <1>4, <1>5
<1>. QED
  BY <1>6 DEF S, U

LEMMA AmongGains ==
    ASSUME NEW k, NEW A, NEW r, Among(k, A)' \subseteq Among(k, A) \cup {r}
    PROVE  Cardinality(Among(k, A)') <= Cardinality(Among(k, A)) + 1
<1>. DEFINE S == Among(k, A)
           T == Among(k, A) \cup {r}
           U == Among(k, A)'
<1>. HIDE DEF S, T, U
<1>1. IsFiniteSet(S) /\ Cardinality(S) \in Nat
  BY AmongFinite DEF S
<1>2. IsFiniteSet(T) /\ Cardinality(T) <= Cardinality(S) + 1
  BY <1>1, FS_AddElement DEF S, T
<1>3. Cardinality(U) <= Cardinality(T) /\ IsFiniteSet(U)
  BY <1>2, FS_Subset DEF T, U
<1>4. Cardinality(U) \in Nat /\ Cardinality(T) \in Nat
  BY <1>2, <1>3, FS_CardinalityType
<1>5. Cardinality(U) <= Cardinality(S) + 1
  BY <1>1, <1>2, <1>3, <1>4
<1>. QED
  BY <1>5 DEF S, U

\* Only its own steps move a request, and they leave it its key or end it.
LEMMA RequestMoves ==
    ASSUME LimitShape, NEW r \in Slot, NEW a \in At, Goto(r, a) \/ Answer(r)
    PROVE  /\ \A q \in Slot \ {r} : req'[q] = req[q]
           /\ \/ req'[r].at = a /\ req'[r].key = req[r].key /\ Goto(r, a)
              \/ req'[r].at = "idle"
BY DEF LimitShape, Goto, Answer, Idle

Aloft == {"hit", "serve", "record"}

\* What a step does to the failures of an address and to its requests in flight.
LockoutStep(k) ==
    \/ /\ failures'[k] = failures[k] /\ now' >= now
       /\ Among(k, Aloft)' \subseteq Among(k, Aloft)
    \/ /\ failures'[k] = failures[k] /\ now' = now
       /\ FailureLimit > 0 => Peek(failures[k], FailureLimit)
    \/ /\ now' = now
       /\ failures'[k] = Hit(failures[k], FailureWindow)
       /\ \E r \in Among(k, Aloft) : Among(k, Aloft)' \subseteq Among(k, Aloft) \ {r}

LEMMA LockoutSteps ==
    ASSUME LimitShape, [LimitNext]_limitvars, NEW k \in Key
    PROVE  LockoutStep(k)
<1>0. /\ failures \in [Key -> [count : Nat, reset : Nat]] /\ now \in Nat /\ now >= now
      /\ Aloft \subseteq At /\ "idle" \notin Aloft /\ "peek" \notin Aloft /\ "idle" \in At
  BY DEF LimitShape, Aloft, At
<1>1. ASSUME failures' = failures, now' = now, Among(k, Aloft)' \subseteq Among(k, Aloft) PROVE LockoutStep(k)
  BY <1>0, <1>1 DEF LockoutStep
<1>2. CASE Pass \/ UNCHANGED limitvars
  BY <1>0, <1>2 DEF Pass, limitvars, LockoutStep, Among
<1>3. ASSUME NEW r \in Slot, NEW q \in Key, Dispatch(r, q) PROVE LockoutStep(k)
  <2>1. req'[r].at = "peek" /\ \A p \in Slot \ {r} : req'[p] = req[p]
    BY <1>3 DEF Dispatch, LimitShape
  <2>2. Among(k, Aloft)' \subseteq Among(k, Aloft)
    BY <1>0, <2>1 DEF Among
  <2>. QED
    BY <1>1, <1>3, <2>2 DEF Dispatch
<1>4. ASSUME NEW r \in Slot, PeekFailures(r) PROVE LockoutStep(k)
  <2>1. failures' = failures /\ now' = now
    BY <1>4 DEF PeekFailures
  <2>2. CASE FailureLimit > 0 => Peek(failures[req[r].key], FailureLimit)
    <3>1. Goto(r, "hit")
      BY <1>4, <2>2 DEF PeekFailures
    <3>2. CASE req[r].key = k
      BY <2>1, <2>2, <3>2 DEF LockoutStep
    <3>3. CASE req[r].key # k
      <4>1. Among(k, Aloft)' \subseteq Among(k, Aloft)
        BY <3>1, <3>3 DEF Goto, Among, LimitShape
      <4>. QED
        BY <1>1, <2>1, <4>1
    <3>. QED
      BY <3>2, <3>3
  <2>3. CASE ~(FailureLimit > 0 => Peek(failures[req[r].key], FailureLimit))
    <3>1. Answer(r)
      BY <1>4, <2>3 DEF PeekFailures
    <3>2. Among(k, Aloft)' \subseteq Among(k, Aloft)
      BY <1>0, <3>1, RequestMoves DEF Among
    <3>. QED
      BY <1>1, <2>1, <3>2
  <2>. QED
    BY <2>2, <2>3
<1>5. ASSUME NEW r \in Slot, NEW a \in Aloft, req[r].at \in Aloft, Goto(r, a) \/ Answer(r)
      PROVE  Among(k, Aloft)' \subseteq Among(k, Aloft)
  BY <1>0, <1>5, RequestMoves DEF Among
<1>6. ASSUME NEW r \in Slot, HitRequests(r) PROVE LockoutStep(k)
  <2>1. (Goto(r, "serve") \/ Answer(r)) /\ req[r].at = "hit" /\ failures' = failures /\ now' = now
    BY <1>6 DEF HitRequests
  <2>. QED
    BY <1>1, <1>5, <2>1 DEF Aloft
<1>7. ASSUME NEW r \in Slot, FailClosed(r) PROVE LockoutStep(k)
  <2>1. Answer(r) /\ failures' = failures /\ now' = now
    BY <1>7 DEF FailClosed
  <2>2. Among(k, Aloft)' \subseteq Among(k, Aloft)
    BY <1>0, <2>1, RequestMoves DEF Among
  <2>. QED
    BY <1>1, <2>1, <2>2
<1>8. ASSUME NEW r \in Slot, NEW f, Serve(r, f) PROVE LockoutStep(k)
  <2>1. (Goto(r, "record") \/ Answer(r)) /\ req[r].at = "serve" /\ failures' = failures /\ now' = now
    BY <1>8 DEF Serve
  <2>. QED
    BY <1>1, <1>5, <2>1 DEF Aloft
<1>9. ASSUME NEW r \in Slot, HitFailures(r) \/ RecordLost(r) PROVE LockoutStep(k)
  <2>. DEFINE q == req[r].key
  <2>1. Answer(r) /\ req[r].at = "record" /\ now' = now /\ q \in Key
    BY <1>9 DEF HitFailures, RecordLost, LimitShape
  <2>2. /\ Among(k, Aloft)' \subseteq Among(k, Aloft) \ {r}
        /\ Among(k, Aloft)' \subseteq Among(k, Aloft)
    BY <1>0, <2>1, RequestMoves DEF Among
  <2>3. failures' = failures \/ failures' = [failures EXCEPT ![q] = Hit(failures[q], FailureWindow)]
    BY <1>9 DEF HitFailures, RecordLost
  <2>4. CASE failures' = failures
    BY <1>1, <2>1, <2>2, <2>4
  <2>5. CASE failures' = [failures EXCEPT ![q] = Hit(failures[q], FailureWindow)] /\ k # q
    BY <1>0, <2>1, <2>2, <2>5 DEF LockoutStep
  <2>6. CASE failures' = [failures EXCEPT ![q] = Hit(failures[q], FailureWindow)] /\ k = q
    <3>1. failures'[k] = Hit(failures[k], FailureWindow)
      BY <1>0, <2>1, <2>6
    <3>2. r \in Among(k, Aloft)
      BY <2>1, <2>6 DEF Among, Aloft
    <3>. QED
      BY <2>1, <2>2, <3>1, <3>2 DEF LockoutStep
  <2>. QED
    BY <2>3, <2>4, <2>5, <2>6
<1>. QED
  BY <1>2, <1>3, <1>4, <1>6, <1>7, <1>8, <1>9 DEF LimitNext, Middleware

LEMMA SharpNext ==
    ASSUME LimitShape, LockoutIsSharp, [LimitNext]_limitvars
    PROVE  LockoutIsSharp'
<1>. SUFFICES ASSUME FailureLimit > 0, NEW k \in Key, Live(failures[k])'
              PROVE  failures'[k].count + Cardinality(InFlight(k)') <= FailureLimit - 1 + Cardinality(Slot)
  BY DEF LockoutIsSharp
<1>0. InFlight(k) = Among(k, Aloft) /\ InFlight(k)' = Among(k, Aloft)'
  BY DEF InFlight, Among, Aloft
<1>. DEFINE m == Cardinality(Among(k, Aloft))
           n == Cardinality(Among(k, Aloft)')
           z == Cardinality(Slot)
<1>1. m \in Nat /\ n \in Nat /\ z \in Nat /\ m <= z /\ n <= z
  <2>1. IsFiniteSet(Slot) /\ Among(k, Aloft)' \in SUBSET Slot
    BY WindowsArePositive DEF Among
  <2>2. n <= z /\ IsFiniteSet(Among(k, Aloft)')
    BY <2>1, FS_Subset
  <2>. QED
    BY <2>2, AmongFinite, FS_CardinalityType
<1>2. /\ failures[k] \in [count : Nat, reset : Nat] /\ failures[k].count \in Nat /\ failures[k].reset \in Nat
      /\ FailureLimit \in Nat /\ now \in Nat
  BY WindowsArePositive DEF LimitShape
<1>3. Live(failures[k]) => failures[k].count + m <= FailureLimit - 1 + z
  BY <1>0 DEF LockoutIsSharp
<1>4. failures'[k].count > 0 /\ failures'[k].reset > now'
  BY DEF Live
<1>. SUFFICES failures'[k].count + n <= FailureLimit - 1 + z
  BY <1>0
<1>5. CASE /\ failures'[k] = failures[k] /\ now' >= now
           /\ Among(k, Aloft)' \subseteq Among(k, Aloft)
  <2>1. n <= m
    BY <1>5, AmongShrinks
  <2>2. now' \in Nat
    BY LimitNextShape DEF LimitShape
  <2>3. Live(failures[k])
    BY <1>2, <1>4, <1>5, <2>2 DEF Live
  <2>. HIDE DEF m, n, z
  <2>. QED
    BY <1>1, <1>2, <1>3, <1>5, <2>1, <2>3
<1>6. CASE /\ failures'[k] = failures[k] /\ now' = now
           /\ FailureLimit > 0 => Peek(failures[k], FailureLimit)
  <2>1. Live(failures[k])
    BY <1>4, <1>6 DEF Live
  <2>2. failures[k].count < FailureLimit
    BY <1>6, <2>1 DEF Peek
  <2>. HIDE DEF m, n, z
  <2>. QED
    BY <1>1, <1>2, <1>6, <2>2
<1>7. CASE /\ failures'[k] = Hit(failures[k], FailureWindow)
           /\ \E r \in Among(k, Aloft) : Among(k, Aloft)' \subseteq Among(k, Aloft) \ {r}
  <2>1. n + 1 <= m /\ n + 1 <= z
    BY <1>7, AmongLoses
  <2>. HIDE DEF m, n, z
  <2>2. CASE Live(failures[k])
    BY <1>1, <1>2, <1>3, <1>7, <2>1, <2>2, HitDoes
  <2>3. CASE ~Live(failures[k])
    BY <1>1, <1>2, <1>7, <2>1, <2>3, HitDoes
  <2>. QED
    BY <2>2, <2>3
<1>. QED
  BY <1>5, <1>6, <1>7, LockoutSteps DEF LockoutStep

\* For any number of concurrent requests: the lockout of an address is late by no
\* more than what had passed the check when it fell.
THEOREM LockoutIsTimely == EdgeSpec => []LockoutIsSharp
<1>1. EdgeInit => LockoutIsSharp
  BY DEF EdgeInit, LimitInit, LockoutIsSharp, Live, Empty
<1>2. ConnInv /\ LimitShape /\ LockoutIsSharp /\ [EdgeNext]_edgevars => LockoutIsSharp'
  BY EdgeStep, SharpNext
<1>. QED
  BY <1>1, <1>2, EdgeShape, PTL DEF EdgeSpec

-----------------------------------------------------------------------------
(* Whose bucket it is *)

Asking    == {"peek", "hit"}
Recording == {"record"}

GhostShape == asked \in [Caller -> Nat] /\ failed \in [Caller -> Nat]

\* A request in flight bears the name of the client of its connection.
Own == \A c \in Conn : req[c].at # "idle" /\ req[c].key \in Caller => req[c].key = caller[c]

\* What is in the buckets, and what is about to be, was asked and did fail.
Accounted ==
    \A k \in Caller :
        /\ requests[k].count + Cardinality(Among(k, Asking)) <= asked[k]
        /\ failures[k].count + Cardinality(Among(k, Recording)) <= failed[k]

BlameInv == GhostShape /\ Own /\ Accounted

LEMMA BlameIsOwn == ConnInv /\ LimitShape /\ BlameInv => BlamedForOwn
<1>. SUFFICES ASSUME ConnInv, LimitShape, BlameInv, NEW c \in Conn, phase[c] = "tls",
                     ParseHeader(wire[c]).client \in Caller
              PROVE  /\ requests[client[c]].count <= asked[caller[c]]
                     /\ failures[client[c]].count <= failed[caller[c]]
  BY DEF BlamedForOwn
<1>1. client[c] = caller[c] /\ caller[c] \in Caller /\ Caller \subseteq Key
  BY NamedClient, ProxyAssumption, OneRequestPerConnection
<1>. DEFINE k == caller[c]
<1>2. requests[k].count \in Nat /\ failures[k].count \in Nat /\ asked[k] \in Nat /\ failed[k] \in Nat
  BY <1>1 DEF LimitShape, BlameInv, GhostShape
<1>3. Cardinality(Among(k, Asking)) \in Nat /\ Cardinality(Among(k, Recording)) \in Nat
  BY AmongFinite
<1>4. /\ requests[k].count + Cardinality(Among(k, Asking)) <= asked[k]
      /\ failures[k].count + Cardinality(Among(k, Recording)) <= failed[k]
  BY <1>1 DEF BlameInv, Accounted
<1>5. \A x, y, z \in Nat : x + y <= z => x <= z
  OBVIOUS
<1>6. requests[k].count <= asked[k] /\ failures[k].count <= failed[k]
  BY <1>2, <1>3, <1>4, <1>5
<1>. QED
  BY <1>1, <1>6

\* Nobody new, a count for one less that asks, or one more that asks for one more
\* in the ledger: the books stay balanced.
\* A count that goes from x to y while what covers it goes from m to l.
Moves(x, y, m, l, k, A) ==
    \/ y = x /\ l >= m /\ Among(k, A)' \subseteq Among(k, A)
    \/ y <= x + 1 /\ l >= m /\ \E r \in Among(k, A) : Among(k, A)' \subseteq Among(k, A) \ {r}
    \/ y = x /\ l = m + 1 /\ \E r : Among(k, A)' \subseteq Among(k, A) \cup {r}

LEMMA LedgerBalance ==
    ASSUME NEW x \in Nat, NEW y \in Nat, NEW m \in Nat, NEW l \in Nat, NEW k, NEW A,
           x + Cardinality(Among(k, A)) <= m, Moves(x, y, m, l, k, A)
    PROVE  y + Cardinality(Among(k, A)') <= l
<1>. USE DEF Moves
<1>. DEFINE p == Cardinality(Among(k, A))
           q == Cardinality(Among(k, A)')
<1>1. p \in Nat
  BY AmongFinite
<1>2. q \in Nat
  <2>1. IsFiniteSet(Slot) /\ Among(k, A)' \in SUBSET Slot
    BY WindowsArePositive DEF Among
  <2>2. IsFiniteSet(Among(k, A)')
    BY <2>1, FS_Subset
  <2>. QED
    BY <2>2, FS_CardinalityType
<1>3. \/ y = x /\ l >= m /\ q <= p
      \/ y <= x + 1 /\ l >= m /\ q + 1 <= p
      \/ y = x /\ l = m + 1 /\ q <= p + 1
  BY AmongShrinks, AmongLoses, AmongGains
<1>4. x + p <= m
  OBVIOUS
<1>. HIDE DEF p, q
<1>5. y + q <= l
  BY <1>1, <1>2, <1>3, <1>4
<1>. QED
  BY <1>5 DEF q

\* The step of the middleware that may hit the request bucket ends the asking.
AskingStep(k) ==
    \/ requests'[k].count = requests[k].count /\ Among(k, Asking)' \subseteq Among(k, Asking)
    \/ /\ requests'[k].count <= requests[k].count + 1
       /\ \E r \in Among(k, Asking) : Among(k, Asking)' \subseteq Among(k, Asking) \ {r}

LEMMA HitCounts ==
    ASSUME LimitShape, NEW b \in [count : Nat, reset : Nat], NEW w
    PROVE  Hit(b, w).count <= b.count + 1
<1>1. b.count \in Nat
  OBVIOUS
<1>. QED
  BY <1>1, HitDoes

LEMMA AskingSteps ==
    ASSUME LimitShape, NEW c \in Slot, Middleware(c), NEW k \in Key
    PROVE  AskingStep(k)
<1>0. /\ requests \in [Key -> [count : Nat, reset : Nat]]
      /\ Asking \subseteq At /\ {"idle", "serve", "record"} \cap Asking = {} /\ "hit" \in Asking
      /\ {"idle", "hit", "serve", "record"} \subseteq At
  BY DEF LimitShape, Asking, At
<1>1. CASE PeekFailures(c)
  <2>1. req[c].at = "peek" /\ (Goto(c, "hit") \/ Answer(c)) /\ requests' = requests
    BY <1>1 DEF PeekFailures
  <2>2. Among(k, Asking)' \subseteq Among(k, Asking)
    BY <1>0, <2>1, RequestMoves DEF Among, Asking
  <2>. QED
    BY <2>1, <2>2 DEF AskingStep
<1>2. CASE HitRequests(c) \/ FailClosed(c)
  <2>. DEFINE q == req[c].key
  <2>1. (Goto(c, "serve") \/ Answer(c)) /\ req[c].at \in Asking
    BY <1>2 DEF HitRequests, FailClosed, Asking
  <2>2. q \in Key
    BY <2>1 DEF LimitShape, Asking
  <2>3. requests' = requests \/ requests' = [requests EXCEPT ![q] = Hit(requests[q], RequestWindow)]
    BY <1>2 DEF HitRequests, FailClosed
  <2>4. /\ Among(k, Asking)' \subseteq Among(k, Asking) \ {c}
        /\ Among(k, Asking)' \subseteq Among(k, Asking)
    BY <1>0, <2>1, RequestMoves DEF Among
  <2>5. CASE requests'[k] = requests[k]
    BY <2>4, <2>5 DEF AskingStep
  <2>6. CASE k = q /\ requests'[k] = Hit(requests[k], RequestWindow)
    <3>1. requests'[k].count <= requests[k].count + 1
      BY <1>0, <2>6, HitCounts
    <3>2. c \in Among(k, Asking)
      BY <2>1, <2>6 DEF Among
    <3>. QED
      BY <2>4, <3>1, <3>2 DEF AskingStep
  <2>. QED
    BY <1>0, <2>2, <2>3, <2>5, <2>6
<1>3. CASE Serve(c, TRUE) \/ Serve(c, FALSE) \/ HitFailures(c) \/ RecordLost(c)
  <2>1. (Goto(c, "record") \/ Answer(c)) /\ requests' = requests
    BY <1>3 DEF Serve, HitFailures, RecordLost
  <2>2. Among(k, Asking)' \subseteq Among(k, Asking)
    BY <1>0, <2>1, RequestMoves DEF Among
  <2>. QED
    BY <2>1, <2>2 DEF AskingStep
<1>. QED
  BY <1>1, <1>2, <1>3 DEF Middleware

\* And the step that may hit the failure bucket ends the recording.
RecordingStep(k, c) ==
    \/ /\ failures'[k].count = failures[k].count
       /\ Among(k, Recording)' \subseteq Among(k, Recording)
    \/ /\ failures'[k].count <= failures[k].count + 1
       /\ \E r \in Among(k, Recording) : Among(k, Recording)' \subseteq Among(k, Recording) \ {r}
    \/ /\ failures'[k].count = failures[k].count
       /\ req[c].key = k /\ req[c].at = "serve" /\ req'[c].at = "record"
       /\ Among(k, Recording)' \subseteq Among(k, Recording) \cup {c}

LEMMA RecordingSteps ==
    ASSUME LimitShape, NEW c \in Slot, Middleware(c), NEW k \in Key
    PROVE  RecordingStep(k, c)
<1>0. /\ failures \in [Key -> [count : Nat, reset : Nat]] /\ {"idle", "hit", "serve", "record"} \subseteq At
  BY DEF LimitShape, At
<1>1. CASE PeekFailures(c) \/ HitRequests(c) \/ FailClosed(c)
  <2>1. PICK a \in {"hit", "serve"} : Goto(c, a) \/ Answer(c)
    BY <1>1 DEF PeekFailures, HitRequests, FailClosed
  <2>2. failures' = failures
    BY <1>1 DEF PeekFailures, HitRequests, FailClosed
  <2>3. Among(k, Recording)' \subseteq Among(k, Recording)
    BY <1>0, <2>1, RequestMoves DEF Among, Recording
  <2>. QED
    BY <2>2, <2>3 DEF RecordingStep
<1>2. CASE Serve(c, TRUE) \/ Serve(c, FALSE)
  <2>1. (Goto(c, "record") \/ Answer(c)) /\ failures' = failures /\ req[c].at = "serve"
    BY <1>2 DEF Serve
  <2>2. \/ Among(k, Recording)' \subseteq Among(k, Recording)
        \/ /\ req[c].key = k /\ req'[c].at = "record"
           /\ Among(k, Recording)' \subseteq Among(k, Recording) \cup {c}
    BY <1>0, <2>1, RequestMoves DEF Among, Recording
  <2>. QED
    BY <2>1, <2>2 DEF RecordingStep
<1>3. CASE HitFailures(c) \/ RecordLost(c)
  <2>. DEFINE q == req[c].key
  <2>1. Answer(c) /\ req[c].at = "record"
    BY <1>3 DEF HitFailures, RecordLost
  <2>2. q \in Key
    BY <2>1 DEF LimitShape
  <2>3. failures' = failures \/ failures' = [failures EXCEPT ![q] = Hit(failures[q], FailureWindow)]
    BY <1>3 DEF HitFailures, RecordLost
  <2>4. /\ Among(k, Recording)' \subseteq Among(k, Recording) \ {c}
        /\ Among(k, Recording)' \subseteq Among(k, Recording)
    BY <1>0, <2>1, RequestMoves DEF Among, Recording
  <2>5. CASE failures'[k] = failures[k]
    BY <2>4, <2>5 DEF RecordingStep
  <2>6. CASE k = q /\ failures'[k] = Hit(failures[k], FailureWindow)
    <3>1. failures'[k].count <= failures[k].count + 1
      BY <1>0, <2>6, HitCounts
    <3>2. c \in Among(k, Recording)
      BY <2>1, <2>6 DEF Among, Recording
    <3>. QED
      BY <2>4, <3>1, <3>2 DEF RecordingStep
  <2>. QED
    BY <1>0, <2>2, <2>3, <2>5, <2>6
<1>. QED
  BY <1>1, <1>2, <1>3 DEF Middleware

LEMMA BlameNext ==
    ASSUME ConnInv, LimitShape, BlameInv, [EdgeNext]_edgevars
    PROVE  BlameInv'
<1>. USE OneRequestPerConnection
<1>0. /\ Caller \subseteq Key /\ GhostShape /\ Own /\ Accounted /\ LimitShape'
      /\ caller \in [Conn -> Caller]
      /\ req \in [Conn -> [at : At, key : Key \cup {"?"}]]
  BY EdgeStep, LimitNextShape DEF BlameInv, ConnInv, ConnShape, LimitShape
<1>1. \A k \in Caller : /\ requests[k].count \in Nat /\ requests'[k].count \in Nat
                        /\ failures[k].count \in Nat /\ failures'[k].count \in Nat
                        /\ asked[k] \in Nat /\ failed[k] \in Nat
  BY <1>0 DEF LimitShape, GhostShape
<1>2. caller' = caller
  BY DEF EdgeNext, edgevars, connvars, ConnNext, Connect, DataReceived, Drop, Request, Handle
<1>3. CASE UNCHANGED <<req, requests, failures, asked, failed>>
  BY <1>0, <1>2, <1>3 DEF BlameInv, GhostShape, Own, Accounted, Among
<1>4. ASSUME NEW c \in Conn, Request(c) PROVE BlameInv'
  <2>1. /\ Dispatch(c, client[c]) /\ asked' = [asked EXCEPT ![caller[c]] = @ + 1] /\ failed' = failed
        /\ client[c] \in {caller[c], Balancer}
    BY <1>4, NamedClient DEF Request
  <2>2. /\ req'[c].at = "peek" /\ req'[c].key = client[c] /\ \A q \in Conn \ {c} : req'[q] = req[q]
        /\ UNCHANGED <<requests, failures>>
    BY <1>0, <2>1 DEF Dispatch
  <2>3. GhostShape'
    BY <1>0, <2>1 DEF GhostShape
  <2>4. Own'
    BY <1>0, <1>2, <2>1, <2>2, ProxyAssumption DEF Own
  <2>5. ASSUME NEW k \in Caller
        PROVE  /\ requests'[k].count + Cardinality(Among(k, Asking)') <= asked'[k]
               /\ failures'[k].count + Cardinality(Among(k, Recording)') <= failed'[k]
    <3>1. /\ requests[k].count + Cardinality(Among(k, Asking)) <= asked[k]
          /\ failures[k].count + Cardinality(Among(k, Recording)) <= failed[k]
      BY <1>0 DEF Accounted
    <3>2. Among(k, Recording)' \subseteq Among(k, Recording)
      BY <2>2 DEF Among, Recording
    <3>3. \/ asked'[k] >= asked[k] /\ Among(k, Asking)' \subseteq Among(k, Asking)
          \/ asked'[k] = asked[k] + 1 /\ Among(k, Asking)' \subseteq Among(k, Asking) \cup {c}
      <4>1. CASE k = caller[c]
        <5>1. asked'[k] = asked[k] + 1
          BY <1>0, <2>1, <4>1 DEF GhostShape
        <5>2. Among(k, Asking)' \subseteq Among(k, Asking) \cup {c}
          BY <2>2 DEF Among
        <5>. QED
          BY <5>1, <5>2
      <4>2. CASE k # caller[c]
        <5>1. client[c] # k
          BY <2>1, <4>2, ProxyAssumption
        <5>2. asked'[k] = asked[k]
          BY <1>0, <2>1, <4>2 DEF GhostShape
        <5>3. Among(k, Asking)' \subseteq Among(k, Asking)
          BY <2>2, <5>1 DEF Among
        <5>. QED
          BY <1>1, <5>2, <5>3
      <4>. QED
        BY <4>1, <4>2
    <3>4. asked'[k] \in Nat /\ failed'[k] = failed[k] /\ failed[k] >= failed[k]
      BY <1>1, <2>1, <2>3 DEF GhostShape
    <3>5. requests'[k].count + Cardinality(Among(k, Asking)') <= asked'[k]
      <4>1. Moves(requests[k].count, requests'[k].count, asked[k], asked'[k], k, Asking)
        BY <2>2, <3>3 DEF Moves
      <4>2. requests[k].count \in Nat /\ requests'[k].count \in Nat /\ asked[k] \in Nat /\ asked'[k] \in Nat
        BY <1>1, <3>4
      <4>. QED
        BY <3>1, <4>1, <4>2, LedgerBalance
    <3>6. failures'[k].count + Cardinality(Among(k, Recording)') <= failed'[k]
      <4>1. Moves(failures[k].count, failures'[k].count, failed[k], failed'[k], k, Recording)
        BY <2>2, <3>2, <3>4 DEF Moves
      <4>2. failures[k].count \in Nat /\ failures'[k].count \in Nat /\ failed[k] \in Nat /\ failed'[k] \in Nat
        BY <1>1, <3>4
      <4>. QED
        BY <3>1, <4>1, <4>2, LedgerBalance
    <3>. QED
      BY <3>5, <3>6
  <2>. QED
    BY <2>3, <2>4, <2>5 DEF BlameInv, Accounted
<1>5. ASSUME NEW c \in Conn, Handle(c) PROVE BlameInv'
  <2>. DEFINE failing == req[c].at = "serve" /\ req'[c].at = "record"
  <2>1. /\ Middleware(c) /\ asked' = asked
        /\ failed' = IF failing THEN [failed EXCEPT ![caller[c]] = @ + 1] ELSE failed
    BY <1>5 DEF Handle
  <2>2. /\ \A q \in Conn \ {c} : req'[q] = req[q]
        /\ req'[c].at = "idle" \/ req'[c].key = req[c].key
        /\ req[c].at # "idle"
    <3>1. PICK a \in At : Goto(c, a) \/ Answer(c)
      BY <2>1 DEF Middleware, PeekFailures, HitRequests, FailClosed, Serve, HitFailures, RecordLost, At
    <3>2. req[c].at # "idle"
      BY <2>1 DEF Middleware, PeekFailures, HitRequests, FailClosed, Serve, HitFailures, RecordLost
    <3>. QED
      BY <3>1, <3>2, RequestMoves
  <2>3. GhostShape'
    BY <1>0, <2>1 DEF GhostShape
  <2>4. Own'
    BY <1>0, <1>2, <2>2 DEF Own
  <2>5. ASSUME NEW k \in Caller
        PROVE  /\ requests'[k].count + Cardinality(Among(k, Asking)') <= asked'[k]
               /\ failures'[k].count + Cardinality(Among(k, Recording)') <= failed'[k]
    <3>0. k \in Key /\ asked'[k] = asked[k] /\ asked[k] >= asked[k] /\ failed'[k] \in Nat /\ asked'[k] \in Nat
      BY <1>0, <1>1, <2>1, <2>3 DEF GhostShape
    <3>1. /\ requests[k].count + Cardinality(Among(k, Asking)) <= asked[k]
          /\ failures[k].count + Cardinality(Among(k, Recording)) <= failed[k]
      BY <1>0 DEF Accounted
    <3>2. failed'[k] >= failed[k]
      BY <1>0, <1>1, <2>1 DEF GhostShape
    <3>3. AskingStep(k) /\ RecordingStep(k, c)
      BY <2>1, <3>0, AskingSteps, RecordingSteps
    <3>4. req[c].key = k /\ failing => failed'[k] = failed[k] + 1
      <4>1. req[c].key = k => caller[c] = k
        BY <1>0, <2>2 DEF Own
      <4>. QED
        BY <1>0, <2>1, <4>1 DEF GhostShape
    <3>5. requests'[k].count + Cardinality(Among(k, Asking)') <= asked'[k]
      <4>1. Moves(requests[k].count, requests'[k].count, asked[k], asked'[k], k, Asking)
        BY <3>0, <3>3 DEF AskingStep, Moves
      <4>2. requests[k].count \in Nat /\ requests'[k].count \in Nat /\ asked[k] \in Nat /\ asked'[k] \in Nat
        BY <1>1, <3>0
      <4>. QED
        BY <3>1, <4>1, <4>2, LedgerBalance
    <3>6. Moves(failures[k].count, failures'[k].count, failed[k], failed'[k], k, Recording)
      BY <3>2, <3>3, <3>4 DEF RecordingStep, Moves
    <3>7. failures'[k].count + Cardinality(Among(k, Recording)') <= failed'[k]
      <4>1. failures[k].count \in Nat /\ failures'[k].count \in Nat /\ failed[k] \in Nat /\ failed'[k] \in Nat
        BY <1>1, <3>0
      <4>. QED
        BY <3>1, <3>6, <4>1, LedgerBalance
    <3>. QED
      BY <3>5, <3>7
  <2>. QED
    BY <2>3, <2>4, <2>5 DEF BlameInv, Accounted
<1>6. CASE ConnNext /\ UNCHANGED <<limitvars, asked, failed>>
  BY <1>3, <1>6 DEF limitvars
<1>7. CASE Pass /\ UNCHANGED <<connvars, asked, failed>>
  BY <1>3, <1>7 DEF Pass
<1>8. CASE UNCHANGED edgevars
  BY <1>3, <1>8 DEF edgevars, limitvars
<1>. QED
  BY <1>4, <1>5, <1>6, <1>7, <1>8 DEF EdgeNext

\* For any number of clients behind one balancer: what stands against a client
\* that its header named was its own doing.
THEOREM BucketsAreOwn == EdgeSpec => []BlamedForOwn
<1>1. EdgeInit => BlameInv
  <2>. SUFFICES ASSUME EdgeInit PROVE BlameInv
    OBVIOUS
  <2>1. GhostShape /\ Own
    BY OneRequestPerConnection DEF EdgeInit, LimitInit, GhostShape, Own, Idle
  <2>2. ASSUME NEW k \in Caller PROVE Among(k, Asking) = {} /\ Among(k, Recording) = {}
    BY DEF EdgeInit, LimitInit, Among, Asking, Recording, Idle
  <2>3. ASSUME NEW k \in Caller PROVE requests[k].count = 0 /\ failures[k].count = 0 /\ asked[k] = 0 /\ failed[k] = 0
    BY OneRequestPerConnection DEF EdgeInit, LimitInit, Empty
  <2>4. Cardinality({}) = 0
    BY FS_EmptySet
  <2>. QED
    BY <2>1, <2>2, <2>3, <2>4 DEF BlameInv, Accounted
<1>2. ConnInv /\ LimitShape /\ BlameInv /\ [EdgeNext]_edgevars => BlameInv'
  BY BlameNext
<1>. QED
  BY <1>1, <1>2, BlameIsOwn, EdgeShape, PTL DEF EdgeSpec

-----------------------------------------------------------------------------
(* Twice the limit *)

\* The requests that f counts from second lo to second hi, one pair for each.
Taken(f, lo, hi) ==
    {p \in (0 .. MaxTime) \X (1 .. MaxRequests) : lo <= p[1] /\ p[1] <= hi /\ p[2] <= f[p[1]]}

LEMMA TakenFinite ==
    ASSUME NEW f, NEW lo, NEW hi
    PROVE  IsFiniteSet(Taken(f, lo, hi)) /\ Cardinality(Taken(f, lo, hi)) \in Nat
<1>1. IsFiniteSet(0 .. MaxTime) /\ IsFiniteSet(1 .. MaxRequests)
  BY WindowsArePositive, FS_Interval
<1>2. IsFiniteSet((0 .. MaxTime) \X (1 .. MaxRequests))
  BY <1>1, FS_Product
<1>3. Taken(f, lo, hi) \in SUBSET ((0 .. MaxTime) \X (1 .. MaxRequests))
  BY DEF Taken
<1>. QED
  BY <1>2, <1>3, FS_Subset, FS_CardinalityType

LEMMA TakenWithin ==
    ASSUME NEW f, NEW lo \in Int, NEW hi \in Int, NEW a \in Int, NEW b \in Int, a <= lo, hi <= b
    PROVE  Cardinality(Taken(f, lo, hi)) <= Cardinality(Taken(f, a, b))
<1>1. ASSUME NEW p \in Taken(f, lo, hi) PROVE p \in Taken(f, a, b)
  <2>1. /\ p \in (0 .. MaxTime) \X (1 .. MaxRequests) /\ p[1] \in Int
        /\ lo <= p[1] /\ p[1] <= hi /\ p[2] <= f[p[1]]
    BY DEF Taken
  <2>2. a <= p[1] /\ p[1] <= b
    BY <2>1
  <2>. QED
    BY <2>1, <2>2 DEF Taken
<1>2. Taken(f, lo, hi) \in SUBSET Taken(f, a, b)
  BY <1>1
<1>. QED
  BY <1>2, TakenFinite, FS_Subset

\* A stretch is what is before m and what is from m on.
LEMMA TakenSplit ==
    ASSUME NEW f, NEW lo \in Int, NEW hi \in Int, NEW a \in Int, NEW m \in Int, a <= lo
    PROVE  Cardinality(Taken(f, lo, hi)) <= Cardinality(Taken(f, a, m - 1)) + Cardinality(Taken(f, m, MaxTime))
<1>. DEFINE S == Taken(f, a, m - 1)
           T == Taken(f, m, MaxTime)
<1>1. ASSUME NEW p \in Taken(f, lo, hi) PROVE p \in S \cup T
  <2>1. /\ p \in (0 .. MaxTime) \X (1 .. MaxRequests) /\ p[1] \in 0 .. MaxTime
        /\ lo <= p[1] /\ p[1] <= hi /\ p[2] <= f[p[1]]
    BY DEF Taken
  <2>2. a <= p[1] /\ p[1] <= MaxTime /\ (p[1] <= m - 1 \/ m <= p[1])
    BY <2>1, WindowsArePositive
  <2>. QED
    BY <2>1, <2>2 DEF Taken
<1>2. IsFiniteSet(S) /\ IsFiniteSet(T) /\ Cardinality(S) \in Nat /\ Cardinality(T) \in Nat
  BY TakenFinite
<1>. HIDE DEF S, T
<1>3. /\ IsFiniteSet(S \cup T)
      /\ Cardinality(S \cup T) = Cardinality(S) + Cardinality(T) - Cardinality(S \cap T)
  BY <1>2, FS_Union
<1>4. IsFiniteSet(S \cap T)
  <2>1. S \cap T \in SUBSET S
    OBVIOUS
  <2>. QED
    BY <1>2, <2>1, FS_Subset
<1>5. Cardinality(S \cap T) \in Nat
  BY <1>4, FS_CardinalityType
<1>6. Taken(f, lo, hi) \in SUBSET (S \cup T)
  BY <1>1
<1>7. Cardinality(Taken(f, lo, hi)) <= Cardinality(S \cup T)
  BY <1>3, <1>6, FS_Subset
<1>8. Cardinality(Taken(f, lo, hi)) \in Nat
  BY TakenFinite
<1>9. Cardinality(Taken(f, lo, hi)) <= Cardinality(S) + Cardinality(T)
  BY <1>2, <1>3, <1>5, <1>7, <1>8
<1>. QED
  BY <1>9 DEF S, T

\* One more at second n.
LEMMA TakenElsewhere ==
    ASSUME NEW f \in [0 .. MaxTime -> Nat], NEW n \in 0 .. MaxTime, NEW lo \in Int, NEW hi \in Int,
           ~(lo <= n /\ n <= hi)
    PROVE  Taken([f EXCEPT ![n] = @ + 1], lo, hi) = Taken(f, lo, hi)
<1>. DEFINE g == [f EXCEPT ![n] = @ + 1]
<1>1. \A x \in 0 .. MaxTime : x # n => g[x] = f[x]
  OBVIOUS
<1>. HIDE DEF g
<1>2. ASSUME NEW p \in (0 .. MaxTime) \X (1 .. MaxRequests), lo <= p[1], p[1] <= hi
      PROVE  g[p[1]] = f[p[1]]
  <2>1. p[1] \in 0 .. MaxTime /\ p[1] # n
    BY <1>2
  <2>. QED
    BY <1>1, <2>1
<1>3. Taken(g, lo, hi) = Taken(f, lo, hi)
  BY <1>2 DEF Taken
<1>. QED
  BY <1>3 DEF g

LEMMA TakenOneMore ==
    ASSUME NEW f \in [0 .. MaxTime -> Nat], NEW n \in 0 .. MaxTime, NEW lo \in Int, NEW hi \in Int
    PROVE  Cardinality(Taken([f EXCEPT ![n] = @ + 1], lo, hi)) <= Cardinality(Taken(f, lo, hi)) + 1
<1>. DEFINE g == [f EXCEPT ![n] = @ + 1]
           S == Taken(f, lo, hi)
           T == S \cup {<<n, f[n] + 1>>}
<1>0. f[n] \in Nat /\ g[n] = f[n] + 1 /\ \A x \in 0 .. MaxTime : x # n => g[x] = f[x]
  OBVIOUS
<1>. HIDE DEF g
<1>1. ASSUME NEW p \in Taken(g, lo, hi) PROVE p \in T
  <2>1. /\ p \in (0 .. MaxTime) \X (1 .. MaxRequests) /\ p[1] \in 0 .. MaxTime /\ p[2] \in Nat
        /\ lo <= p[1] /\ p[1] <= hi /\ p[2] <= g[p[1]] /\ p = <<p[1], p[2]>>
    BY WindowsArePositive DEF Taken
  <2>2. CASE p[1] # n
    BY <1>0, <2>1, <2>2 DEF Taken
  <2>3. CASE p[1] = n /\ p[2] <= f[n]
    BY <2>1, <2>3 DEF Taken
  <2>4. CASE p[1] = n /\ ~(p[2] <= f[n])
    <3>1. p[2] = f[n] + 1
      BY <1>0, <2>1, <2>4
    <3>. QED
      BY <2>1, <2>4, <3>1
  <2>. QED
    BY <2>2, <2>3, <2>4
<1>2. IsFiniteSet(S) /\ Cardinality(S) \in Nat
  BY TakenFinite
<1>. HIDE DEF S
<1>3. IsFiniteSet(T) /\ Cardinality(T) <= Cardinality(S) + 1
  <2>. DEFINE x == <<n, f[n] + 1>>
  <2>. HIDE DEF x
  <2>1. /\ IsFiniteSet(S \cup {x})
        /\ Cardinality(S \cup {x}) = IF x \in S THEN Cardinality(S) ELSE Cardinality(S) + 1
    BY <1>2, FS_AddElement
  <2>2. IsFiniteSet(S \cup {x}) /\ Cardinality(S \cup {x}) <= Cardinality(S) + 1
    BY <1>2, <2>1
  <2>. QED
    BY <2>2 DEF x
<1>4. Taken(g, lo, hi) \in SUBSET T
  BY <1>1
<1>. HIDE DEF T
<1>5. Cardinality(Taken(g, lo, hi)) <= Cardinality(T) /\ Cardinality(T) \in Nat
  BY <1>3, <1>4, FS_Subset, FS_CardinalityType
<1>6. Cardinality(Taken(g, lo, hi)) \in Nat
  BY TakenFinite
<1>7. Cardinality(Taken(g, lo, hi)) <= Cardinality(S) + 1
  BY <1>2, <1>3, <1>5, <1>6
<1>. QED
  BY <1>7 DEF g, S

\* What f let through from lo to hi.
Through(f, lo, hi) == Cardinality(Taken(f, lo, hi))

LEMMA ThroughType == \A f, lo, hi : Through(f, lo, hi) \in Nat
BY TakenFinite DEF Through

\* g is f, or f with one more at second n.
OneMoreAt(g, f, n) == g = f \/ g = [f EXCEPT ![n] = @ + 1]

LEMMA ThroughElsewhere ==
    ASSUME NEW f \in [0 .. MaxTime -> Nat], NEW n \in 0 .. MaxTime, NEW g, OneMoreAt(g, f, n),
           NEW lo \in Int, NEW hi \in Int, n < lo \/ hi < n
    PROVE  Through(g, lo, hi) = Through(f, lo, hi)
<1>1. ~(lo <= n /\ n <= hi)
  OBVIOUS
<1>2. CASE g = f
  BY <1>2
<1>3. CASE g = [f EXCEPT ![n] = @ + 1]
  BY <1>1, <1>3, TakenElsewhere DEF Through
<1>. QED
  BY <1>2, <1>3 DEF OneMoreAt

LEMMA ThroughGrows ==
    ASSUME NEW f \in [0 .. MaxTime -> Nat], NEW n \in 0 .. MaxTime, NEW g, OneMoreAt(g, f, n),
           NEW lo \in Int, NEW hi \in Int
    PROVE  Through(g, lo, hi) <= Through(f, lo, hi) + 1
<1>1. CASE g = f
  <2>1. Through(f, lo, hi) \in Nat
    BY ThroughType
  <2>. QED
    BY <1>1, <2>1
<1>2. CASE g = [f EXCEPT ![n] = @ + 1]
  BY <1>2, TakenOneMore DEF Through
<1>. QED
  BY <1>1, <1>2 DEF OneMoreAt

\* Of the latest window of an address, with its count and its end, at second n,
\* with f what was let through: the window has let through no more than it counted
\* and no more than the limit, the same time before it no more than the limit, and
\* nothing since it ended.
LatestInv(f, count, reset, n) ==
    /\ count = 0 => reset = 0
    /\ count > 0 => reset >= RequestWindow
    /\ reset - RequestWindow <= n
    /\ Through(f, reset - RequestWindow, MaxTime) <= count
    /\ Through(f, reset - RequestWindow, MaxTime) <= RequestLimit
    /\ Through(f, reset - RequestWindow - RequestWindow, reset - RequestWindow - 1) <= RequestLimit
    /\ Through(f, reset, MaxTime) = 0

\* No stretch of time has more than twice the limit.
StretchInv(f) == \A t \in 0 .. MaxTime : Through(f, t, t + RequestWindow - 1) <= 2 * RequestLimit

LEMMA WindowGoesOn ==
    ASSUME NEW f \in [0 .. MaxTime -> Nat], NEW n \in 0 .. MaxTime, NEW g, OneMoreAt(g, f, n),
           NEW count \in Nat, NEW reset \in Nat, LatestInv(f, count, reset, n),
           count > 0, reset > n, g = f \/ count + 1 <= RequestLimit
    PROVE  LatestInv(g, count + 1, reset, n)
<1>. DEFINE W == RequestWindow
           s == reset - W
           x == Through(f, s, MaxTime)
           y == Through(g, s, MaxTime)
<1>0. W \in Nat /\ RequestLimit \in Nat /\ MaxTime \in Nat /\ n \in Nat
  BY WindowsArePositive
<1>1. s \in Int /\ s - W \in Int /\ s - 1 \in Int /\ MaxTime \in Int /\ reset \in Int
  BY <1>0
<1>2. s <= n /\ x <= count /\ x <= RequestLimit /\ x \in Nat /\ y \in Nat
  BY ThroughType DEF LatestInv
<1>3. y <= x + 1 /\ (g = f => y = x)
  BY <1>1, ThroughGrows
<1>4. y <= count + 1 /\ y <= RequestLimit
  <2>. HIDE DEF x, y
  <2>. QED
    BY <1>0, <1>2, <1>3
<1>5. Through(g, s - W, s - 1) = Through(f, s - W, s - 1)
  <2>1. s - 1 < n
    <3>. HIDE DEF s
    <3>. QED
      BY <1>0, <1>1, <1>2
  <2>. HIDE DEF s, W
  <2>. QED
    BY <1>1, <2>1, ThroughElsewhere
<1>6. Through(g, reset, MaxTime) = Through(f, reset, MaxTime)
  BY <1>0, <1>1, ThroughElsewhere
<1>. QED
  BY <1>2, <1>4, <1>5, <1>6 DEF LatestInv

LEMMA ThroughWithin ==
    ASSUME NEW f, NEW lo \in Int, NEW hi \in Int, NEW a \in Int, NEW b \in Int, a <= lo, hi <= b
    PROVE  Through(f, lo, hi) <= Through(f, a, b)
BY TakenWithin DEF Through

LEMMA WindowOpens ==
    ASSUME NEW f \in [0 .. MaxTime -> Nat], NEW n \in 0 .. MaxTime, NEW g, OneMoreAt(g, f, n),
           NEW count \in Nat, NEW reset \in Nat, LatestInv(f, count, reset, n),
           ~(count > 0 /\ reset > n), RequestLimit > 0
    PROVE  LatestInv(g, 1, n + RequestWindow, n)
<1>. DEFINE W == RequestWindow
           s == reset - W
           z == n + W
<1>0. W \in Nat /\ W > 0 /\ RequestLimit \in Nat /\ MaxTime \in Nat /\ n \in Nat /\ n <= MaxTime
  BY WindowsArePositive
<1>1. reset <= n
  BY <1>0 DEF LatestInv
<1>2. /\ s \in Int /\ n - W \in Int /\ n - 1 \in Int /\ z \in Nat /\ z - W = n /\ z - W - W = n - W
      /\ z - W - 1 = n - 1 /\ s <= n - W /\ n - 1 <= MaxTime /\ reset <= z /\ n < z /\ n - 1 < n
  BY <1>0, <1>1
<1>3. Through(f, n, MaxTime) = 0 /\ Through(f, z, MaxTime) = 0
  <2>1. Through(f, n, MaxTime) <= Through(f, reset, MaxTime) /\ Through(f, z, MaxTime) <= Through(f, reset, MaxTime)
    <3>. HIDE DEF z
    <3>. QED
      BY <1>0, <1>1, <1>2, ThroughWithin
  <2>2. Through(f, reset, MaxTime) = 0
    BY DEF LatestInv
  <2>3. Through(f, n, MaxTime) \in Nat /\ Through(f, z, MaxTime) \in Nat
    BY ThroughType
  <2>. QED
    BY <2>1, <2>2, <2>3
<1>4. Through(g, n, MaxTime) <= 1 /\ Through(g, n, MaxTime) \in Nat
  <2>1. Through(g, n, MaxTime) <= Through(f, n, MaxTime) + 1
    BY <1>0, ThroughGrows
  <2>. QED
    BY <1>3, <2>1, ThroughType
<1>5. Through(g, n - W, n - 1) <= RequestLimit
  <2>. HIDE DEF s, W
  <2>1. Through(g, n - W, n - 1) = Through(f, n - W, n - 1)
    BY <1>2, ThroughElsewhere
  <2>2. Through(f, n - W, n - 1) <= Through(f, s, MaxTime)
    BY <1>0, <1>2, ThroughWithin
  <2>3. Through(f, s, MaxTime) <= RequestLimit
    BY DEF LatestInv, s, W
  <2>4. Through(f, n - W, n - 1) \in Nat /\ Through(f, s, MaxTime) \in Nat
    BY ThroughType
  <2>. QED
    BY <1>0, <2>1, <2>2, <2>3, <2>4
<1>6. Through(g, z, MaxTime) = 0
  <2>. HIDE DEF z
  <2>1. Through(g, z, MaxTime) = Through(f, z, MaxTime)
    BY <1>0, <1>2, ThroughElsewhere
  <2>. QED
    BY <1>3, <2>1
<1>7. z >= W /\ n <= n /\ 1 <= RequestLimit /\ Through(g, n, MaxTime) <= RequestLimit
  <2>1. 1 <= RequestLimit
    BY <1>0
  <2>2. Through(g, n, MaxTime) <= RequestLimit
    BY <1>0, <1>4, <2>1
  <2>. QED
    BY <1>0, <2>1, <2>2
<1>. HIDE DEF z
<1>8. LatestInv(g, 1, z, n)
  BY <1>2, <1>4, <1>5, <1>6, <1>7 DEF LatestInv
<1>. QED
  BY <1>8 DEF z

\* A stretch with the current second in it lies in the latest window and the time
\* of a window before it.
LEMMA StretchHolds ==
    ASSUME NEW f \in [0 .. MaxTime -> Nat], NEW n \in 0 .. MaxTime, NEW g, OneMoreAt(g, f, n),
           NEW count \in Nat, NEW reset \in Nat, LatestInv(g, count, reset, n), reset > n,
           StretchInv(f)
    PROVE  StretchInv(g)
<1>. SUFFICES ASSUME NEW t \in 0 .. MaxTime PROVE Through(g, t, t + RequestWindow - 1) <= 2 * RequestLimit
  BY DEF StretchInv
<1>. DEFINE W == RequestWindow
           s == reset - W
           e == t + W - 1
<1>0. W \in Nat /\ RequestLimit \in Nat /\ n \in Nat /\ t \in Nat /\ MaxTime \in Nat
  BY WindowsArePositive
<1>1. s \in Int /\ s - W \in Int /\ e \in Int /\ t \in Int
  BY <1>0
<1>2. CASE n < t \/ e < n
  <2>1. Through(f, t, e) <= 2 * RequestLimit
    BY DEF StretchInv
  <2>. HIDE DEF e
  <2>2. Through(g, t, e) = Through(f, t, e)
    BY <1>1, <1>2, ThroughElsewhere
  <2>. QED
    BY <2>1, <2>2 DEF e
<1>3. CASE ~(n < t \/ e < n)
  <2>1. s - W <= t
    <3>1. s <= n
      BY DEF LatestInv
    <3>2. \A x, a, b, w \in Int : x <= a /\ ~(b + w - 1 < a) => x - w <= b
      OBVIOUS
    <3>. QED
      BY <1>0, <1>1, <1>3, <3>1, <3>2
  <2>2. Through(g, t, e) <= Through(g, s - W, s - 1) + Through(g, s, MaxTime)
    <3>. HIDE DEF e, s, W
    <3>. QED
      BY <1>1, <2>1, TakenSplit DEF Through
  <2>3. Through(g, s - W, s - 1) <= RequestLimit /\ Through(g, s, MaxTime) <= RequestLimit
    BY DEF LatestInv
  <2>4. Through(g, t, e) \in Nat /\ Through(g, s - W, s - 1) \in Nat /\ Through(g, s, MaxTime) \in Nat
    BY ThroughType
  <2>5. \A x, y, u, v \in Nat : x <= y + u /\ y <= v /\ u <= v => x <= 2 * v
    OBVIOUS
  <2>. QED
    BY <1>0, <2>2, <2>3, <2>4, <2>5
<1>. QED
  BY <1>0, <1>1, <1>2, <1>3

WindowInv(k) == LatestInv(served[k], requests[k].count, requests[k].reset, now) /\ StretchInv(served[k])

WindowsInv == RequestLimit > 0 => \A k \in Key : WindowInv(k)

LEMMA WindowsTwice == LimitShape /\ WindowsInv => TwiceTheLimit
<1>. SUFFICES ASSUME LimitShape, WindowsInv, RequestLimit > 0, NEW k \in Key
              PROVE  /\ Live(requests[k]) =>
                          LetThrough(k, requests[k].reset - RequestWindow, RequestWindow) <= RequestLimit
                     /\ \A t \in 0 .. MaxTime : LetThrough(k, t, RequestWindow) <= 2 * RequestLimit
  BY DEF TwiceTheLimit
<1>. DEFINE f == served[k]
           q == requests[k]
           W == RequestWindow
           s == q.reset - W
<1>0. /\ W \in Nat /\ W > 0 /\ MaxTime \in Nat /\ RequestLimit \in Nat /\ q.reset \in Nat /\ q.count \in Nat
      /\ s \in Int
  BY WindowsArePositive DEF LimitShape
<1>1. LatestInv(f, q.count, q.reset, now) /\ StretchInv(f)
  BY DEF WindowsInv, WindowInv
<1>2. ASSUME NEW t \in Nat PROVE LetThrough(k, t, W) = Cardinality(Taken(f, t, t + W - 1))
  <2>. DEFINE S == {p \in (t .. t + W - 1) \X (1 .. MaxRequests) : p[1] <= MaxTime /\ p[2] <= served[k][p[1]]}
  <2>1. ASSUME NEW p \in S PROVE p \in Taken(f, t, t + W - 1)
    <3>1. p[1] \in t .. t + W - 1 /\ p[1] <= MaxTime /\ p[2] \in 1 .. MaxRequests /\ p = <<p[1], p[2]>>
          /\ p[2] <= f[p[1]]
      OBVIOUS
    <3>2. p[1] \in 0 .. MaxTime /\ t <= p[1] /\ p[1] <= t + W - 1
      BY <1>0, <3>1
    <3>3. p \in (0 .. MaxTime) \X (1 .. MaxRequests)
      BY <3>1, <3>2
    <3>. QED
      BY <3>1, <3>2, <3>3 DEF Taken
  <2>2. ASSUME NEW p \in Taken(f, t, t + W - 1) PROVE p \in S
    <3>1. p[1] \in 0 .. MaxTime /\ t <= p[1] /\ p[1] <= t + W - 1 /\ p[2] \in 1 .. MaxRequests /\ p = <<p[1], p[2]>>
          /\ p[2] <= f[p[1]]
      BY DEF Taken
    <3>2. p[1] \in t .. t + W - 1 /\ p[1] <= MaxTime
      BY <1>0, <3>1
    <3>3. p \in (t .. t + W - 1) \X (1 .. MaxRequests)
      BY <3>1, <3>2
    <3>. QED
      BY <3>1, <3>2, <3>3
  <2>3. S = Taken(f, t, t + W - 1)
    BY <2>1, <2>2
  <2>. QED
    BY <2>3 DEF LetThrough
<1>3. ASSUME NEW t \in 0 .. MaxTime PROVE LetThrough(k, t, W) <= 2 * RequestLimit
  <2>1. t \in Nat
    OBVIOUS
  <2>. QED
    BY <1>1, <1>2, <2>1 DEF StretchInv, Through
<1>4. ASSUME Live(q) PROVE LetThrough(k, s, W) <= RequestLimit
  <2>1. Cardinality(Taken(f, s, MaxTime)) <= RequestLimit
    BY <1>1 DEF LatestInv, Through
  <2>2. s \in Nat
    <3>1. q.count > 0
      BY <1>4 DEF Live
    <3>2. q.reset >= W
      BY <1>1, <3>1 DEF LatestInv
    <3>. QED
      BY <1>0, <3>2
  <2>3. LetThrough(k, s, W) <= RequestLimit
    <3>1. s + W - 1 \in Int /\ s <= s
      BY <1>0
    <3>2. CASE s + W - 1 <= MaxTime
      <4>1. Cardinality(Taken(f, s, s + W - 1)) <= Cardinality(Taken(f, s, MaxTime))
        BY <1>0, <3>1, <3>2, TakenWithin
      <4>2. Cardinality(Taken(f, s, s + W - 1)) \in Nat /\ Cardinality(Taken(f, s, MaxTime)) \in Nat
        BY TakenFinite
      <4>. QED
        BY <1>0, <1>2, <2>1, <2>2, <4>1, <4>2
    <3>3. CASE ~(s + W - 1 <= MaxTime)
      <4>1. Taken(f, s, s + W - 1) = Taken(f, s, MaxTime)
        <5>1. ASSUME NEW p \in (0 .. MaxTime) \X (1 .. MaxRequests) PROVE p[1] <= s + W - 1 /\ p[1] <= MaxTime
          <6>1. p[1] \in 0 .. MaxTime
            OBVIOUS
          <6>. QED
            BY <1>0, <3>1, <3>3, <6>1
        <5>. QED
          BY <5>1 DEF Taken
      <4>. QED
        BY <1>2, <2>1, <2>2, <4>1
    <3>. QED
      BY <3>2, <3>3
  <2>. QED
    BY <2>3
<1>. QED
  BY <1>3, <1>4

LEMMA ClockRuns ==
    ASSUME LimitShape, [LimitNext]_limitvars
    PROVE  now' \in 0 .. MaxTime /\ now' >= now
<1>1. now \in 0 .. MaxTime /\ MaxTime \in Nat
  BY WindowsArePositive DEF LimitShape
<1>2. now' = now \/ Pass
  BY DEF LimitNext, limitvars, Dispatch, Middleware, PeekFailures, HitRequests,
         FailClosed, Serve, HitFailures, RecordLost
<1>. QED
  BY <1>1, <1>2 DEF Pass

LEMMA WindowsNext ==
    ASSUME LimitShape, WindowsInv, [LimitNext]_limitvars
    PROVE  WindowsInv'
<1>. SUFFICES ASSUME RequestLimit > 0, NEW k \in Key PROVE WindowInv(k)'
  BY DEF WindowsInv
<1>. DEFINE f == served[k]
           g == served'[k]
           q == requests[k]
           r == requests'[k]
<1>0. /\ f \in [0 .. MaxTime -> Nat] /\ q \in [count : Nat, reset : Nat] /\ now \in 0 .. MaxTime
      /\ q.count \in Nat /\ q.reset \in Nat /\ RequestWindow \in Nat /\ RequestLimit \in Nat
      /\ RequestWindow > 0
  BY WindowsArePositive DEF LimitShape
<1>1. LatestInv(f, q.count, q.reset, now) /\ StretchInv(f)
  BY DEF WindowsInv, WindowInv
<1>2. CASE r = q /\ g = f
  <2>1. q.reset - RequestWindow <= now'
    BY <1>0, <1>1, ClockRuns DEF LatestInv
  <2>2. LatestInv(f, q.count, q.reset, now')
    BY <1>1, <2>1 DEF LatestInv
  <2>. QED
    BY <1>1, <1>2, <2>2 DEF WindowInv
<1>3. CASE /\ now' = now
           /\ r = Hit(q, RequestWindow)
           /\ g = f \/ (g = [f EXCEPT ![now] = @ + 1] /\ Within(r, RequestLimit))
  <2>1. OneMoreAt(g, f, now) /\ (g = f \/ r.count <= RequestLimit)
    BY <1>3 DEF OneMoreAt, Within
  <2>. HIDE DEF f, g
  <2>2. CASE Live(q)
    <3>1. q.count > 0 /\ q.reset > now /\ r.count = q.count + 1 /\ r.reset = q.reset
      BY <1>0, <1>3, <2>2, HitDoes DEF Live
    <3>2. LatestInv(g, q.count + 1, q.reset, now)
      BY <1>0, <1>1, <2>1, <3>1, WindowGoesOn
    <3>3. q.count + 1 \in Nat
      BY <1>0
    <3>4. StretchInv(g)
      BY <1>0, <1>1, <2>1, <3>1, <3>2, <3>3, StretchHolds
    <3>. QED
      BY <1>3, <3>1, <3>2, <3>4 DEF WindowInv, g
  <2>3. CASE ~Live(q)
    <3>1. ~(q.count > 0 /\ q.reset > now) /\ r.count = 1 /\ r.reset = now + RequestWindow
      BY <1>0, <1>3, <2>3, HitDoes DEF Live
    <3>2. LatestInv(g, 1, now + RequestWindow, now)
      BY <1>0, <1>1, <2>1, <3>1, WindowOpens
    <3>3. now + RequestWindow \in Nat /\ now + RequestWindow > now
      BY <1>0
    <3>4. StretchInv(g)
      BY <1>0, <1>1, <2>1, <3>2, <3>3, StretchHolds
    <3>. QED
      BY <1>3, <3>1, <3>2, <3>4 DEF WindowInv, g
  <2>. QED
    BY <2>2, <2>3
<1>4. RequestLimit # 0
  BY <1>0
<1>. QED
  BY <1>2, <1>3, <1>4, BucketSteps DEF RequestsStep

LEMMA WindowsInit == LimitInit => WindowsInv
<1>. SUFFICES ASSUME LimitInit, RequestLimit > 0, NEW k \in Key PROVE WindowInv(k)
  BY DEF WindowsInv
<1>1. /\ requests[k].count = 0 /\ requests[k].reset = 0 /\ now = 0
      /\ served[k] = [t \in 0 .. MaxTime |-> 0] /\ RequestWindow \in Nat /\ RequestLimit \in Nat
  BY WindowsArePositive DEF LimitInit, Empty
<1>2. \A lo, hi : Taken(served[k], lo, hi) = {}
  <2>. SUFFICES ASSUME NEW lo, NEW hi, NEW p \in Taken(served[k], lo, hi) PROVE FALSE
    OBVIOUS
  <2>1. p[1] \in 0 .. MaxTime /\ p[2] \in 1 .. MaxRequests /\ p[2] <= served[k][p[1]]
    BY DEF Taken
  <2>. QED
    BY <1>1, <2>1
<1>3. \A lo, hi : Through(served[k], lo, hi) = 0
  BY <1>2, FS_EmptySet DEF Through
<1>4. StretchInv(served[k])
  <2>1. 0 <= 2 * RequestLimit
    BY <1>1
  <2>. QED
    BY <1>3, <2>1 DEF StretchInv
<1>5. LatestInv(served[k], 0, 0, 0)
  <2>1. 0 - RequestWindow <= 0 /\ 0 <= RequestLimit /\ 0 <= 0 /\ ~(0 > 0)
    BY <1>1
  <2>. QED
    BY <1>3, <2>1 DEF LatestInv
<1>. QED
  BY <1>1, <1>4, <1>5 DEF WindowInv

\* For any limit and window, whatever fails and whenever the windows open: a window
\* lets no more than the limit through, and a stretch as long at most twice that.
THEOREM AtMostTwiceTheLimit == EdgeSpec => []TwiceTheLimit
<1>1. EdgeInit => WindowsInv
  BY WindowsInit DEF EdgeInit
<1>2. ConnInv /\ LimitShape /\ WindowsInv /\ [EdgeNext]_edgevars => WindowsInv'
  BY EdgeStep, WindowsNext
<1>. QED
  BY <1>1, <1>2, WindowsTwice, EdgeShape, PTL DEF EdgeSpec
=============================================================================
