------------------------- MODULE ResampledStreamProofs -------------------------
(***************************************************************************)
(* The resampler fills every request from a gapless stream, whatever the   *)
(* ratio of the sample rates and the sizes of the requests.                *)
(***************************************************************************)
EXTENDS ResampledStream, TLAPS

\* A product is divisible by its factor.
LEMMA ExactQuotient ==
  ASSUME NEW a \in Nat, NEW d \in Nat \ {0}
  PROVE  (a * d) \div d = a
OBVIOUS

\* A quotient rounded up covers the dividend, by less than the divisor.
LEMMA RoundedUp ==
  ASSUME NEW a \in Nat, NEW d \in Nat \ {0}
  PROVE  /\ (a + d - 1) \div d \in Nat
         /\ ((a + d - 1) \div d) * d >= a
         /\ ((a + d - 1) \div d) * d <= a + d - 1
<1>1. a + d - 1 \in Nat
  OBVIOUS
<1>2. \A x \in Nat : x = (x \div d) * d + (x % d) /\ x \div d \in Nat /\ x % d \in 0 .. d - 1
  OBVIOUS
<1> DEFINE x == a + d - 1
<1>3. x = (x \div d) * d + (x % d) /\ x \div d \in Nat /\ x % d \in 0 .. d - 1
  BY <1>1, <1>2
<1> QED BY <1>3

\* How many new samples a request brings for n - l that are missing: enough,
\* and less than an internal sample's worth too many.
LEMMA NewSamples ==
  ASSUME NEW l \in Nat, NEW n \in Nat
  PROVE  LET used     == NumLeftoverUsed(l, n)
             external == NumResampled(InternalSamplesToGenerate(l, n))
         IN  /\ external \in Nat
             /\ n <= l => used = n /\ external = 0
             /\ n > l  => used = l /\ n - l <= external /\ external <= n - l + Up - 1
<1>1. CASE n <= l
  <2>1. InternalSamplesToGenerate(l, n) = 0
    BY <1>1 DEF InternalSamplesToGenerate
  <2>2. NumResampled(0) = 0
    <3>1. 0 * Up = 0 * Down
      BY RatioAssumption
    <3> QED BY <3>1, ExactQuotient, RatioAssumption DEF NumResampled
  <2>3. NumLeftoverUsed(l, n) = n
    BY <1>1 DEF NumLeftoverUsed
  <2> QED BY <1>1, <2>1, <2>2, <2>3
<1>2. CASE n > l
  <2> DEFINE m == n - l
  <2>1. m \in Nat
    BY <1>2
  <2>2. NumLeftoverUsed(l, n) = l
    BY <1>2 DEF NumLeftoverUsed
  <2>3. InternalSamplesToGenerate(l, n) = (m * Down + Up - 1) \div Up
    BY <1>2 DEF InternalSamplesToGenerate
  <2> HIDE DEF m
  <2>4. CASE Down = 1
    <3> DEFINE q == (m + Up - 1) \div Up
    <3>1. InternalSamplesToGenerate(l, n) = q
      BY <2>1, <2>3, <2>4
    <3>2. q \in Nat /\ q * Up >= m /\ q * Up <= m + Up - 1
      BY <2>1, RoundedUp, RatioAssumption
    <3> HIDE DEF q
    <3>3. NumResampled(q) = q * Up
      BY <2>4, <3>2, RatioAssumption DEF NumResampled
    <3>4. q * Up \in Nat
      BY <3>2, RatioAssumption
    <3> QED BY <1>2, <2>2, <3>1, <3>2, <3>3, <3>4 DEF m
  <2>5. CASE Up = 1
    <3>1. m * Down \in Nat
      BY <2>1, RatioAssumption
    <3>2. InternalSamplesToGenerate(l, n) = m * Down
      BY <2>3, <2>5, <3>1
    <3>3. NumResampled(m * Down) = m
      BY <2>1, <2>5, <3>1, ExactQuotient, RatioAssumption DEF NumResampled
    <3> QED BY <1>2, <2>1, <2>2, <2>5, <3>2, <3>3 DEF m
  <2> QED BY <2>4, <2>5, RatioAssumption
<1> QED BY <1>1, <1>2

-----------------------------------------------------------------------------
(***************************************************************************)
(* Pieces of the stream.  The names below stand for sums, remainders and   *)
(* operators on sequences in the statements of the lemmas: a lemma that    *)
(* only has names and variables in its conclusion is easy to instantiate.  *)
(***************************************************************************)

\* j is a further than i.
After(j, i, a) == j = i + a

\* j is the index, as the model counts them, that is a further than i.
Reaches(j, i, a) == j = (i + a) % Period

Within(m, n) == m <= n

FirstOf(s, m) == SubSeq(s, 1, m)

RestOf(s, m) == SubSeq(s, m + 1, Len(s))

Join(s, t) == s \o t

\* The remainder of a multiple and a rest.
LEMMA RestOfPeriod ==
  ASSUME NEW q \in Nat, NEW r \in 0 .. Period - 1
  PROVE  (q * Period + r) % Period = r
BY StreamAssumption

\* Reducing an index before something is added to it changes nothing.
LEMMA IndexShift ==
  ASSUME NEW a \in Nat, NEW b \in Nat
  PROVE  /\ a % Period \in Nat
         /\ ((a % Period) + b) % Period = (a + b) % Period
<1>1. \A x \in Nat : /\ x = (x \div Period) * Period + (x % Period)
                     /\ x \div Period \in Nat
                     /\ x % Period \in 0 .. Period - 1
  BY StreamAssumption
<1> DEFINE c == (a % Period) + b
           q == a \div Period
           p == c \div Period
           r == c % Period
<1>2. a = q * Period + (a % Period) /\ q \in Nat /\ a % Period \in Nat
  BY <1>1
<1>3. c = p * Period + r /\ p \in Nat /\ r \in 0 .. Period - 1
  BY <1>1, <1>2
<1>4. a + b = q * Period + c
  BY <1>2, StreamAssumption
<1> HIDE DEF c, q, p, r
<1>5. a + b = (q + p) * Period + r
  BY <1>2, <1>3, <1>4, StreamAssumption
<1>6. (a + b) % Period = r
  BY <1>2, <1>3, <1>5, RestOfPeriod, q + p \in Nat
<1> QED BY <1>2, <1>6 DEF r, c

\* A piece of the stream is a sequence of indices.
LEMMA PieceType ==
  ASSUME NEW i \in Nat, NEW n \in Nat
  PROVE  /\ StreamFrom(i, n) \in Seq(Nat)
         /\ Len(StreamFrom(i, n)) = n
         /\ \A k \in 1 .. n : StreamFrom(i, n)[k] = (i + k - 1) % Period
<1>1. \A k \in 1 .. n : (i + k - 1) % Period \in Nat
  BY StreamAssumption
<1> QED BY <1>1 DEF StreamFrom

\* Pieces from indices that are the same modulo Period are the same.
LEMMA SamePiece ==
  ASSUME NEW j \in Nat, NEW i \in Nat, NEW n \in Nat, j % Period = i % Period
  PROVE  StreamFrom(j, n) = StreamFrom(i, n)
<1> SUFFICES ASSUME NEW k \in 1 .. n
             PROVE  (j + k - 1) % Period = (i + k - 1) % Period
  BY DEF StreamFrom
<1>1. PICK c \in Nat : c = k - 1
  BY k - 1 \in Nat
<1>2. ((j % Period) + c) % Period = (j + c) % Period
  BY <1>1, IndexShift
<1>3. ((i % Period) + c) % Period = (i + c) % Period
  BY <1>1, IndexShift
<1>4. j + k - 1 = j + c /\ i + k - 1 = i + c
  BY <1>1
<1> QED BY <1>2, <1>3, <1>4

\* Sequences of the same length and with the same elements are the same.
LEMMA SameElements ==
  ASSUME NEW s \in Seq(Nat), NEW t \in Seq(Nat),
         Len(s) = Len(t), \A k \in 1 .. Len(s) : s[k] = t[k]
  PROVE  s = t
OBVIOUS

\* A sequence that agrees with s and then with t is their concatenation.
LEMMA Concatenation ==
  ASSUME NEW s \in Seq(Nat), NEW t \in Seq(Nat), NEW u \in Seq(Nat),
         Len(u) = Len(s) + Len(t),
         \A k \in 1 .. Len(s) : u[k] = s[k],
         \A k \in 1 .. Len(t) : u[Len(s) + k] = t[k]
  PROVE  s \o t = u
<1>1. s \o t \in Seq(Nat) /\ Len(s \o t) = Len(u)
  OBVIOUS
<1>2. ASSUME NEW k \in 1 .. Len(s \o t)
      PROVE  (s \o t)[k] = u[k]
  <2>1. CASE k <= Len(s)
    BY <2>1
  <2>2. CASE k > Len(s)
    <3>1. k - Len(s) \in 1 .. Len(t) /\ Len(s) + (k - Len(s)) = k
      BY <2>2
    <3>2. (s \o t)[k] = t[k - Len(s)]
      BY <2>2
    <3> QED BY <3>1, <3>2
  <2> QED BY <2>1, <2>2
<1> QED BY <1>1, <1>2, SameElements

\* A sequence that agrees with a part of s is that part.
LEMMA Part ==
  ASSUME NEW s \in Seq(Nat), NEW t \in Seq(Nat),
         NEW a \in 0 .. Len(s), NEW b \in a .. Len(s),
         Len(t) = b - a,
         \A k \in 1 .. b - a : t[k] = s[a + k]
  PROVE  SubSeq(s, a + 1, b) = t
<1>1. SubSeq(s, a + 1, b) \in Seq(Nat) /\ Len(SubSeq(s, a + 1, b)) = b - a
  OBVIOUS
<1>2. \A k \in 1 .. b - a : SubSeq(s, a + 1, b)[k] = s[a + k]
  OBVIOUS
<1> QED BY <1>1, <1>2

\* Two pieces, the second of which begins where the first ends, are one.
LEMMA PieceConcat ==
  ASSUME NEW i \in Nat, NEW a \in Nat, NEW b \in Nat, NEW j \in Nat, NEW c \in Nat,
         After(j, i, a), After(c, a, b)
  PROVE  Join(StreamFrom(i, a), StreamFrom(j, b)) = StreamFrom(i, c)
<1>0. j = i + a /\ c = a + b
  BY DEF After
<1>1. /\ StreamFrom(i, a) \in Seq(Nat) /\ Len(StreamFrom(i, a)) = a
      /\ \A k \in 1 .. a : StreamFrom(i, a)[k] = (i + k - 1) % Period
  BY PieceType
<1>2. /\ StreamFrom(j, b) \in Seq(Nat) /\ Len(StreamFrom(j, b)) = b
      /\ \A k \in 1 .. b : StreamFrom(j, b)[k] = (j + k - 1) % Period
  BY PieceType
<1>3. /\ StreamFrom(i, c) \in Seq(Nat) /\ Len(StreamFrom(i, c)) = c
      /\ \A k \in 1 .. c : StreamFrom(i, c)[k] = (i + k - 1) % Period
  BY PieceType
<1>4. \A k \in 1 .. b : a + k \in 1 .. c /\ i + (a + k) - 1 = j + k - 1
  BY <1>0
<1>5. \A k \in 1 .. a : StreamFrom(i, c)[k] = StreamFrom(i, a)[k]
  BY <1>0, <1>1, <1>3
<1>6. \A k \in 1 .. b : StreamFrom(i, c)[a + k] = StreamFrom(j, b)[k]
  BY <1>2, <1>3, <1>4
<1>7. /\ Len(StreamFrom(i, c)) = Len(StreamFrom(i, a)) + Len(StreamFrom(j, b))
      /\ \A k \in 1 .. Len(StreamFrom(i, a)) :
           StreamFrom(i, c)[k] = StreamFrom(i, a)[k]
      /\ \A k \in 1 .. Len(StreamFrom(j, b)) :
           StreamFrom(i, c)[Len(StreamFrom(i, a)) + k] = StreamFrom(j, b)[k]
  BY <1>0, <1>1, <1>2, <1>3, <1>5, <1>6
<1> QED BY <1>1, <1>2, <1>3, <1>7, Concatenation, Zenon DEF Join

\* The first m samples of a piece are a piece.
LEMMA FirstOfPiece ==
  ASSUME NEW i \in Nat, NEW n \in Nat, NEW m \in Nat, Within(m, n)
  PROVE  FirstOf(StreamFrom(i, n), m) = StreamFrom(i, m)
<1>1. /\ StreamFrom(i, n) \in Seq(Nat) /\ Len(StreamFrom(i, n)) = n
      /\ \A k \in 1 .. n : StreamFrom(i, n)[k] = (i + k - 1) % Period
  BY PieceType
<1>2. /\ StreamFrom(i, m) \in Seq(Nat) /\ Len(StreamFrom(i, m)) = m
      /\ \A k \in 1 .. m : StreamFrom(i, m)[k] = (i + k - 1) % Period
  BY PieceType
<1>3. \A k \in 1 .. m : k \in 1 .. n /\ 0 + k = k
  BY DEF Within
<1>4. 0 \in 0 .. n /\ m \in 0 .. n /\ m = m - 0 /\ 0 + 1 = 1
  BY DEF Within
<1>5. \A k \in 1 .. m - 0 : StreamFrom(i, m)[k] = StreamFrom(i, n)[0 + k]
  BY <1>1, <1>2, <1>3, <1>4
<1>6. SubSeq(StreamFrom(i, n), 0 + 1, m) = StreamFrom(i, m)
  BY <1>1, <1>2, <1>4, <1>5, Part
<1> QED BY <1>4, <1>6 DEF FirstOf

\* What follows them is one, too.
LEMMA RestOfPiece ==
  ASSUME NEW i \in Nat, NEW m \in Nat, NEW r \in Nat, NEW n \in Nat, NEW j \in Nat,
         After(n, m, r), After(j, i, m)
  PROVE  RestOf(StreamFrom(i, n), m) = StreamFrom(j, r)
<1>1. j = i + m /\ n = m + r
  BY DEF After
<1>2. /\ StreamFrom(i, n) \in Seq(Nat) /\ Len(StreamFrom(i, n)) = n
      /\ \A k \in 1 .. n : StreamFrom(i, n)[k] = (i + k - 1) % Period
  BY PieceType
<1>3. /\ StreamFrom(j, r) \in Seq(Nat) /\ Len(StreamFrom(j, r)) = r
      /\ \A k \in 1 .. r : StreamFrom(j, r)[k] = (j + k - 1) % Period
  BY PieceType
<1>4. \A k \in 1 .. r : m + k \in 1 .. n /\ i + (m + k) - 1 = j + k - 1
  BY <1>1
<1>5. \A k \in 1 .. r : StreamFrom(j, r)[k] = StreamFrom(i, n)[m + k]
  BY <1>2, <1>3, <1>4
<1>6. m \in 0 .. n /\ n \in m .. n /\ r = n - m
  BY <1>1
<1>7. SubSeq(StreamFrom(i, n), m + 1, n) = StreamFrom(j, r)
  BY <1>2, <1>3, <1>5, <1>6, Part
<1> QED BY <1>2, <1>7 DEF RestOf

\* Pieces of no length are the same, wherever they are.
LEMMA EmptyPiece ==
  ASSUME NEW i \in Nat, NEW j \in Nat
  PROVE  StreamFrom(i, 0) = StreamFrom(j, 0)
<1>1. /\ StreamFrom(i, 0) \in Seq(Nat) /\ Len(StreamFrom(i, 0)) = 0
      /\ StreamFrom(j, 0) \in Seq(Nat) /\ Len(StreamFrom(j, 0)) = 0
  BY PieceType
<1> QED BY <1>1, SameElements

-----------------------------------------------------------------------------
(***************************************************************************)
(* A call whose generator delivers: l samples are left over from index d   *)
(* on, n are requested, and rest will be left over from index f on.        *)
(***************************************************************************)

\* Everything that is left over, and m new samples.
LEMMA ReplyOfNew ==
  ASSUME NEW d \in Nat, NEW l \in Nat, NEW m \in Nat, NEW n \in Nat, After(n, l, m),
         NEW external \in Nat, Within(m, external), NEW p \in Nat, Reaches(p, d, l)
  PROVE  Join(FirstOf(StreamFrom(d, l), l), FirstOf(StreamFrom(p, external), m))
           = StreamFrom(d, n)
<1>1. PICK q \in Nat : After(q, d, l)
  BY d + l \in Nat DEF After
<1>2. StreamFrom(p, m) = StreamFrom(q, m)
  <2>1. /\ p = q % Period
        /\ ((q % Period) + 0) % Period = (q + 0) % Period
    BY <1>1, IndexShift, 0 \in Nat DEF After, Reaches
  <2>2. p + 0 = p /\ q + 0 = q
    BY <1>1
  <2>3. p % Period = q % Period
    BY <2>1, <2>2
  <2> QED BY <1>1, <2>3, SamePiece
<1>3. Within(l, l)
  BY DEF Within
<1>4. FirstOf(StreamFrom(d, l), l) = StreamFrom(d, l)
  BY <1>3, FirstOfPiece
<1>5. FirstOf(StreamFrom(p, external), m) = StreamFrom(p, m)
  BY FirstOfPiece
<1>6. Join(StreamFrom(d, l), StreamFrom(q, m)) = StreamFrom(d, n)
  BY <1>1, PieceConcat
<1> QED BY <1>2, <1>4, <1>5, <1>6

\* The rest of new samples, from the index e on.
LEMMA RestOfNew ==
  ASSUME NEW p \in Nat, NEW m \in Nat, NEW rest \in Nat,
         NEW external \in Nat, After(external, m, rest),
         NEW e \in Nat, Reaches(e, p, m)
  PROVE  RestOf(StreamFrom(p, external), m) = StreamFrom(e, rest)
<1>1. PICK g \in Nat : After(g, p, m)
  BY p + m \in Nat DEF After
<1>2. RestOf(StreamFrom(p, external), m) = StreamFrom(g, rest)
  BY <1>1, RestOfPiece
<1>3. e % Period = g % Period
  <2>1. /\ e = g % Period
        /\ ((g % Period) + 0) % Period = (g + 0) % Period
    BY <1>1, IndexShift, 0 \in Nat DEF After, Reaches
  <2>2. e + 0 = e /\ g + 0 = g
    BY <1>1
  <2> QED BY <2>1, <2>2
<1> QED BY <1>1, <1>2, <1>3, SamePiece

\* Nothing follows the last of l samples.
LEMMA NoRest ==
  ASSUME NEW d \in Nat, NEW l \in Nat, NEW e \in Nat
  PROVE  RestOf(StreamFrom(d, l), l) = StreamFrom(e, 0)
<1>1. PICK q \in Nat : After(q, d, l)
  BY d + l \in Nat DEF After
<1>2. 0 \in Nat /\ After(l, l, 0)
  BY DEF After
<1>3. RestOf(StreamFrom(d, l), l) = StreamFrom(q, 0)
  BY <1>1, <1>2, RestOfPiece
<1> QED BY <1>1, <1>3, EmptyPiece

\* A call that uses everything that is left over: reply and rest.
LEMMA FilledByNew ==
  ASSUME NEW d \in Nat, NEW l \in Nat, NEW m \in Nat, NEW n \in Nat, After(n, l, m),
         NEW rest \in Nat, NEW external \in Nat, After(external, m, rest),
         NEW p \in Nat, Reaches(p, d, l), NEW e \in Nat, Reaches(e, d, n)
  PROVE  /\ Join(FirstOf(StreamFrom(d, l), l), FirstOf(StreamFrom(p, external), m))
              = StreamFrom(d, n)
         /\ Join(RestOf(StreamFrom(d, l), l), RestOf(StreamFrom(p, external), m))
              = StreamFrom(e, rest)
<1>1. /\ 0 \in Nat /\ Within(m, external)
      /\ After(e, e, 0) /\ After(rest, 0, rest)
  BY DEF After, Within
<1>2. Reaches(e, p, m)
  <2>1. (((d + l) % Period) + m) % Period = ((d + l) + m) % Period
    BY IndexShift, d + l \in Nat
  <2>2. (d + l) + m = d + n
    BY DEF After
  <2> QED BY <2>1, <2>2 DEF Reaches
<1>3. RestOf(StreamFrom(d, l), l) = StreamFrom(e, 0)
  BY NoRest
<1>4. RestOf(StreamFrom(p, external), m) = StreamFrom(e, rest)
  BY <1>2, RestOfNew
<1>5. Join(StreamFrom(e, 0), StreamFrom(e, rest)) = StreamFrom(e, rest)
  BY <1>1, PieceConcat
<1>6. Join(FirstOf(StreamFrom(d, l), l), FirstOf(StreamFrom(p, external), m))
        = StreamFrom(d, n)
  BY <1>1, ReplyOfNew
<1> QED BY <1>3, <1>4, <1>5, <1>6

\* A call that the leftover samples fill: reply and rest.
LEMMA FilledByLeftover ==
  ASSUME NEW d \in Nat, NEW n \in Nat, NEW rest \in Nat, NEW p \in Nat,
         NEW l \in Nat, After(l, n, rest), NEW e \in Nat, Reaches(e, d, n)
  PROVE  /\ Join(FirstOf(StreamFrom(d, l), n), FirstOf(StreamFrom(p, 0), 0))
              = StreamFrom(d, n)
         /\ Join(RestOf(StreamFrom(d, l), n), RestOf(StreamFrom(p, 0), 0))
              = StreamFrom(e, rest)
<1>1. PICK f \in Nat : After(f, d, n)
  BY d + n \in Nat DEF After
<1>2. PICK g \in Nat : After(g, e, rest)
  BY e + rest \in Nat DEF After
<1>3. /\ 0 \in Nat /\ Within(0, 0) /\ Within(n, l)
      /\ After(n, n, 0) /\ After(rest, rest, 0)
  BY DEF After, Within
<1>4. FirstOf(StreamFrom(d, l), n) = StreamFrom(d, n)
  BY <1>3, FirstOfPiece
<1>5. FirstOf(StreamFrom(p, 0), 0) = StreamFrom(p, 0)
  BY <1>3, FirstOfPiece
<1>6. RestOf(StreamFrom(p, 0), 0) = StreamFrom(g, 0)
  BY <1>2, <1>3, NoRest
<1>7. RestOf(StreamFrom(d, l), n) = StreamFrom(e, rest)
  BY RestOfNew
<1>8. StreamFrom(p, 0) = StreamFrom(f, 0)
  BY <1>1, EmptyPiece
<1>9. Join(StreamFrom(d, n), StreamFrom(f, 0)) = StreamFrom(d, n)
  BY <1>1, <1>3, PieceConcat
<1>10. Join(StreamFrom(e, rest), StreamFrom(g, 0)) = StreamFrom(e, rest)
  BY <1>2, <1>3, PieceConcat
<1> QED BY <1>4, <1>5, <1>6, <1>7, <1>8, <1>9, <1>10

-----------------------------------------------------------------------------
(***************************************************************************)
(* The inductive invariant: the buffer is a short piece of the stream, the *)
(* one that the client is due and that ends where the resampler goes on.   *)
(***************************************************************************)

StreamInvariant ==
  /\ leftover_samples \in Seq(Nat)
  /\ due \in Nat
  /\ LeftoverFits
  /\ LeftoverIsDue

\* Init makes the invariant true.
LEMMA InvariantInitially == Init => StreamInvariant
<1> SUFFICES ASSUME Init PROVE StreamInvariant
  OBVIOUS
<1>1. /\ StreamFrom(0, 0) \in Seq(Nat) /\ Len(StreamFrom(0, 0)) = 0
  BY PieceType, 0 \in Nat, Zenon
<1>2. leftover_samples \in Seq(Nat) /\ Len(leftover_samples) = 0
  BY DEF Init
<1>3. leftover_samples = StreamFrom(due, Len(leftover_samples))
  BY <1>1, <1>2, SameElements DEF Init
<1>4. produced = (due + Len(leftover_samples)) % Period
  BY <1>2, StreamAssumption DEF Init
<1> QED BY <1>2, <1>3, <1>4, RatioAssumption DEF Init, StreamInvariant, LeftoverFits, LeftoverIsDue

\* A call that succeeds keeps the invariant, and what it returns is what the
\* client was due.
LEMMA FilterAndBufferKeeps ==
  ASSUME StreamInvariant, NEW n \in Requests, FilterAndBuffer(n)
  PROVE  StreamInvariant' /\ reply' = StreamFrom(due, Len(reply'))
<1>1. PICK l \in Nat : l = Len(leftover_samples) /\ l <= Up - 1
  BY DEF StreamInvariant, LeftoverFits
<1>2. PICK d \in Nat : d = due
  BY DEF StreamInvariant
<1>3. n \in Nat
  BY StreamAssumption
<1>4. PICK used \in Nat : used = NumLeftoverUsed(l, n) /\ used <= n
  <2>1. NumLeftoverUsed(l, n) \in Nat /\ NumLeftoverUsed(l, n) <= n
    BY <1>1, <1>3 DEF NumLeftoverUsed
  <2> QED BY <2>1
<1>5. PICK external \in Nat :
        /\ external = NumResampled(InternalSamplesToGenerate(l, n))
        /\ n <= l => used = n /\ external = 0
        /\ n > l => used = l /\ n - l <= external /\ external <= n - l + Up - 1
  BY <1>1, <1>3, <1>4, NewSamples
<1>6. PICK missing \in Nat : missing = n - used
  BY <1>3, <1>4, n - used \in Nat
<1>7. l + external - n \in 0 .. Up - 1
  BY <1>1, <1>3, <1>5, RatioAssumption
<1>8. PICK rest \in Nat : rest = l + external - n /\ rest <= Up - 1
  BY <1>7, RatioAssumption
<1>9. (d + l) % Period \in Nat /\ (d + n) % Period \in Nat
  BY <1>1, <1>2, <1>3, IndexShift, d + l \in Nat, d + n \in Nat
<1>10. PICK p \in Nat : p = (d + l) % Period
  BY <1>9
<1>11. PICK e \in Nat : e = (d + n) % Period
  BY <1>9
<1>12. Reaches(p, d, l) /\ Reaches(e, d, n)
  BY <1>10, <1>11 DEF Reaches
<1>13. /\ d \in Nat /\ l \in Nat /\ n \in Nat /\ rest \in Nat /\ used \in Nat
       /\ missing \in Nat /\ external \in Nat /\ p \in Nat /\ e \in Nat
  BY <1>1, <1>2, <1>3, <1>4, <1>5, <1>6, <1>8, <1>10, <1>11
<1>14. (p + external) % Period = (e + rest) % Period
  <2>1. (((d + l) % Period) + external) % Period = ((d + l) + external) % Period
    BY <1>13, IndexShift, d + l \in Nat
  <2>2. (((d + n) % Period) + rest) % Period = ((d + n) + rest) % Period
    BY <1>13, IndexShift, d + n \in Nat
  <2>3. (d + l) + external = (d + n) + rest
    BY <1>8, <1>13
  <2> QED BY <1>10, <1>11, <2>1, <2>2, <2>3
<1>15. \/ After(l, n, rest) /\ used = n /\ missing = 0 /\ external = 0
       \/ used = l /\ After(n, l, missing) /\ After(external, missing, rest)
  BY <1>1, <1>3, <1>5, <1>6, <1>8, SMTT(30) DEF After
<1>16. /\ Join(FirstOf(StreamFrom(d, l), used), FirstOf(StreamFrom(p, external), missing))
            = StreamFrom(d, n)
       /\ Join(RestOf(StreamFrom(d, l), used), RestOf(StreamFrom(p, external), missing))
            = StreamFrom(e, rest)
  <2>1. CASE After(l, n, rest) /\ used = n /\ missing = 0 /\ external = 0
    <3>1. /\ Join(FirstOf(StreamFrom(d, l), n), FirstOf(StreamFrom(p, 0), 0))
               = StreamFrom(d, n)
          /\ Join(RestOf(StreamFrom(d, l), n), RestOf(StreamFrom(p, 0), 0))
               = StreamFrom(e, rest)
      BY <1>12, <1>13, <2>1, FilledByLeftover
    <3> QED BY <2>1, <3>1
  <2>2. CASE used = l /\ After(n, l, missing) /\ After(external, missing, rest)
    <3>1. /\ Join(FirstOf(StreamFrom(d, l), l), FirstOf(StreamFrom(p, external), missing))
               = StreamFrom(d, n)
          /\ Join(RestOf(StreamFrom(d, l), l), RestOf(StreamFrom(p, external), missing))
               = StreamFrom(e, rest)
      BY <1>12, <1>13, <2>2, FilledByNew
    <3> QED BY <2>2, <3>1
  <2> QED BY <1>15, <2>1, <2>2
<1>17. leftover_samples = StreamFrom(d, l) /\ produced = p
  BY <1>1, <1>2, <1>10 DEF StreamInvariant, LeftoverIsDue
<1>18. Len(StreamFrom(p, external)) = external
  BY <1>5, <1>10, PieceType
<1>19. /\ reply' = Join(FirstOf(StreamFrom(d, l), used),
                        FirstOf(StreamFrom(p, external), missing))
       /\ leftover_samples' = Join(RestOf(StreamFrom(d, l), used),
                                   RestOf(StreamFrom(p, external), missing))
       /\ produced' = (p + external) % Period
       /\ due' = e
  BY <1>1, <1>2, <1>4, <1>5, <1>6, <1>11, <1>17, <1>18
     DEF FilterAndBuffer, Needed, Used, LeftoverUsed, LeftoverKept, Join, FirstOf, RestOf
<1>20. /\ leftover_samples' = StreamFrom(e, rest) /\ reply' = StreamFrom(d, n)
       /\ produced' = (e + rest) % Period
  BY <1>14, <1>16, <1>19
<1>21. /\ StreamFrom(e, rest) \in Seq(Nat) /\ Len(StreamFrom(e, rest)) = rest
       /\ Len(StreamFrom(d, n)) = n
  BY <1>2, <1>3, <1>8, <1>11, PieceType
<1>22. /\ leftover_samples' \in Seq(Nat) /\ Len(leftover_samples') = rest
       /\ Len(reply') = n
  BY <1>20, <1>21
<1>23. LeftoverFits'
  BY <1>8, <1>22 DEF LeftoverFits
<1>24. LeftoverIsDue'
  BY <1>19, <1>20, <1>22 DEF LeftoverIsDue
<1> QED BY <1>2, <1>11, <1>19, <1>20, <1>22, <1>23, <1>24 DEF StreamInvariant

\* A call that fails keeps the invariant: what it had taken is due no more.
LEMMA FilterAndBufferFailsKeeps ==
  ASSUME StreamInvariant, NEW n \in Requests, FilterAndBufferFails(n)
  PROVE  StreamInvariant' /\ reply' = Nullopt
<1>1. PICK l \in Nat : l = Len(leftover_samples) /\ l <= Up - 1
  BY DEF StreamInvariant, LeftoverFits
<1>2. PICK d \in Nat : d = due
  BY DEF StreamInvariant
<1>3. n \in Nat
  BY StreamAssumption
<1>4. PICK used \in Nat : used = NumLeftoverUsed(l, n) /\ used <= l
  <2>1. NumLeftoverUsed(l, n) \in Nat /\ NumLeftoverUsed(l, n) <= l
    BY <1>1, <1>3 DEF NumLeftoverUsed
  <2> QED BY <2>1
<1>5. PICK rest \in Nat : rest = l - used
  BY <1>1, <1>4, l - used \in Nat
<1>6. (d + used) % Period \in Nat
  <2>1. d + used \in Nat
    BY <1>2, <1>4
  <2> QED BY <2>1, IndexShift
<1>7. PICK e \in Nat : e = (d + used) % Period
  BY <1>6
<1>8. After(l, used, rest) /\ Reaches(e, d, used)
  BY <1>1, <1>4, <1>5, <1>7 DEF After, Reaches
<1>9. d \in Nat /\ l \in Nat /\ used \in Nat /\ rest \in Nat /\ e \in Nat
  BY <1>1, <1>2, <1>4, <1>5, <1>7
<1>10. RestOf(StreamFrom(d, l), used) = StreamFrom(e, rest)
  BY <1>8, <1>9, RestOfNew
<1>11. leftover_samples = StreamFrom(d, l) /\ produced = (d + l) % Period
  BY <1>1, <1>2 DEF StreamInvariant, LeftoverIsDue
<1>12. /\ leftover_samples' = RestOf(StreamFrom(d, l), used)
       /\ produced' = (d + l) % Period
       /\ due' = e
       /\ reply' = Nullopt
  BY <1>1, <1>2, <1>4, <1>7, <1>11
     DEF FilterAndBufferFails, Used, LeftoverKept, RestOf
<1>13. (d + l) % Period = (e + rest) % Period
  <2>1. (((d + used) % Period) + rest) % Period = ((d + used) + rest) % Period
    BY <1>9, IndexShift, d + used \in Nat
  <2>2. (d + used) + rest = d + l
    BY <1>5, <1>9
  <2> QED BY <1>7, <2>1, <2>2
<1>14. leftover_samples' = StreamFrom(e, rest) /\ produced' = (e + rest) % Period
  BY <1>10, <1>12, <1>13
<1>15. StreamFrom(e, rest) \in Seq(Nat) /\ Len(StreamFrom(e, rest)) = rest
  BY <1>9, PieceType
<1>16. leftover_samples' \in Seq(Nat) /\ Len(leftover_samples') = rest
  BY <1>14, <1>15
<1>17. rest <= Up - 1
  BY <1>1, <1>4, <1>5, RatioAssumption
<1>18. LeftoverFits'
  BY <1>16, <1>17 DEF LeftoverFits
<1>19. LeftoverIsDue'
  BY <1>12, <1>14, <1>16 DEF LeftoverIsDue
<1> QED BY <1>9, <1>12, <1>16, <1>18, <1>19 DEF StreamInvariant

\* The invariant is inductive.
LEMMA InvariantKept == StreamInvariant /\ [Next]_vars => StreamInvariant'
<1> SUFFICES ASSUME StreamInvariant, [Next]_vars PROVE StreamInvariant'
  OBVIOUS
<1>1. ASSUME NEW n \in Requests, FilterAndBuffer(n) PROVE StreamInvariant'
  BY <1>1, FilterAndBufferKeeps
<1>2. ASSUME NEW n \in Requests, FilterAndBufferFails(n) PROVE StreamInvariant'
  BY <1>2, FilterAndBufferFailsKeeps
<1>3. CASE UNCHANGED vars
  BY <1>3 DEF vars, StreamInvariant, LeftoverFits, LeftoverIsDue
<1> QED BY <1>1, <1>2, <1>3 DEF Next

-----------------------------------------------------------------------------
(***************************************************************************)
(* Theorems.                                                               *)
(***************************************************************************)

\* The buffer is always the piece of the stream that the client is due.
THEOREM InvariantHolds == Spec => []StreamInvariant
<1>1. Init => StreamInvariant
  BY InvariantInitially
<1>2. StreamInvariant /\ [Next]_vars => StreamInvariant'
  BY InvariantKept
<1> QED BY <1>1, <1>2, PTL DEF Spec

\* leftover_samples_ holds less than one internal sample's worth, for every ratio
\* of the rates and every sequence of requests.
THEOREM BufferFits == Spec => []LeftoverFits
<1>1. StreamInvariant => LeftoverFits
  BY DEF StreamInvariant
<1> QED BY <1>1, InvariantHolds, PTL

\* Nothing between the buffer and the resampler is lost or repeated.
THEOREM BufferIsDue == Spec => []LeftoverIsDue
<1>1. StreamInvariant => LeftoverIsDue
  BY DEF StreamInvariant
<1> QED BY <1>1, InvariantHolds, PTL

\* The CHECK_GE in CopyNewSamples never fails, for every ratio of the rates.
THEOREM RequestsFilled == Spec => []RequestsAreFilled
<1>1. StreamInvariant => RequestsAreFilled
  <2> SUFFICES ASSUME StreamInvariant, NEW n \in Requests
               PROVE  n - Used(n) <= NumResampled(Needed(n))
    BY DEF RequestsAreFilled
  <2>1. PICK l \in Nat : l = Len(leftover_samples)
    BY DEF StreamInvariant
  <2>2. n \in Nat
    BY StreamAssumption
  <2>3. PICK external \in Nat :
          /\ external = NumResampled(InternalSamplesToGenerate(l, n))
          /\ n <= l => NumLeftoverUsed(l, n) = n /\ external = 0
          /\ n > l => NumLeftoverUsed(l, n) = l /\ n - l <= external
    BY <2>1, <2>2, NewSamples
  <2>4. n - NumLeftoverUsed(l, n) <= external
    BY <2>1, <2>2, <2>3
  <2> QED BY <2>1, <2>3, <2>4 DEF Used, Needed
<1> QED BY <1>1, InvariantHolds, PTL

\* Replies carry on where the last one ended, whatever fails in between.
THEOREM Continues == Spec => StreamContinues
<1>1. StreamInvariant /\ [Next]_vars
        => [reply' # Nullopt => reply' = StreamFrom(due, Len(reply'))]_vars
  <2> SUFFICES ASSUME StreamInvariant, Next
               PROVE  reply' # Nullopt => reply' = StreamFrom(due, Len(reply'))
    OBVIOUS
  <2>1. ASSUME NEW n \in Requests, FilterAndBuffer(n)
        PROVE  reply' = StreamFrom(due, Len(reply'))
    BY <2>1, FilterAndBufferKeeps
  <2>2. ASSUME NEW n \in Requests, FilterAndBufferFails(n)
        PROVE  reply' = Nullopt
    BY <2>2, FilterAndBufferFailsKeeps
  <2> QED BY <2>1, <2>2 DEF Next
<1> QED BY <1>1, InvariantHolds, PTL DEF Spec, StreamContinues
=============================================================================
