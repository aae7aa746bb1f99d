------------------------- MODULE NoiseEstimatorProofs -------------------------
(***************************************************************************)
(* Proofs about NoiseEstimator, for every hop, window, set of bands and    *)
(* number of updates in a window: every hop is looked at in the last       *)
(* window of audio that was received, and the estimate is the minimum      *)
(* statistic of the updates that its two windows hold.                     *)
(***************************************************************************)
EXTENDS NoiseEstimator, SequenceTheorems, TLAPS

W == NumSamplesPerWindow
H == NumSamplesPerHop

-----------------------------------------------------------------------------
(***************************************************************************)
(* Samples by their age.                                                   *)
(***************************************************************************)

\* The n samples that were received before the last k.
Before(k, n) == [ i \in 1 .. n |-> (n - i) + k ]

\* The samples before the last ones are a sequence.
LEMMA BeforeIs ==
  ASSUME NEW k \in Nat, NEW n \in Nat
  PROVE  /\ Before(k, n) \in Seq(Int) /\ Len(Before(k, n)) = n
         /\ DOMAIN Before(k, n) = 1 .. n
         /\ \A i \in 1 .. n : Before(k, n)[i] = (n - i) + k
<1>1. Before(k, n) \in [ 1 .. n -> Int ]
  BY DEF Before
<1>2. \A i \in 1 .. n : Before(k, n)[i] = (n - i) + k
  BY DEF Before
<1> QED BY <1>1, <1>2

\* Samples get older by those received after them.
LEMMA AgedBefore ==
  ASSUME NEW k \in Nat, NEW n \in Nat, NEW m \in Nat
  PROVE  /\ Aged(Before(k, n), m) = Before(k + m, n)
         /\ Newest(n) = Before(0, n)
<1>1. \A i \in 1 .. n : ((n - i) + k) + m = (n - i) + (k + m) /\ n - i = (n - i) + 0
  OBVIOUS
<1>2. Aged(Before(k, n), m) = Before(k + m, n)
  <2>1. Aged(Before(k, n), m) = [ i \in 1 .. n |-> Before(k, n)[i] + m ]
    BY BeforeIs DEF Aged
  <2>2. \A i \in 1 .. n : Before(k, n)[i] + m = (n - i) + (k + m)
    BY <1>1, BeforeIs
  <2> QED BY <2>1, <2>2 DEF Before
<1>3. Newest(n) = Before(0, n)
  BY <1>1 DEF Newest, Before
<1> QED BY <1>2, <1>3

\* Samples and those received after them are samples in a row.
LEMMA InARow ==
  ASSUME NEW k \in Nat, NEW n \in Nat, NEW m \in Nat
  PROVE  Before(k + m, n) \o Before(k, m) = Before(k, n + m)
<1> DEFINE s == Before(k + m, n)
           t == Before(k, m)
           u == Before(k, n + m)
           v == s \o t
<1>1. /\ s \in Seq(Int) /\ Len(s) = n /\ (\A i \in 1 .. n : s[i] = (n - i) + (k + m))
      /\ t \in Seq(Int) /\ Len(t) = m /\ (\A i \in 1 .. m : t[i] = (m - i) + k)
      /\ u \in Seq(Int) /\ Len(u) = n + m
      /\ (\A i \in 1 .. n + m : u[i] = ((n + m) - i) + k)
  <2>1. k + m \in Nat /\ n + m \in Nat
    OBVIOUS
  <2> HIDE DEF s, t, u
  <2>2. s \in Seq(Int) /\ Len(s) = n /\ (\A i \in 1 .. n : s[i] = (n - i) + (k + m))
    BY <2>1, BeforeIs DEF s
  <2>3. t \in Seq(Int) /\ Len(t) = m /\ (\A i \in 1 .. m : t[i] = (m - i) + k)
    BY BeforeIs DEF t
  <2>4. /\ u \in Seq(Int) /\ Len(u) = n + m
        /\ (\A i \in 1 .. n + m : u[i] = ((n + m) - i) + k)
    BY <2>1, BeforeIs DEF u
  <2> QED BY <2>2, <2>3, <2>4
<1> HIDE DEF s, t, u
<1>2. /\ v \in Seq(Int) /\ Len(v) = n + m
      /\ \A i \in 1 .. n + m : v[i] = IF i <= n THEN s[i] ELSE t[i - n]
  <2>1. /\ s \o t \in Seq(Int) /\ Len(s \o t) = Len(s) + Len(t)
        /\ \A i \in 1 .. Len(s) + Len(t) :
             (s \o t)[i] = IF i <= Len(s) THEN s[i] ELSE t[i - Len(s)]
    BY <1>1, ConcatProperties
  <2> QED BY <1>1, <2>1
<1> HIDE DEF v
<1>3. ASSUME NEW i \in 1 .. n + m
      PROVE  v[i] = u[i]
  <2>1. CASE i <= n
    BY <1>1, <1>2, <2>1
  <2>2. CASE i > n
    <3>1. i - n \in 1 .. m /\ v[i] = t[i - n]
      BY <1>2, <2>2
    <3> QED BY <1>1, <3>1
  <2> QED BY <2>1, <2>2
<1>4. v = u
  <2>1. Len(v) = Len(u)
    BY <1>1, <1>2
  <2>2. \A i \in 1 .. Len(v) : v[i] = u[i]
    BY <1>2, <1>3
  <2> QED BY <1>1, <1>2, <2>1, <2>2, SeqEqual
<1> QED BY <1>4 DEF s, t, u, v

\* The end of samples in a row.
LEMMA LastOfRow ==
  ASSUME NEW k \in Nat, NEW n \in Nat, NEW m \in Nat
  PROVE  SubSeq(Before(k, n + m), n + 1, n + m) = Before(k, m)
<1> DEFINE s == Before(k, n + m)
           t == Before(k, m)
           u == SubSeq(s, n + 1, n + m)
<1>1. /\ s \in Seq(Int) /\ Len(s) = n + m /\ (\A i \in 1 .. n + m : s[i] = ((n + m) - i) + k)
      /\ t \in Seq(Int) /\ Len(t) = m /\ (\A i \in 1 .. m : t[i] = (m - i) + k)
  <2>1. n + m \in Nat
    OBVIOUS
  <2> HIDE DEF s, t
  <2>2. /\ s \in Seq(Int) /\ Len(s) = n + m
        /\ (\A i \in 1 .. n + m : s[i] = ((n + m) - i) + k)
    BY <2>1, BeforeIs DEF s
  <2>3. t \in Seq(Int) /\ Len(t) = m /\ (\A i \in 1 .. m : t[i] = (m - i) + k)
    BY BeforeIs DEF t
  <2> QED BY <2>2, <2>3
<1> HIDE DEF s, t
<1>2. u \in Seq(Int) /\ Len(u) = m /\ \A i \in 1 .. m : u[i] = s[n + i]
  BY <1>1
<1> HIDE DEF u
<1>3. ASSUME NEW i \in 1 .. m
      PROVE  u[i] = t[i]
  <2>1. n + i \in 1 .. n + m
    OBVIOUS
  <2>2. s[n + i] = ((n + m) - (n + i)) + k
    BY <1>1, <2>1
  <2> QED BY <1>1, <1>2, <2>2
<1>4. u = t
  <2>1. Len(u) = Len(t)
    BY <1>1, <1>2
  <2>2. \A i \in 1 .. Len(u) : u[i] = t[i]
    BY <1>2, <1>3
  <2> QED BY <1>1, <1>2, <2>1, <2>2, SeqEqual
<1> QED BY <1>4 DEF s, t, u
-----------------------------------------------------------------------------
(***************************************************************************)
(* The extractor.                                                          *)
(***************************************************************************)

\* An extractor whose last window ended k samples ago, a hop before the next.
Sliding(k) == [input_queue |-> Before(k, W), samples_to_next_step |-> H]

\* One window is complete when as many samples come as were missing, and there
\* is one place for it to end.
LEMMA OneSlice ==
  ASSUME NEW slider, NEW input, NEW n \in Nat, Len(input) = n,
         slider.samples_to_next_step = n
  PROVE  NumSlices(slider, input) = 1
<1>1. H \in Nat \ {0}
  BY WindowAssumption DEF H
<1>2. (n - n) \div H = 0
  BY <1>1
<1> QED BY <1>2 DEF NumSlices, H

\* What follows a window that ends with the input is a hop.
LEMMA AfterOneSlice ==
  ASSUME NEW slider, NEW input, NEW k \in Nat, NEW n \in Nat,
         slider = [input_queue |-> Before(n, k), samples_to_next_step |-> n],
         input = Before(0, n), k + n >= W
  PROVE  /\ NumSlices(slider, input) = 1
         /\ ComputeSpectrogram(slider, input)[1] = Before(0, W)
         /\ AfterSpectrogram(slider, input) = Sliding(0)
<1> DEFINE samples == Before(0, k + n)
           end == EndOfWindow(slider, 1)
<1>1. W \in Nat /\ H \in Nat \ {0}
  BY WindowAssumption DEF W, H
<1>2. Len(input) = n /\ Len(slider.input_queue) = k
  BY BeforeIs
<1>3. slider.samples_to_next_step = n /\ slider.input_queue = Before(n, k)
  OBVIOUS
<1>4. NumSlices(slider, input) = 1
  BY <1>2, <1>3, OneSlice
<1>5. slider.input_queue \o input = samples
  <2>1. Before(0 + n, k) \o Before(0, n) = Before(0, k + n)
    BY InARow
  <2>2. 0 + n = n
    OBVIOUS
  <2> QED BY <1>3, <2>1, <2>2
<1>6. end = k + n
  <2>1. (1 - 1) * H = 0
    BY <1>1
  <2>2. end = k + n + 0
    BY <1>2, <1>3, <2>1 DEF EndOfWindow, H
  <2> QED BY <2>2
<1>7. SubSeq(samples, end - W + 1, end) = Before(0, W) /\ Len(samples) = end
  <2> DEFINE d == k + n - W
  <2>1. d \in Nat /\ d + W = k + n /\ k + n \in Nat
    BY <1>1
  <2>2. end = d + W /\ end - W + 1 = d + 1
    BY <1>1, <1>6
  <2> HIDE DEF d, end
  <2>3. SubSeq(Before(0, d + W), d + 1, d + W) = Before(0, W)
    BY <1>1, <2>1, LastOfRow
  <2>4. Len(samples) = k + n
    BY <2>1, BeforeIs
  <2>5. samples = Before(0, d + W)
    BY <2>1
  <2> HIDE DEF samples
  <2> QED BY <1>6, <2>3, <2>4, <2>2, <2>5
<1> HIDE DEF samples, end
<1>8. ComputeSpectrogram(slider, input)[1] = Before(0, W)
  <2> DEFINE ends(i) == EndOfWindow(slider, i)
             window(i) == SubSeq(slider.input_queue \o input, ends(i) - W + 1, ends(i))
  <2>1. ComputeSpectrogram(slider, input) =
          [ i \in 1 .. NumSlices(slider, input) |-> window(i) ]
    BY DEF ComputeSpectrogram, W
  <2>2. window(1) = Before(0, W)
    BY <1>5, <1>7 DEF end
  <2> HIDE DEF window
  <2> QED BY <1>4, <2>1, <2>2
<1>9. AfterSpectrogram(slider, input) = Sliding(0)
  <2> DEFINE all == slider.input_queue \o input
             slices == NumSlices(slider, input)
             last == EndOfWindow(slider, slices)
             before == [ input_queue          |-> all,
                         samples_to_next_step |->
                           slider.samples_to_next_step - Len(input) ]
             after == [ input_queue          |-> SubSeq(all, last - W + 1, Len(all)),
                        samples_to_next_step |-> H - (Len(all) - last) ]
  <2>1. AfterSpectrogram(slider, input) = IF slices = 0 THEN before ELSE after
    BY Zenon DEF AfterSpectrogram, W, H
  <2>2. slices # 0 /\ last = end /\ all = samples
    BY <1>4, <1>5 DEF end
  <2>3. after = [ input_queue          |-> SubSeq(samples, end - W + 1, Len(samples)),
                  samples_to_next_step |-> H - (Len(samples) - end) ]
    <3> HIDE DEF all, last
    <3> QED BY <2>2
  <2> HIDE DEF slices, before, after
  <2>4. AfterSpectrogram(slider, input) =
          [ input_queue          |-> SubSeq(samples, end - W + 1, Len(samples)),
            samples_to_next_step |-> H - (Len(samples) - end) ]
    BY <2>1, <2>2, <2>3
  <2>5. end \in Int /\ H - (end - end) = H
    BY <1>1, <1>6
  <2> QED BY <1>7, <2>4, <2>5 DEF Sliding
<1> QED BY <1>4, <1>8, <1>9

\* The window of silence leaves the extractor a hop before its next window.
LEMMA CreatedSliding == Create(Newest(W)) = Sliding(0)
<1>1. W \in Nat
  BY WindowAssumption DEF W
<1>2. Newest(W) = Before(0, W)
  BY <1>1, AgedBefore
<1>3. Spectrogram = [input_queue |-> Before(W, 0), samples_to_next_step |-> W]
  <2>1. Before(W, 0) = <<>>
    <3>1. Before(W, 0) \in Seq(Int) /\ Len(Before(W, 0)) = 0
      BY <1>1, BeforeIs
    <3> QED BY <3>1
  <2> QED BY <2>1 DEF Spectrogram, W
<1>4. 0 \in Nat /\ 0 + W >= W
  BY <1>1
<1>5. AfterSpectrogram(Spectrogram, Before(0, W)) = Sliding(0)
  BY <1>1, <1>3, <1>4, AfterOneSlice
<1> QED BY <1>2, <1>5 DEF Create

\* Every hop completes one window, which is the last of the audio.
LEMMA HopCompletesWindow ==
  /\ HasFeatures(Sliding(H), Before(0, H))
  /\ Features(Sliding(H), Before(0, H)) = Before(0, W)
  /\ AfterExtract(Sliding(H), Before(0, H)) = Sliding(0)
<1> DEFINE slider == Sliding(H)
           hop == Before(0, H)
<1>1. W \in Nat /\ H \in Nat
  BY WindowAssumption DEF W, H
<1>2. slider = [input_queue |-> Before(H, W), samples_to_next_step |-> H]
  BY DEF Sliding
<1>3. W + H >= W
  BY <1>1
<1>4. Len(hop) = H
  BY <1>1, BeforeIs
<1> HIDE DEF slider
<1>5. /\ NumSlices(slider, hop) = 1
      /\ ComputeSpectrogram(slider, hop)[1] = Before(0, W)
      /\ AfterSpectrogram(slider, hop) = Sliding(0)
  BY <1>1, <1>2, <1>3, AfterOneSlice
<1> QED BY <1>4, <1>5 DEF HasFeatures, Features, AfterExtract, slider, H

-----------------------------------------------------------------------------
(***************************************************************************)
(* Windows.                                                                *)
(***************************************************************************)

\* What was received since the last complete hop waits to become one; the
\* extractor's queue and the last features are as much older.
WindowInvariant ==
  /\ \E k \in 0 .. H - 1 :
       /\ past_samples = Before(0, k)
       /\ extractor = Sliding(k)
  /\ FeaturesAreOfTheLastWindow

\* At first the last window is that of silence, which is complete.
LEMMA WindowInvariantInitially == Init => WindowInvariant
<1> SUFFICES ASSUME Init PROVE WindowInvariant
  OBVIOUS
<1>1. W \in Nat /\ H \in Nat \ {0}
  BY WindowAssumption DEF W, H
<1>2. past_samples = Before(0, 0) /\ Len(past_samples) = 0
  <2>1. Before(0, 0) \in Seq(Int) /\ Len(Before(0, 0)) = 0
    BY BeforeIs
  <2> QED BY <2>1 DEF Init
<1>3. extractor = Sliding(0)
  BY CreatedSliding DEF Init, W
<1>4. FeaturesAreOfTheLastWindow
  <2>1. Aged(Before(0, W), 0) = Before(0 + 0, W) /\ Newest(W) = Before(0, W)
    BY <1>1, AgedBefore
  <2> QED BY <1>2, <2>1 DEF Init, FeaturesAreOfTheLastWindow, W
<1>5. 0 \in 0 .. H - 1
  BY <1>1
<1> QED BY <1>2, <1>3, <1>4, <1>5 DEF WindowInvariant

\* The hop and the queue once n more samples have come.
LEMMA MoreSamples ==
  ASSUME WindowInvariant, NEW n \in Nat
  PROVE  \E k \in 0 .. H - 1 :
           /\ past_samples = Before(0, k) /\ Len(past_samples) = k
           /\ HopAfter(n) = Before(0, k + n)
           /\ ExtractorAfter(n) = Sliding(k + n)
           /\ features = Before(k, W)
           /\ Aged(features, n) = Before(k + n, W)
<1>1. PICK k \in 0 .. H - 1 : past_samples = Before(0, k) /\ extractor = Sliding(k)
  BY DEF WindowInvariant
<1>2. W \in Nat /\ H \in Nat \ {0} /\ k \in Nat
  BY WindowAssumption DEF W, H
<1>3. Len(past_samples) = k
  BY <1>1, <1>2, BeforeIs
<1>4. HopAfter(n) = Before(0, k + n)
  <2>1. Aged(Before(0, k), n) = Before(0 + n, k) /\ Newest(n) = Before(0, n)
    BY <1>2, AgedBefore
  <2>2. Before(0 + n, k) \o Before(0, n) = Before(0, k + n)
    BY <1>2, InARow
  <2> QED BY <1>1, <2>1, <2>2 DEF HopAfter
<1>5. ExtractorAfter(n) = Sliding(k + n)
  <2>1. Aged(Before(k, W), n) = Before(k + n, W)
    BY <1>2, AgedBefore
  <2> QED BY <1>1, <2>1 DEF ExtractorAfter, Sliding
<1>6. features = Before(k, W)
  <2>1. Aged(Before(0, W), k) = Before(0 + k, W) /\ Newest(W) = Before(0, W)
    BY <1>2, AgedBefore
  <2>2. 0 + k = k
    BY <1>2
  <2> QED BY <1>3, <2>1, <2>2 DEF WindowInvariant, FeaturesAreOfTheLastWindow, W
<1>7. Aged(features, n) = Before(k + n, W)
  BY <1>2, <1>6, AgedBefore
<1> QED BY <1>1, <1>3, <1>4, <1>5, <1>6, <1>7

\* The window that is k samples old is the last one, as long as k samples wait.
LEMMA WindowsAgree ==
  ASSUME NEW k \in 0 .. H - 1
  PROVE  /\ Len(Before(0, k)) = k
         /\ Aged(Newest(NumSamplesPerWindow), k) = Before(k, W)
<1>1. W \in Nat /\ H \in Nat /\ k \in Nat
  BY WindowAssumption DEF W, H
<1>2. Len(Before(0, k)) = k
  BY <1>1, BeforeIs
<1>3. Aged(Before(0, W), k) = Before(0 + k, W) /\ Newest(W) = Before(0, W) /\ 0 + k = k
  BY <1>1, AgedBefore
<1> QED BY <1>2, <1>3 DEF W

\* No piece of audio disturbs the windows, received or refused.
LEMMA WindowInvariantKept == WindowInvariant /\ [Next]_vars => WindowInvariant'
<1> SUFFICES ASSUME WindowInvariant, [Next]_vars PROVE WindowInvariant'
  OBVIOUS
<1>1. CASE UNCHANGED vars
  BY <1>1 DEF vars, WindowInvariant, FeaturesAreOfTheLastWindow
<1>2. ASSUME NEW n \in Chunks, RefuseSamples(n)
      PROVE  WindowInvariant'
  BY <1>2 DEF RefuseSamples, WindowInvariant, FeaturesAreOfTheLastWindow
<1>3. ASSUME NEW n \in Chunks, BufferSamples(n)
      PROVE  WindowInvariant'
  <2>1. n \in Nat /\ H \in Nat
    BY EstimatorAssumption, WindowAssumption DEF H
  <2>2. PICK k \in 0 .. H - 1 :
          /\ past_samples = Before(0, k) /\ Len(past_samples) = k
          /\ HopAfter(n) = Before(0, k + n)
          /\ ExtractorAfter(n) = Sliding(k + n)
          /\ Aged(features, n) = Before(k + n, W)
    BY <2>1, MoreSamples
  <2>3. /\ past_samples' = Before(0, k + n) /\ extractor' = Sliding(k + n)
        /\ features' = Before(k + n, W) /\ k + n < H
    BY <1>3, <2>2 DEF BufferSamples, H
  <2>4. k + n \in 0 .. H - 1
    BY <2>1, <2>3
  <2>5. FeaturesAreOfTheLastWindow'
    BY <2>3, <2>4, WindowsAgree DEF FeaturesAreOfTheLastWindow
  <2> QED BY <2>3, <2>4, <2>5 DEF WindowInvariant
<1>4. ASSUME NEW n \in Chunks, NEW current \in Powers, CompleteHop(n, current)
      PROVE  WindowInvariant'
  <2>1. n \in Nat /\ H \in Nat \ {0}
    BY EstimatorAssumption, WindowAssumption DEF H
  <2>2. PICK k \in 0 .. H - 1 :
          /\ past_samples = Before(0, k) /\ Len(past_samples) = k
          /\ HopAfter(n) = Before(0, k + n)
          /\ ExtractorAfter(n) = Sliding(k + n)
    BY <2>1, MoreSamples
  <2>3. k + n = H
    BY <1>4, <2>2 DEF CompleteHop, H
  <2>4. HopAfter(n) = Before(0, H) /\ ExtractorAfter(n) = Sliding(H)
    BY <2>2, <2>3
  <2>5. /\ past_samples' = <<>> /\ extractor' = Sliding(0)
        /\ features' = Before(0, W)
    BY <1>4, <2>4, HopCompletesWindow DEF CompleteHop
  <2>6. Before(0, 0) = <<>> /\ 0 \in 0 .. H - 1
    <3>1. Before(0, 0) \in Seq(Int) /\ Len(Before(0, 0)) = 0
      BY BeforeIs
    <3> QED BY <2>1, <3>1
  <2>7. FeaturesAreOfTheLastWindow'
    BY <2>5, <2>6, WindowsAgree DEF FeaturesAreOfTheLastWindow
  <2> QED BY <2>5, <2>6, <2>7 DEF WindowInvariant
<1> QED BY <1>1, <1>2, <1>3, <1>4 DEF Next, ReceiveSamples

\* The last window is always as old as the samples that wait, and the next one a
\* hop away.
THEOREM WindowInvariantHolds == Spec => []WindowInvariant
BY WindowInvariantInitially, WindowInvariantKept, PTL DEF Spec

\* Every hop is looked at in the last window of audio: whatever pieces the audio
\* comes in, of whatever lengths the windows and the hops are.
THEOREM FeaturesAreOfTheAudio == Spec => []FeaturesAreOfTheLastWindow
<1>1. WindowInvariant => FeaturesAreOfTheLastWindow
  BY DEF WindowInvariant
<1> QED BY <1>1, WindowInvariantHolds, PTL
-----------------------------------------------------------------------------
(***************************************************************************)
(* Minimum statistics.                                                     *)
(***************************************************************************)

\* m is the least level of a band in the last n of some updates.
IsLeast(m, ps, b, n) ==
  /\ \E i \in Len(ps) - n + 1 .. Len(ps) : ps[i][b] = m
  /\ \A i \in Len(ps) - n + 1 .. Len(ps) : m <= ps[i][b]

\* The last n updates of ps, once there is one more.
Latest(ps, s, n) ==
  SubSeq(Append(ps, s), Len(Append(ps, s)) - n + 1, Len(Append(ps, s)))

\* What the last updates are: the new one, and behind it those there were.
LEMMA LatestAre ==
  ASSUME NEW ps \in Seq(Powers), NEW s \in Powers, NEW n \in 1 .. Len(ps) + 1
  PROVE  /\ Latest(ps, s, n) \in Seq(Powers) /\ Len(Latest(ps, s, n)) = n
         /\ Latest(ps, s, n)[n] = s
         /\ \A i \in 1 .. n - 1 : Latest(ps, s, n)[i] = ps[(Len(ps) + 1 - n) + i]
<1> DEFINE all == Append(ps, s)
           k == Len(ps)
           d == k + 1 - n
           qs == SubSeq(all, d + 1, k + 1)
<1>1. /\ all \in Seq(Powers) /\ Len(all) = k + 1 /\ k \in Nat
      /\ (\A i \in 1 .. k : all[i] = ps[i]) /\ all[k + 1] = s
  BY AppendProperties, LenProperties
<1>2. n \in 1 .. k + 1 /\ d \in 0 .. k /\ d + n = k + 1
  BY <1>1
<1>3. Latest(ps, s, n) = qs
  <2>1. Len(all) - n + 1 = d + 1
    BY <1>1
  <2> HIDE DEF all, d
  <2> QED BY <1>1, <2>1 DEF Latest, all
<1> HIDE DEF all, k, d
<1>4. \A i \in d + 1 .. k + 1 : all[i] \in Powers
  <2> SUFFICES ASSUME NEW i \in d + 1 .. k + 1 PROVE all[i] \in Powers
    OBVIOUS
  <2>1. i \in 1 .. Len(all)
    BY <1>1, <1>2
  <2> QED BY <1>1, <2>1, ElementOfSeq
<1>5. d + 1 \in Int /\ k + 1 \in Int /\ d + 1 <= k + 1 /\ (k + 1) - (d + 1) + 1 = n
  BY <1>1, <1>2
<1>6. /\ qs \in Seq(Powers) /\ Len(qs) = n
      /\ \A i \in 1 .. n : qs[i] = all[(d + 1) + i - 1]
  BY <1>4, <1>5, SubSeqProperties
<1>7. \A i \in 1 .. n : qs[i] = all[d + i]
  <2>1. \A i \in 1 .. n : (d + 1) + i - 1 = d + i
    BY <1>2
  <2> QED BY <1>6, <2>1
<1> HIDE DEF qs
<1>8. qs[n] = s
  <2>1. n \in 1 .. n
    BY <1>1, <1>2
  <2>2. qs[n] = all[d + n]
    BY <1>7, <2>1
  <2> QED BY <1>1, <1>2, <2>2
<1>9. ASSUME NEW i \in 1 .. n - 1
      PROVE  qs[i] = ps[d + i]
  <2>1. i \in 1 .. n /\ d + i \in 1 .. k
    BY <1>1, <1>2
  <2> QED BY <1>1, <1>7, <2>1
<1> QED BY <1>3, <1>6, <1>8, <1>9 DEF d, k

\* The least of some updates and of one more.
LEMMA LeastOfMore ==
  ASSUME NEW ps \in Seq(Powers), NEW s \in Powers, NEW b \in Bands,
         NEW n \in 1 .. Len(ps), NEW m, IsLeast(m, ps, b, n),
         NEW l \in n + 1 .. Len(ps) + 1
  PROVE  IsLeast(IF m <= s[b] THEN m ELSE s[b], Latest(ps, s, l), b, n + 1)
<1> DEFINE qs == Latest(ps, s, l)
           k == Len(ps)
           x == IF m <= s[b] THEN m ELSE s[b]
           d == k + 1 - l
<1>1. k \in Nat /\ n \in 1 .. k /\ l \in n + 1 .. k + 1 /\ l \in 1 .. k + 1
      /\ d \in Nat /\ d + l = k + 1
  BY LenProperties
<1>2. /\ qs \in Seq(Powers) /\ Len(qs) = l /\ qs[l] = s
      /\ \A i \in 1 .. l - 1 : qs[i] = ps[d + i]
  BY <1>1, LatestAre
<1> HIDE DEF qs, k, d
<1>3. s[b] \in Nat
  BY EstimatorAssumption DEF Powers, Levels
<1>4. /\ \E i \in k - n + 1 .. k : ps[i][b] = m
      /\ \A i \in k - n + 1 .. k : m <= ps[i][b]
  BY DEF IsLeast, k
<1>5. \A i \in k - n + 1 .. k : ps[i][b] \in Nat
  <2> SUFFICES ASSUME NEW i \in k - n + 1 .. k PROVE ps[i][b] \in Nat
    OBVIOUS
  <2>1. i \in 1 .. Len(ps)
    BY <1>1 DEF k
  <2>2. ps[i] \in Powers
    BY <2>1, ElementOfSeq
  <2> QED BY <2>2, EstimatorAssumption DEF Powers, Levels
<1>6. m \in Nat /\ x \in Nat /\ x <= m /\ x <= s[b]
  BY <1>3, <1>4, <1>5
<1>7. ASSUME NEW i \in l - n .. l - 1
      PROVE  qs[i] = ps[d + i] /\ d + i \in k - n + 1 .. k
  BY <1>1, <1>2
<1>8. \A i \in l - n .. l : x <= qs[i][b]
  <2> SUFFICES ASSUME NEW i \in l - n .. l PROVE x <= qs[i][b]
    OBVIOUS
  <2>1. CASE i = l
    BY <1>2, <1>6, <2>1
  <2>2. CASE i # l
    <3>1. i \in l - n .. l - 1
      BY <1>1, <2>2
    <3>2. qs[i] = ps[d + i] /\ d + i \in k - n + 1 .. k
      BY <1>7, <3>1
    <3>3. m <= ps[d + i][b] /\ ps[d + i][b] \in Nat
      BY <1>4, <1>5, <3>2
    <3> HIDE DEF x
    <3> QED BY <1>6, <3>2, <3>3
  <2> QED BY <2>1, <2>2
<1>9. \E i \in l - n .. l : qs[i][b] = x
  <2>1. CASE m <= s[b]
    <3>1. PICK j \in k - n + 1 .. k : ps[j][b] = m
      BY <1>4
    <3>2. j - d \in l - n .. l - 1 /\ j - d \in l - n .. l /\ d + (j - d) = j
      BY <1>1, <3>1
    <3>3. qs[j - d] = ps[j]
      BY <1>7, <3>2
    <3> QED BY <2>1, <3>1, <3>2, <3>3
  <2>2. CASE ~(m <= s[b])
    <3>1. l \in l - n .. l
      BY <1>1
    <3> QED BY <1>2, <2>2, <3>1
  <2> QED BY <2>1, <2>2
<1> HIDE DEF x
<1>10. Len(qs) - (n + 1) + 1 = l - n
  BY <1>1, <1>2
<1>11. IsLeast(x, qs, b, n + 1)
  BY <1>2, <1>8, <1>9, <1>10 DEF IsLeast
<1> QED BY <1>11 DEF x, qs

\* The least of the last update.
LEMMA LeastOfOne ==
  ASSUME NEW ps \in Seq(Powers), NEW s \in Powers, NEW b \in Bands,
         NEW l \in 1 .. Len(ps) + 1
  PROVE  IsLeast(s[b], Latest(ps, s, l), b, 1)
<1> DEFINE qs == Latest(ps, s, l)
<1>1. Len(qs) = l /\ qs[l] = s /\ l \in Nat
  BY LatestAre, LenProperties
<1> HIDE DEF qs
<1>2. s[b] \in Nat
  BY EstimatorAssumption DEF Powers, Levels
<1>3. l - 1 + 1 = l
  BY <1>1
<1> QED BY <1>1, <1>2, <1>3 DEF IsLeast, qs

\* The least of all updates is their minimum.
LEMMA LeastIsMinimum ==
  ASSUME NEW ps \in Seq(Powers), NEW b \in Bands, NEW m, IsLeast(m, ps, b, Len(ps))
  PROVE  m = MinOver(ps, b)
<1> DEFINE k == Len(ps)
           S == { ps[i][b] : i \in DOMAIN ps }
<1>1. k \in Nat /\ DOMAIN ps = 1 .. k /\ k - k + 1 = 1
  BY LenProperties
<1>2. \A i \in DOMAIN ps : ps[i][b] \in Nat
  <2> SUFFICES ASSUME NEW i \in DOMAIN ps PROVE ps[i][b] \in Nat
    OBVIOUS
  <2>1. ps[i] \in Powers
    BY <1>1, ElementOfSeq
  <2> QED BY <2>1, EstimatorAssumption DEF Powers, Levels
<1>3. m \in S /\ (\A i \in DOMAIN ps : m <= ps[i][b])
  BY <1>1 DEF IsLeast
<1>4. ASSUME NEW n \in S, \A i \in DOMAIN ps : n <= ps[i][b]
      PROVE  n = m
  <2>1. n <= m /\ m <= n /\ n \in Nat /\ m \in Nat
    BY <1>2, <1>3, <1>4
  <2> QED BY <2>1
<1> HIDE DEF S
<1>5. m = CHOOSE n \in S : \A i \in DOMAIN ps : n <= ps[i][b]
  BY <1>3, <1>4
<1> QED BY <1>5 DEF MinOver, S
-----------------------------------------------------------------------------
(***************************************************************************)
(* The estimate.                                                           *)
(***************************************************************************)

\* The updates of the latest window: it is full when the next one is to begin.
UpdatesInWindow ==
  IF num_hops_received = 0 THEN NumHopsPerUpdate ELSE num_hops_received

\* The least smoothed power of the latest window is at hand, which becomes that
\* of the window before when the next one begins; the estimate is the least of
\* both, of which there is only one at first.
MinimumInvariant ==
  /\ smoothed_powers \in Seq(Powers)
  /\ num_hops_received \in 0 .. NumHopsPerUpdate - 1
  /\ smoothed_powers = <<>> => num_hops_received = 0 /\ smoothed_power = Zero
  /\ smoothed_powers # <<>> =>
       /\ smoothed_power \in Powers
       /\ Len(smoothed_powers) \in
            {UpdatesInWindow, NumHopsPerUpdate + UpdatesInWindow}
       /\ \A b \in Bands :
            /\ IsLeast(tmp_min[b], smoothed_powers, b, UpdatesInWindow)
            /\ IsLeast(noise_estimate[b], smoothed_powers, b, Len(smoothed_powers))

\* There is no estimate before the first update.
LEMMA MinimumInvariantInitially == Init => MinimumInvariant
<1> SUFFICES ASSUME Init PROVE MinimumInvariant
  OBVIOUS
<1>1. smoothed_powers = <<>> /\ num_hops_received = 0 /\ smoothed_power = Zero
  BY DEF Init
<1>2. 0 \in 0 .. NumHopsPerUpdate - 1
  BY EstimatorAssumption
<1> QED BY <1>1, <1>2 DEF MinimumInvariant

\* The windows an update leaves: the number of the updates in them, and how many
\* the minimum is taken over.
LEMMA WindowsMove ==
  ASSUME MinimumInvariant, NEW h \in Nat,
         h = (num_hops_received + 1) % NumHopsPerUpdate
  PROVE  /\ h \in 0 .. NumHopsPerUpdate - 1
         /\ WindowLength \in 1 .. Len(smoothed_powers) + 1
         /\ (IF h = 0 THEN NumHopsPerUpdate ELSE h) = num_hops_received + 1
         /\ WindowLength \in
              {num_hops_received + 1, NumHopsPerUpdate + num_hops_received + 1}
         /\ num_hops_received # 0 =>
              /\ WindowLength = Len(smoothed_powers) + 1
              /\ smoothed_powers # <<>>
              /\ num_hops_received \in 1 .. Len(smoothed_powers)
         /\ num_hops_received = 0 /\ smoothed_powers # <<>> =>
              /\ WindowLength = NumHopsPerUpdate + 1
              /\ NumHopsPerUpdate \in 1 .. Len(smoothed_powers)
         /\ smoothed_powers = <<>> => WindowLength = 1 /\ num_hops_received = 0
<1> DEFINE n == NumHopsPerUpdate
           k == num_hops_received
           l == Len(smoothed_powers)
<1>1. /\ n \in Nat \ {0} /\ k \in 0 .. n - 1 /\ l \in Nat
      /\ (smoothed_powers = <<>> <=> l = 0)
      /\ (l = 0 => k = 0)
      /\ (l # 0 => l \in {IF k = 0 THEN n ELSE k, n + (IF k = 0 THEN n ELSE k)})
  BY EstimatorAssumption, LenProperties, EmptySeq DEF MinimumInvariant, UpdatesInWindow
<1>2. h = IF k + 1 = n THEN 0 ELSE k + 1
  <2>1. h = (k + 1) % n
    OBVIOUS
  <2> HIDE DEF n, k
  <2>2. CASE k + 1 = n
    <3>1. n % n = 0
      BY <1>1
    <3> QED BY <2>1, <2>2, <3>1
  <2>3. CASE k + 1 # n
    <3>1. k + 1 \in 0 .. n - 1
      BY <1>1, <2>3
    <3>2. (k + 1) % n = k + 1
      BY <1>1, <3>1
    <3> QED BY <2>1, <2>3, <3>2
  <2> QED BY <2>2, <2>3
<1>3. WindowLength = IF l < n + k THEN l + 1 ELSE n + k + 1
  BY DEF WindowLength
<1> HIDE DEF n, k, l
<1>4. CASE l = 0
  <2>1. h \in 0 .. n - 1 /\ (IF h = 0 THEN n ELSE h) = k + 1
    BY <1>1, <1>2
  <2>2. WindowLength = 1
    BY <1>1, <1>3, <1>4
  <2> QED BY <1>1, <1>4, <2>1, <2>2 DEF n, k, l
<1>5. CASE l # 0 /\ k = 0
  <2>1. h \in 0 .. n - 1 /\ (IF h = 0 THEN n ELSE h) = k + 1
    BY <1>1, <1>2
  <2>2. WindowLength = n + 1 /\ n \in 1 .. l
    BY <1>1, <1>3, <1>5
  <2> QED BY <1>1, <1>5, <2>1, <2>2 DEF n, k, l
<1>6. CASE l # 0 /\ k # 0
  <2>1. h \in 0 .. n - 1 /\ (IF h = 0 THEN n ELSE h) = k + 1
    BY <1>1, <1>2
  <2>2. WindowLength = l + 1 /\ k \in 1 .. l /\ l \in {k, n + k}
    BY <1>1, <1>3, <1>6
  <2> QED BY <1>1, <1>6, <2>1, <2>2 DEF n, k, l
<1> QED BY <1>4, <1>5, <1>6

\* An update keeps the minimum statistics.
LEMMA UpdateKeepsMinimum ==
  ASSUME MinimumInvariant, NEW current \in Powers, UpdateNoiseEstimate(current)
  PROVE  MinimumInvariant'
<1> DEFINE n == NumHopsPerUpdate
           k == num_hops_received
           ps == smoothed_powers
           l == WindowLength
           h == (k + 1) % n
<1>1. PICK smoothed \in SmoothedPowers(current) :
        LET tmp == IF IsEmpty THEN current ELSE tmp_min
        IN  /\ smoothed_power' = smoothed
            /\ noise_estimate' = NextMin(smoothed, tmp)
            /\ tmp_min' = NextTmpMin(smoothed, tmp)
            /\ num_hops_received' = h
            /\ smoothed_powers' = Latest(ps, smoothed, l)
  BY DEF UpdateNoiseEstimate, Latest
<1> DEFINE tmp == IF IsEmpty THEN current ELSE tmp_min
<1>2. /\ smoothed \in Powers /\ smoothed_power' = smoothed
      /\ noise_estimate' = NextMin(smoothed, tmp)
      /\ tmp_min' = NextTmpMin(smoothed, tmp)
      /\ num_hops_received' = h
      /\ smoothed_powers' = Latest(ps, smoothed, l)
  BY <1>1 DEF SmoothedPowers
<1>3. ps \in Seq(Powers) /\ n \in Nat \ {0} /\ k \in Nat /\ h \in Nat /\ Len(ps) \in Nat
  <2>1. ps \in Seq(Powers) /\ n \in Nat \ {0} /\ k \in Nat
    BY EstimatorAssumption DEF MinimumInvariant
  <2> HIDE DEF n, k, ps
  <2> QED BY <2>1, LenProperties
<1>4. /\ h \in 0 .. n - 1 /\ l \in 1 .. Len(ps) + 1
      /\ (IF h = 0 THEN n ELSE h) = k + 1
      /\ l \in {k + 1, n + k + 1}
      /\ k # 0 => l = Len(ps) + 1 /\ ps # <<>> /\ k \in 1 .. Len(ps)
      /\ k = 0 /\ ps # <<>> => l = n + 1 /\ n \in 1 .. Len(ps)
      /\ ps = <<>> => l = 1 /\ k = 0
  <2> HIDE DEF h
  <2>1. h = (num_hops_received + 1) % NumHopsPerUpdate
    BY DEF h
  <2> QED BY <1>3, <2>1, WindowsMove
<1> DEFINE qs == Latest(ps, smoothed, l)
<1>5. qs \in Seq(Powers) /\ Len(qs) = l /\ l \in Nat /\ qs # <<>>
  <2>1. qs \in Seq(Powers) /\ Len(qs) = l
    BY <1>2, <1>3, <1>4, LatestAre
  <2>2. l \in Nat /\ l >= 1
    BY <1>3, <1>4
  <2> HIDE DEF qs, l
  <2> QED BY <2>1, <2>2, EmptySeq
<1>6. ASSUME NEW b \in Bands
      PROVE  /\ IsLeast(tmp_min'[b], qs, b, k + 1)
             /\ IsLeast(noise_estimate'[b], qs, b, l)
  <2>1. smoothed[b] \in Nat /\ current[b] \in Nat /\ smoothed[b] # 0
    BY <1>2, EstimatorAssumption DEF Powers, Levels
  <2>2. IsLeast(smoothed[b], qs, b, 1)
    BY <1>2, <1>3, <1>4, LeastOfOne
  <2>3. k = 0 =>
          /\ noise_estimate'[b] = IF tmp[b] <= smoothed[b] THEN tmp[b] ELSE smoothed[b]
          /\ tmp_min'[b] = smoothed[b]
    BY <1>2 DEF NextMin, NextTmpMin, ElementWiseMin
  <2>4. k # 0 =>
          /\ noise_estimate'[b] =
               IF noise_estimate[b] <= smoothed[b] THEN noise_estimate[b] ELSE smoothed[b]
          /\ tmp_min'[b] = IF tmp[b] <= smoothed[b] THEN tmp[b] ELSE smoothed[b]
    BY <1>2 DEF NextMin, NextTmpMin, ElementWiseMin
  <2>5. ps # <<>> =>
          /\ tmp = tmp_min
          /\ IsLeast(tmp_min[b], ps, b, UpdatesInWindow)
          /\ IsLeast(noise_estimate[b], ps, b, Len(ps))
    <3> SUFFICES ASSUME ps # <<>>
                 PROVE  /\ tmp = tmp_min
                        /\ IsLeast(tmp_min[b], ps, b, UpdatesInWindow)
                        /\ IsLeast(noise_estimate[b], ps, b, Len(ps))
      OBVIOUS
    <3>1. smoothed_power \in Powers
      BY DEF MinimumInvariant
    <3>2. smoothed_power[b] # Zero[b]
      BY <3>1, EstimatorAssumption DEF Powers, Levels, Zero
    <3>3. ~IsEmpty
      BY <3>2 DEF IsEmpty
    <3> QED BY <3>3 DEF MinimumInvariant
  <2>6. CASE ps = <<>>
    <3>1. IsEmpty
      BY <2>6 DEF MinimumInvariant, IsEmpty
    <3>2. current[b] = smoothed[b]
      <4>1. \/ current[b] <= smoothed[b] /\ smoothed[b] <= current[b]
            \/ current[b] <= smoothed[b] /\ smoothed[b] <= current[b]
        BY <1>1, <3>1 DEF SmoothedPowers
      <4> QED BY <2>1, <4>1
    <3>3. k = 0 /\ l = 1
      BY <1>4, <2>6
    <3>4. noise_estimate'[b] = smoothed[b] /\ tmp_min'[b] = smoothed[b] /\ k + 1 = 1
      BY <2>3, <3>1, <3>2, <3>3
    <3> HIDE DEF qs
    <3> QED BY <2>2, <3>3, <3>4
  <2>7. CASE ps # <<>> /\ k = 0
    <3>1. l = n + 1 /\ n \in 1 .. Len(ps) /\ UpdatesInWindow = n /\ k + 1 = 1
          /\ l \in n + 1 .. Len(ps) + 1
      BY <1>3, <1>4, <2>7 DEF UpdatesInWindow
    <3>2. IsLeast(tmp_min[b], ps, b, n)
      BY <2>5, <2>7, <3>1
    <3>3. IsLeast(IF tmp_min[b] <= smoothed[b] THEN tmp_min[b] ELSE smoothed[b],
                  qs, b, n + 1)
      <4> DEFINE m == tmp_min[b]
      <4> HIDE DEF m, n, ps, l
      <4>1. IsLeast(m, ps, b, n)
        BY <3>2 DEF m
      <4>2. IsLeast(IF m <= smoothed[b] THEN m ELSE smoothed[b],
                    Latest(ps, smoothed, l), b, n + 1)
        BY <1>2, <1>3, <3>1, <4>1, LeastOfMore
      <4> QED BY <4>2 DEF m
    <3> HIDE DEF qs
    <3>4. noise_estimate'[b] =
            IF tmp_min[b] <= smoothed[b] THEN tmp_min[b] ELSE smoothed[b]
      BY <2>3, <2>5, <2>7
    <3> QED BY <2>2, <2>3, <2>7, <3>1, <3>3, <3>4
  <2>8. CASE ps # <<>> /\ k # 0
    <3>1. /\ l = Len(ps) + 1 /\ k \in 1 .. Len(ps) /\ UpdatesInWindow = k
          /\ l \in k + 1 .. Len(ps) + 1 /\ l \in Len(ps) + 1 .. Len(ps) + 1
          /\ Len(ps) \in 1 .. Len(ps)
      BY <1>3, <1>4, <2>8 DEF UpdatesInWindow
    <3>2. IsLeast(tmp_min[b], ps, b, k) /\ IsLeast(noise_estimate[b], ps, b, Len(ps))
      BY <2>5, <2>8, <3>1
    <3>3. IsLeast(IF tmp_min[b] <= smoothed[b] THEN tmp_min[b] ELSE smoothed[b],
                  qs, b, k + 1)
      <4> DEFINE m == tmp_min[b]
      <4> HIDE DEF m, n, k, ps, l
      <4>1. IsLeast(m, ps, b, k)
        BY <3>2 DEF m
      <4>2. IsLeast(IF m <= smoothed[b] THEN m ELSE smoothed[b],
                    Latest(ps, smoothed, l), b, k + 1)
        BY <1>2, <1>3, <3>1, <4>1, LeastOfMore
      <4> QED BY <4>2 DEF m
    <3>4. IsLeast(IF noise_estimate[b] <= smoothed[b]
                  THEN noise_estimate[b] ELSE smoothed[b], qs, b, Len(ps) + 1)
      <4> DEFINE m == noise_estimate[b]
      <4> HIDE DEF m, n, k, ps, l
      <4>1. IsLeast(m, ps, b, Len(ps))
        BY <3>2 DEF m
      <4>2. IsLeast(IF m <= smoothed[b] THEN m ELSE smoothed[b],
                    Latest(ps, smoothed, l), b, Len(ps) + 1)
        BY <1>2, <1>3, <3>1, <4>1, LeastOfMore
      <4> QED BY <4>2 DEF m
    <3> HIDE DEF qs
    <3>5. tmp_min'[b] = IF tmp_min[b] <= smoothed[b] THEN tmp_min[b] ELSE smoothed[b]
      BY <2>4, <2>5, <2>8
    <3> QED BY <2>4, <2>8, <3>1, <3>3, <3>4, <3>5
  <2> QED BY <2>6, <2>7, <2>8
<1>7. UpdatesInWindow' = k + 1
  <2>1. UpdatesInWindow' = IF h = 0 THEN n ELSE h
    <3> HIDE DEF h
    <3> QED BY <1>2 DEF UpdatesInWindow
  <2> QED BY <1>4, <2>1
<1>8. l \in {k + 1, n + (k + 1)}
  <2>1. n + (k + 1) = n + k + 1
    BY <1>3
  <2> QED BY <1>4, <2>1
<1> HIDE DEF h, qs, l
<1>9. smoothed_powers' = qs
  BY <1>2 DEF qs
<1> QED BY <1>2, <1>4, <1>5, <1>6, <1>7, <1>8, <1>9 DEF MinimumInvariant

\* Only updates change the minima, and these keep them.
LEMMA MinimumInvariantKept == MinimumInvariant /\ [Next]_vars => MinimumInvariant'
<1> SUFFICES ASSUME MinimumInvariant, [Next]_vars PROVE MinimumInvariant'
  OBVIOUS
<1>1. CASE UNCHANGED << smoothed_power, tmp_min, noise_estimate, num_hops_received,
                        smoothed_powers >>
  BY <1>1 DEF MinimumInvariant, UpdatesInWindow
<1>2. CASE UNCHANGED vars
  BY <1>1, <1>2 DEF vars
<1>3. ASSUME NEW n \in Chunks, RefuseSamples(n) \/ BufferSamples(n)
      PROVE  MinimumInvariant'
  BY <1>1, <1>3 DEF RefuseSamples, BufferSamples, estimate
<1>4. ASSUME NEW n \in Chunks, NEW current \in Powers, CompleteHop(n, current)
      PROVE  MinimumInvariant'
  <2>1. \/ UNCHANGED << smoothed_power, tmp_min, noise_estimate, num_hops_received,
                        smoothed_powers >>
        \/ UpdateNoiseEstimate(current)
    BY <1>4 DEF CompleteHop, estimate
  <2> QED BY <1>1, <2>1, UpdateKeepsMinimum
<1> QED BY <1>2, <1>3, <1>4 DEF Next, ReceiveSamples

\* The minima of the two windows are always those of their updates.
THEOREM MinimumInvariantHolds == Spec => []MinimumInvariant
BY MinimumInvariantInitially, MinimumInvariantKept, PTL DEF Spec

\* The noise estimate is the minimum statistic it is documented to be, of however
\* many bands and however many updates in a window.
THEOREM EstimateIsMinimum == Spec => []EstimateIsWindowMinimum
<1>1. MinimumInvariant => EstimateIsWindowMinimum
  <2> SUFFICES ASSUME MinimumInvariant, smoothed_powers # <<>>, NEW b \in Bands
               PROVE  noise_estimate[b] = MinOver(smoothed_powers, b)
    BY DEF EstimateIsWindowMinimum
  <2>1. /\ smoothed_powers \in Seq(Powers)
        /\ IsLeast(noise_estimate[b], smoothed_powers, b, Len(smoothed_powers))
    BY DEF MinimumInvariant
  <2> QED BY <2>1, LeastIsMinimum
<1> QED BY <1>1, MinimumInvariantHolds, PTL
=============================================================================
