-------------------------- MODULE CycleSizeProofs --------------------------
(***************************************************************************)
(* CycleSize for every frame size, SDK cycle size and byte rate.           *)
(***************************************************************************)
EXTENDS CycleSize, TLAPS

\* The truncated cycle is the largest whole number of frames in it.
LEMMA Truncation ==
  ASSUME NEW b \in Nat \ {0}, NEW n \in Nat, b <= n
  PROVE  /\ WholeFrames(n, b) \in Nat
         /\ WholeFrames(n, b) <= n
         /\ n - WholeFrames(n, b) \in 0..(b - 1)
         /\ \E k \in 0..WholeFrames(n, b) : WholeFrames(n, b) = k * b
<1> DEFINE q == n \div b
<1>1. q \in Nat /\ n = b * q + (n % b) /\ n % b \in 0..(b - 1)
  BY SMT
<1>2. b * q = q * b /\ q * b \in Nat /\ q <= q * b
  <2> HIDE DEF q
  <2>1. q \in Nat
    BY <1>1
  <2> QED
    BY <2>1, SMT
<1>3. WholeFrames(n, b) = q * b
  BY DEF WholeFrames
<1> HIDE DEF q
<1> QED
  BY <1>1, <1>2, <1>3, SMT

\* One more cycle asks for one more time the intended bytes.
LEMMA OneMoreCycle ==
  ASSUME NEW n \in Nat, NEW i \in Nat
  PROVE  (n + 1) * i = n * i + i
BY SMT

\* Two whole numbers of frames make a whole number of frames.
LEMMA WholeSum ==
  ASSUME NEW b \in Nat \ {0}, NEW x \in Nat, NEW k \in 0..x, x = k * b
  PROVE  /\ \E j \in 0..x : x = j * b
         /\ \E j \in 0..(x + b) : x + b = j * b
<1>1. (k + 1) * b = k * b + b
  BY SMT
<1>2. k + 1 \in 0..(x + b)
  BY SMT
<1> QED
  BY <1>1, <1>2

\* What configureFormat() cuts a cycle to when the SDK gives no whole frame.
LEMMA FallbackIsWhole ==
  ASSUME NEW b \in Nat \ {0}, NEW rate \in Nat
  PROVE  /\ Fallback(rate, b) \in Nat
         /\ \E k \in 0..Fallback(rate, b) : Fallback(rate, b) = k * b
<1>1. rate \div 1000 \in Nat
  BY SMT
<1>2. CASE rate \div 1000 < b
  <2>1. Fallback(rate, b) = b
    BY <1>2 DEF Fallback
  <2>2. b = 1 * b /\ 1 \in 0..b
    BY SMT
  <2> QED
    BY <2>1, <2>2
<1>3. CASE ~(rate \div 1000 < b)
  <2>1. Fallback(rate, b) = WholeFrames(rate \div 1000, b)
    BY <1>3 DEF Fallback
  <2>2. b <= rate \div 1000
    BY <1>1, <1>3, SMT
  <2> QED
    BY <1>1, <2>1, <2>2, Truncation
<1> QED
  BY <1>2, <1>3

LEMMA InitHolds == Init => IInv
<1> SUFFICES ASSUME Init PROVE IInv
  OBVIOUS
<1>1. TypeOK
  BY CycleAssumption DEF Init, TypeOK
<1>2. 0 = 0 * 0 /\ 0 \in 0..0
  BY SMT
<1>3. Accounts /\ WholeFramesPopped /\ ExtraFrameFits
  BY <1>2 DEF Init, Accounts, WholeFramesPopped, ExtraFrameFits, Whole
<1> QED
  BY <1>1, <1>3 DEF IInv

\* A new format starts with nothing owed.
LEMMA ConfigureHolds ==
  ASSUME NEW b \in Nat \ {0}, NEW raw \in Nat, NEW rate \in Nat,
         configureFormat(b, raw, rate)
  PROVE  IInv'
<1> DEFINE whole == raw >= b
           cycle == IF whole THEN WholeFrames(raw, b) ELSE Fallback(rate, b)
<1>1. b \in Nat \ {0} /\ raw \in Nat /\ rate \in Nat
  OBVIOUS
<1>2. cycle \in Nat /\ \E k \in 0..cycle : cycle = k * b
  <2>1. CASE whole
    BY <1>1, <2>1, Truncation
  <2>2. CASE ~whole
    BY <1>1, <2>2, FallbackIsWhole
  <2> QED
    BY <2>1, <2>2
<1>3. /\ intended' \in Nat /\ remainder' \in 0..(b - 1)
      /\ intended' = cycle + remainder'
  <2>1. CASE whole
    <3>1. /\ WholeFrames(raw, b) \in Nat
          /\ raw - WholeFrames(raw, b) \in 0..(b - 1)
      BY <1>1, <2>1, Truncation
    <3>2. intended' = raw /\ remainder' = raw - WholeFrames(raw, b) /\ cycle = WholeFrames(raw, b)
      BY <2>1 DEF configureFormat
    <3> QED
      BY <1>1, <3>1, <3>2, SMT
  <2>2. CASE ~whole
    <3>1. intended' = cycle /\ remainder' = 0
      BY <2>2 DEF configureFormat
    <3> QED
      BY <1>1, <1>2, <3>1, SMT
  <2> QED
    BY <2>1, <2>2
<1>4. /\ bpf' = b /\ streamBytes' = cycle /\ room' = cycle + b
      /\ acc' = 0 /\ want' = 0 /\ cycles' = 0 /\ given' = 0
  BY DEF configureFormat, Room
<1> HIDE DEF cycle, whole
<1>5. TypeOK'
  <2>1. cycle \in Nat /\ cycle + b \in Nat /\ 0 \in 0..(b - 1) /\ 0 \in 0..MaxCycles
    BY <1>1, <1>2, CycleAssumption
  <2>2. (bpf > 0 => remainder \in 0..(bpf - 1) /\ acc \in 0..(bpf - 1))'
    BY <1>3, <1>4, <2>1
  <2>3. (bpf = 0 => remainder = 0 /\ acc = 0)'
    BY <1>1, <1>4
  <2> QED
    BY <1>1, <1>3, <1>4, <2>1, <2>2, <2>3 DEF TypeOK
<1>6. 0 * intended' = 0
  BY <1>3, SMT
<1>7. Accounts'
  <2>1. acc' + given' = cycles' * intended'
    BY <1>4, <1>6
  <2>2. (bpf > 0 => room = streamBytes + bpf)'
    BY <1>4
  <2>3. Whole(streamBytes)'
    BY <1>2, <1>4 DEF Whole
  <2> QED
    BY <1>3, <1>4, <2>1, <2>2, <2>3 DEF Accounts
<1>8. 0 = 0 * b /\ 0 \in 0..0
  BY <1>1, SMT
<1>9. WholeFramesPopped' /\ ExtraFrameFits'
  BY <1>1, <1>2, <1>4, <1>8 DEF WholeFramesPopped, ExtraFrameFits, Whole
<1> QED
  BY <1>5, <1>7, <1>9 DEF IInv

\* A cycle either owes what was truncated or pays a frame of it back.
LEMMA CycleHolds ==
  ASSUME IInv, getNewStream
  PROVE  IInv'
<1> DEFINE sum == acc + remainder
<1>1. /\ bpf \in Nat \ {0} /\ streamBytes \in Nat /\ intended \in Nat /\ room \in Nat
      /\ acc \in 0..(bpf - 1) /\ remainder \in 0..(bpf - 1) /\ given \in Nat
      /\ cycles \in 0..MaxCycles /\ cycles < MaxCycles /\ MaxCycles \in Nat
      /\ intended = streamBytes + remainder /\ room = streamBytes + bpf
      /\ acc + given = cycles * intended
  BY CycleAssumption DEF IInv, TypeOK, Accounts, getNewStream
<1>2. /\ bpf' = bpf /\ streamBytes' = streamBytes /\ intended' = intended
      /\ remainder' = remainder /\ room' = room
      /\ cycles' = cycles + 1 /\ given' = given + want'
      /\ want' = streamBytes + Extra(sum) /\ acc' = Carried(sum)
  BY DEF getNewStream, config
<1>3. \E k \in 0..streamBytes : streamBytes = k * bpf
  BY DEF IInv, Accounts, Whole
<1>4. /\ want' \in Nat /\ want' <= room
      /\ acc' \in 0..(bpf - 1) /\ acc' + want' = acc + intended
      /\ \E k \in 0..want' : want' = k * bpf
  <2>0. PICK k \in 0..streamBytes : streamBytes = k * bpf
    BY <1>3
  <2>1. CASE sum >= bpf
    <3>1. want' = streamBytes + bpf /\ acc' = sum - bpf
      BY <1>2, <2>1 DEF Extra, Carried
    <3>2. \E j \in 0..want' : want' = j * bpf
      BY <1>1, <2>0, <3>1, WholeSum
    <3>3. /\ want' \in Nat /\ want' <= room
          /\ acc' \in 0..(bpf - 1) /\ acc' + want' = acc + intended
      BY <1>1, <2>1, <3>1, SMT
    <3> QED
      BY <3>2, <3>3
  <2>2. CASE ~(sum >= bpf)
    <3>1. want' = streamBytes /\ acc' = sum
      BY <1>1, <1>2, <2>2 DEF Extra, Carried
    <3>2. \E j \in 0..want' : want' = j * bpf
      BY <2>0, <3>1
    <3>3. /\ want' \in Nat /\ want' <= room
          /\ acc' \in 0..(bpf - 1) /\ acc' + want' = acc + intended
      BY <1>1, <2>2, <3>1, SMT
    <3> QED
      BY <3>2, <3>3
  <2> QED
    BY <2>1, <2>2
<1>5. TypeOK'
  BY <1>1, <1>2, <1>4 DEF TypeOK
<1>6. (cycles + 1) * intended = cycles * intended + intended
  BY <1>1, OneMoreCycle
<1>7. acc' + given' = cycles' * intended'
  <2>1. cycles * intended \in Int
    BY <1>1, SMT
  <2>2. acc' + want' = acc + intended /\ acc' \in Int /\ want' \in Int
    BY <1>4
  <2>3. acc \in Int /\ given \in Int /\ intended \in Int
    BY <1>1
  <2>4. acc' + (given + want') = cycles * intended + intended
    <3>1. acc' + (given + want') = (acc' + want') + given
      BY <2>2, <2>3, SMT
    <3>2. (acc + intended) + given = (acc + given) + intended
      BY <2>3, SMT
    <3> QED
      BY <1>1, <2>2, <3>1, <3>2, Zenon
  <2>5. given' = given + want'
    BY <1>2, Zenon
  <2>6. cycles' * intended' = cycles * intended + intended
    BY <1>2, <1>6
  <2> QED
    BY <2>4, <2>5, <2>6
<1>8. Accounts'
  BY <1>1, <1>2, <1>3, <1>7 DEF Accounts, Whole
<1>9. WholeFramesPopped' /\ ExtraFrameFits'
  BY <1>2, <1>4 DEF WholeFramesPopped, ExtraFrameFits, Whole
<1> QED
  BY <1>5, <1>8, <1>9 DEF IInv

\* The inductive invariant: nothing asked for is forgotten.
THEOREM InvariantHolds == Spec => []IInv
<1>1. IInv /\ [Next]_vars => IInv'
  <2> SUFFICES ASSUME IInv, [Next]_vars PROVE IInv'
    OBVIOUS
  <2>1. CASE \E b \in FrameSizes, raw \in RawCycles, rate \in ByteRates :
               configureFormat(b, raw, rate)
    BY <2>1, CycleAssumption, ConfigureHolds
  <2>2. CASE getNewStream
    BY <2>2, CycleHolds
  <2>3. CASE UNCHANGED vars
    BY <2>3 DEF vars, config, IInv, TypeOK, Accounts, WholeFramesPopped, ExtraFrameFits, Whole
  <2> QED
    BY <2>1, <2>2, <2>3 DEF Next
<1> QED
  BY InitHolds, <1>1, PTL DEF Spec

\* The cycle arithmetic stays in its types: less than a frame is ever owed.
THEOREM TypeCorrect == Spec => []TypeOK
<1>1. IInv => TypeOK
  BY DEF IInv
<1> QED
  BY <1>1, InvariantHolds, PTL

\* What is owed is what is missing, less than a frame.
LEMMA InvariantAverage == IInv => AverageKept
<1> SUFFICES ASSUME IInv, bpf > 0
             PROVE  given <= cycles * intended /\ cycles * intended < given + bpf
  BY DEF AverageKept
<1> DEFINE asked == cycles * intended
<1>1. acc + given = asked /\ acc \in 0..(bpf - 1) /\ given \in Nat /\ bpf \in Nat
  BY DEF IInv, TypeOK, Accounts
<1> HIDE DEF asked
<1>2. given <= asked /\ asked < given + bpf
  BY <1>1, SMT
<1> QED
  BY <1>2 DEF asked

\* After any number of cycles of any size, the bytes given fall short of the
\* bytes the SDK asked for by less than one frame.
THEOREM AverageHolds == Spec => []AverageKept
BY InvariantAverage, InvariantHolds, PTL

\* Every cycle is whole frames, and fits the buffer allocated for it.
THEOREM CyclesFit == Spec => [](WholeFramesPopped /\ ExtraFrameFits)
<1>1. IInv => WholeFramesPopped /\ ExtraFrameFits
  BY DEF IInv
<1> QED
  BY <1>1, InvariantHolds, PTL
=============================================================================
