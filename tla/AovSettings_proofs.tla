-------------------------- MODULE AovSettings_proofs ---------------------------
(***************************************************************************)
(* Proofs about AovSettings, for every hardware a description can give and *)
(* all arguments: SetAllSettings sets what was meant or nothing, and handle *)
(* and analyzer agree on the input and, after a trace, on all.             *)
(***************************************************************************)
EXTENDS AovSettings, TLAPS

(***************************************************************************)
(* Bytes.                                                                  *)
(***************************************************************************)

\* A number in the range of a char is stored in one as it is.
LEMMA CharKeeps == ASSUME NEW x \in -128..127 PROVE Char(x) = x
  BY DEF Char

\* A char that goes through the wire's unsigned byte comes out the same.
LEMMA CharOfByte == ASSUME NEW x \in -128..127 PROVE Char(Byte(x)) = x
  BY DEF Char, Byte

\* Input numbers survive the 9 that the wire adds, in their byte.
LEMMA InputSurvives ==
  ASSUME NEW i \in 1..6
  PROVE  ReadInput(SentInput(i)) = i /\ Byte(i + 9) - 9 = i
  BY DEF ReadInput, SentInput, Byte

LEMMA CharRange == ASSUME NEW x \in Int PROVE Char(x) \in -128..127
  BY DEF Char

LEMMA CharWraps == ASSUME NEW x \in -188..-129 PROVE Char(x) = x + 256
  BY DEF Char

\* Register's ranges hold chars.  Up to an offset of 118 what they let through
\* is what they would without the chars: from 59 on (79 without the 70 dB) the
\* lower end is positive, and they let nothing through.
LEMMA RangesHold ==
  ASSUME NEW h, IsHw(h), NEW i \in 1..h.inputs, NEW l \in Int, l \in Lowest(h, i)..Highest(h, i)
  PROVE  /\ l \in -128..127
         /\ h.old => l \in -70..-10
         /\ h.old \/ h.offset[i] <= 118
              => l + (IF h.old THEN 0 ELSE h.offset[i]) \in (IF h.db70[i] THEN -70 ELSE -50)..(-10)
  <1> DEFINE base == IF h.db70[i] THEN -70 ELSE -50
             lost == IF h.old THEN 0 ELSE h.offset[i]
  <1>1. /\ h.offset[i] \in 0..255 /\ h.db70[i] \in BOOLEAN /\ h.old \in BOOLEAN
        /\ base \in {-70, -50} /\ lost \in 0..255
    <2>1. h.offset[i] \in 0..255 /\ h.db70[i] \in BOOLEAN /\ h.old \in BOOLEAN
      BY DEF IsHw
    <2>2. base \in {-70, -50}
      OBVIOUS
    <2>3. lost \in 0..255
      BY <2>1
    <2> QED BY <2>1, <2>2, <2>3
  <1>2. Lowest(h, i) = Char(base - lost) /\ Highest(h, i) = Char(-10 - lost)
    BY DEF Lowest, Highest
  <1>3. h.old => lost = 0
    OBVIOUS
  <1>4. h.old \/ h.offset[i] <= 118 => lost <= 118
    BY <1>1
  <1> HIDE DEF base, lost
  <1>5. Char(base - lost) \in -128..127 /\ Char(-10 - lost) \in -128..127
    BY <1>1, CharRange
  <1>6. l \in -128..127
    BY <1>2, <1>5
  <1>7. lost <= 118 => l + lost \in base..(-10)
    <2> SUFFICES ASSUME lost <= 118 PROVE l + lost \in base..(-10)
      OBVIOUS
    <2>1. Char(-10 - lost) = -10 - lost /\ -10 - lost \in -128..-10
      BY <1>1, CharKeeps
    <2>2. CASE base - lost >= -128
      <3>1. Char(base - lost) = base - lost
        BY <1>1, <2>2, CharKeeps
      <3> QED BY <1>1, <1>2, <2>1, <3>1
    <2>3. CASE base - lost < -128
      <3>1. Char(base - lost) = base - lost + 256 /\ base - lost + 256 > 0
        BY <1>1, <2>3, CharWraps
      <3> QED BY <1>1, <1>2, <2>1, <3>1
    <2> QED BY <1>1, <2>2, <2>3
  <1>8. h.old => l \in -70..-10
    BY <1>1, <1>3, <1>7
  <1>9. (h.old \/ h.offset[i] <= 118) => l + lost \in base..(-10)
    BY <1>4, <1>7
  <1> QED BY <1>6, <1>8, <1>9 DEF base, lost

\* A level that is a char reaches the analyzer as it is; for old firmware, which
\* is sent its negative, those of the ranges do.
LEMMA LevelSurvives ==
  ASSUME hw.old \in BOOLEAN, NEW l \in -128..127, hw.old => l \in -70..-10
  PROVE  ReadLevel(SentLevel(l)) = l
  <1>1. CASE ~hw.old
    BY <1>1, CharKeeps, CharOfByte DEF ReadLevel, SentLevel
  <1>2. CASE hw.old
    <2>1. l \in -70..-10 /\ -l \in -128..127
      BY <1>2
    <2>2. Char(l) = l
      BY <2>1, CharKeeps
    <2>3. Char(-l) = -l /\ Char(Byte(-l)) = -l
      BY <2>1, CharKeeps, CharOfByte
    <2> QED BY <1>2, <2>1, <2>2, <2>3 DEF ReadLevel, SentLevel
  <1> QED BY <1>1, <1>2

(***************************************************************************)
(* Settings.                                                               *)
(***************************************************************************)

Device ==
  [cf : Int, sp : Int, level : Int, rbw : Rbw, input : Int, lnb : SUBSET {"on", "18V", "22kHz"}]

LEMMA SentLnbType == \A l \in Lnb : SentLnb(l) \in SUBSET {"on", "18V", "22kHz"}
  BY DEF SentLnb

LEMMA SentLnbAloneType == \A l \in Lnb : SentLnbAlone(l) \in SUBSET {"on", "18V", "22kHz"}
  BY DEF SentLnbAlone

\* The settings of the specification are settings of a device.
LEMMA SettingsType == Settings \subseteq Device
  <1> SUFFICES ASSUME NEW d \in Settings PROVE d \in Device
    OBVIOUS
  <1> DEFINE L == {SentLnb(l) : l \in Lnb}
             F == {f.units : f \in Freq} \cup Overflowed
             X == {x.units : x \in {y \in Span : SpanOK(y)}}
  <1>1. /\ L \subseteq SUBSET {"on", "18V", "22kHz"}
        /\ F \subseteq Int /\ X \subseteq Int
    <2>1. L \subseteq SUBSET {"on", "18V", "22kHz"}
      BY SentLnbType
    <2>2. /\ \A f \in Freq : f.units \in Int
          /\ \A x \in Span : x.units \in Int
          /\ Overflowed \subseteq Int
      BY ArgumentAssumption DEF Hz
    <2>3. F \subseteq Int
      BY <2>2
    <2>4. X \subseteq Int
      BY <2>2
    <2> QED BY <2>1, <2>3, <2>4
  <1>2. d \in [cf : F, sp : X, level : Level, rbw : Rbw, input : Input, lnb : L]
    BY DEF Settings
  <1> HIDE DEF L, F, X
  <1>3. d.lnb \in L /\ d.cf \in F /\ d.sp \in X /\ d.level \in Level /\ d.rbw \in Rbw
        /\ d.input \in Input
        /\ d = [cf |-> d.cf, sp |-> d.sp, level |-> d.level, rbw |-> d.rbw, input |-> d.input,
                lnb |-> d.lnb]
    BY <1>2
  <1>4. d.lnb \in SUBSET {"on", "18V", "22kHz"} /\ d.cf \in Int /\ d.sp \in Int
        /\ d.level \in Int /\ d.input \in Int
    BY <1>1, <1>3, ArgumentAssumption
  <1> QED BY <1>3, <1>4 DEF Device

\* Settings the analyzer has a mode for are in the bounds of the bytes.
LEMMA TakenInBounds ==
  ASSUME IsHw(hw), NEW d \in Device, Takes(hw, d)
  PROVE  /\ d.input \in 1..hw.inputs /\ d.input \in 1..6
         /\ d.level \in -128..127
         /\ hw.old => d.level \in -70..-10
  <1>1. d.input \in 1..hw.inputs /\ hw.inputs \in 1..6 /\ d.level \in -128..127
    BY DEF Takes, IsHw
  <1>2. hw.db70[d.input] \in BOOLEAN
    BY <1>1 DEF IsHw
  <1>3. d.level + (IF hw.old THEN 0 ELSE hw.offset[d.input])
          \in (IF hw.db70[d.input] THEN -70 ELSE -50)..(-10)
    BY DEF Takes
  <1>4. hw.old => d.level + 0 \in -70..-10
    BY <1>2, <1>3
  <1> QED BY <1>1, <1>4

\* A trace of such settings leaves them in the cache as they are.
LEMMA TakenCached ==
  ASSUME IsHw(hw), NEW d \in Device, Takes(hw, d)
  PROVE  Cached(hw, d) = d
  <1>1. d.input \in 1..6 /\ d.level \in -128..127 /\ (hw.old => d.level \in -70..-10)
    BY TakenInBounds
  <1>2. Byte(d.input + 9) - 9 = d.input
    BY <1>1, InputSurvives
  <1> DEFINE sent == Byte(IF hw.old THEN -d.level ELSE d.level)
             level == IF hw.old THEN Char(-Char(sent)) ELSE Char(sent)
  <1>3. level = d.level
    <2>1. CASE hw.old
      <3>1. -d.level \in -128..127 /\ -(-d.level) = d.level /\ d.level \in -128..127
        BY <1>1, <2>1
      <3>2. Char(Byte(-d.level)) = -d.level
        BY <3>1, CharOfByte
      <3>3. Char(-(-d.level)) = d.level
        BY <3>1, CharKeeps
      <3> QED BY <2>1, <3>2, <3>3
    <2>2. CASE ~hw.old
      BY <1>1, <2>2, CharOfByte
    <2> QED BY <2>1, <2>2
  <1>4. Cached(hw, d) = [d EXCEPT !.level = level, !.input = d.input]
    BY <1>2 DEF Cached
  <1> HIDE DEF level, sent
  <1> QED BY <1>3, <1>4 DEF Device

\* The arguments of a SetAllSettings, what the caller means by them, and what
\* the analyzer understands once they are converted to cf and sp.
Asked ==
  [cf : Hz, sp : Hz, level : Int, rbw : Rbw, input : Int, lnb : SUBSET {"on", "18V", "22kHz"}]

MeantBy(a) == [a EXCEPT !.cf = Meant(@), !.sp = Meant(@)]

Understood(a, cf, sp) ==
  [a EXCEPT !.cf = cf, !.sp = sp,
            !.level = ReadLevel(SentLevel(@)), !.input = ReadInput(SentInput(@))]

\* The ranges of the input hold what they should, or nothing.
RangeSound(i) == hw.old \/ hw.offset[i] <= 118

LEMMA SpanLimitType == SpanLimit \in Nat
  BY SMT DEF SpanLimit

\* What the tests of SetAllSettings let through is understood as it was meant,
\* and the analyzer has a mode for it if it has the frequency and the range of
\* the input is sound.
LEMMA AcceptedArrives ==
  ASSUME IsHw(hw), NEW a \in Asked, Refusal(a) = "none",
         NEW cf \in Converted(a.cf), NEW sp \in Converted(a.sp)
  PROVE  /\ Understood(a, cf, sp) \in Device
         /\ Understood(a, cf, sp).input = a.input /\ a.input \in 1..hw.inputs
         /\ MeantBy(a).input = a.input
         /\ MeantBy(a).cf # Beyond => Understood(a, cf, sp) = MeantBy(a)
         /\ MeantBy(a).cf # Beyond /\ MeantBy(a).cf <= hw.fmax /\ RangeSound(a.input)
              => Takes(hw, Understood(a, cf, sp))
  <1>1. /\ ~TooLow(a.cf)
        /\ SpanOK(a.sp)
        /\ a.input \in 1..hw.inputs
        /\ a.rbw \in hw.rbws
        /\ a.level \in Lowest(hw, a.input)..Highest(hw, a.input)
    BY DEF Refusal, InputOK
  <1>2. /\ hw.inputs \in 1..6 /\ hw.old \in BOOLEAN /\ hw.fmin \in Nat /\ hw.fmax \in Nat
        /\ a.cf \in Hz /\ a.sp \in Hz /\ a.level \in Int /\ a.input \in Int
    BY DEF IsHw, Asked
  <1>3. /\ a.level \in -128..127
        /\ hw.old => a.level \in -70..-10
        /\ RangeSound(a.input)
             => a.level + (IF hw.old THEN 0 ELSE hw.offset[a.input])
                  \in (IF hw.db70[a.input] THEN -70 ELSE -50)..(-10)
    BY <1>1, <1>2, RangesHold DEF RangeSound
  <1>4. ReadLevel(SentLevel(a.level)) = a.level
    BY <1>2, <1>3, LevelSurvives
  <1>5. ReadInput(SentInput(a.input)) = a.input
    BY <1>1, <1>2, InputSurvives
  <1>6. sp = a.sp.units /\ Meant(a.sp) = sp /\ sp \in 0..SpanLimit
    <2> QED BY <1>1, <1>2, SpanLimitType DEF SpanOK, Converted, Meant, Hz
  <1>7. cf \in Int
    BY <1>2, ArgumentAssumption DEF Converted, Hz
  <1>8. Understood(a, cf, sp) = [a EXCEPT !.cf = cf, !.sp = sp]
    BY <1>4, <1>5 DEF Understood, Asked
  <1>9. /\ Understood(a, cf, sp) \in Device /\ Understood(a, cf, sp).input = a.input
        /\ MeantBy(a).input = a.input /\ MeantBy(a).cf = Meant(a.cf)
    <2>1. /\ [a EXCEPT !.cf = cf, !.sp = sp] \in Device
          /\ [a EXCEPT !.cf = cf, !.sp = sp].input = a.input
      <3>1. sp \in Int
        BY <1>6, SpanLimitType
      <3>2. [a EXCEPT !.cf = cf] \in
              [cf : Int, sp : Hz, level : Int, rbw : Rbw, input : Int,
               lnb : SUBSET {"on", "18V", "22kHz"}]
        BY <1>7 DEF Asked
      <3>3. [a EXCEPT !.cf = cf, !.sp = sp] = [[a EXCEPT !.cf = cf] EXCEPT !.sp = sp]
        OBVIOUS
      <3>4. [[a EXCEPT !.cf = cf] EXCEPT !.sp = sp] \in Device
        BY <3>1, <3>2 DEF Device
      <3>5. [a EXCEPT !.cf = cf, !.sp = sp].input = a.input
        BY DEF Asked
      <3> QED BY <3>3, <3>4, <3>5
    <2>2. MeantBy(a).input = a.input /\ MeantBy(a).cf = Meant(a.cf)
      BY DEF MeantBy, Asked
    <2> QED BY <1>8, <2>1, <2>2
  <1>10. ASSUME Meant(a.cf) # Beyond
         PROVE  cf = Meant(a.cf) /\ cf = a.cf.units /\ cf >= hw.fmin
    BY <1>1, <1>2, <1>10 DEF Meant, Converted, TooLow, Hz
  <1>11. Meant(a.cf) # Beyond => Understood(a, cf, sp) = MeantBy(a)
    BY <1>6, <1>8, <1>10 DEF MeantBy, Asked
  <1>12. ASSUME Meant(a.cf) # Beyond, Meant(a.cf) <= hw.fmax, RangeSound(a.input)
         PROVE  Takes(hw, Understood(a, cf, sp))
    <2> DEFINE u == Understood(a, cf, sp)
    <2>1. /\ u.cf = cf /\ u.sp = sp /\ u.level = a.level /\ u.input = a.input /\ u.rbw = a.rbw
      BY <1>8 DEF Asked
    <2>2. cf \in hw.fmin..hw.fmax
      BY <1>2, <1>7, <1>10, <1>12
    <2> HIDE DEF u
    <2>3. Takes(hw, u)
      BY <1>1, <1>3, <1>6, <1>12, <2>1, <2>2 DEF Takes
    <2> QED BY <2>3 DEF u
  <1> QED BY <1>1, <1>9, <1>11, <1>12

(***************************************************************************)
(* The invariant.                                                          *)
(***************************************************************************)

IInv ==
  /\ hw \in Hw
  /\ dev \in Device /\ Takes(hw, dev)
  /\ cache \in Device /\ cache.input \in 1..hw.inputs /\ cache.level \in -128..127
  /\ inStep \in BOOLEAN /\ fresh \in BOOLEAN
  /\ InputCached

\* What a step may leave of it: the analyzer is in settings it has a mode for.
Sound ==
  /\ hw' = hw
  /\ dev' \in Device /\ Takes(hw', dev')
  /\ inStep' \in BOOLEAN /\ fresh' \in BOOLEAN

LEMMA HwHolds == IInv => IsHw(hw)
  BY HwAssumption DEF IInv

LEMMA InitIInv == Init => IInv
  <1> SUFFICES ASSUME Init PROVE IInv
    OBVIOUS
  <1>1. IsHw(hw)
    BY HwAssumption DEF Init
  <1>2. dev \in Device /\ Takes(hw, dev)
    BY SettingsType DEF Init
  <1>3. cache = dev
    BY <1>1, <1>2, TakenCached DEF Init
  <1>4. dev.input \in 1..hw.inputs /\ dev.level \in -128..127
    BY <1>1, <1>2, TakenInBounds
  <1> QED BY <1>2, <1>3, <1>4 DEF Init, IInv, InputCached

\* The result of a call bears its name.
LEMMA NotSentNamed == \A op, res : NotSent(op, res) => ret'.op = op
  BY DEF NotSent, Returns

LEMMA AcknowledgedNamed == \A op, meant, new : Acknowledged(op, meant, new) => ret'.op = op
  <1> SUFFICES ASSUME NEW op, NEW meant, NEW new, Acknowledged(op, meant, new) PROVE ret'.op = op
    OBVIOUS
  <1>1. \E res, x : Returns(op, res, x)
    BY DEF Acknowledged
  <1> QED BY <1>1 DEF Returns

LEMMA SendsNamed == \A op, meant, new : Sends(op, meant, new) => ret'.op = op
  BY NotSentNamed, AcknowledgedNamed DEF Sends

LEMMA NotSentSound ==
  ASSUME IInv, NEW op, NEW res, NotSent(op, res)
  PROVE  Sound /\ IInv'
  BY DEF NotSent, IInv, Sound, InputCached

\* An exchange leaves the analyzer with the old settings or the new ones, and
\* the handle still in agreement only if it was answered in step.
LEMMA AcknowledgedSound ==
  ASSUME IInv, NEW op, NEW meant, NEW new \in Device, Acknowledged(op, meant, new)
  PROVE  /\ Sound
         /\ dev' \in {dev, new}
         /\ fresh' => fresh /\ ret'.res \in {"NO_ERROR", "DEVICE_ERROR"}
                      /\ dev' = (IF ret'.res = "NO_ERROR" THEN new ELSE dev)
  <1>1. hw' = hw
    BY DEF Acknowledged
  <1>2. CASE inStep /\ Takes(hw, new) /\ dev' = new /\ inStep' = inStep /\ fresh' = fresh
             /\ Returns(op, "NO_ERROR", meant)
    BY <1>1, <1>2 DEF Returns, IInv, Sound
  <1>3. CASE inStep /\ ~Takes(hw, new) /\ dev' = dev /\ inStep' = inStep /\ fresh' = fresh
             /\ Returns(op, "DEVICE_ERROR", meant)
    BY <1>1, <1>3 DEF Returns, IInv, Sound
  <1>4. CASE dev' \in {dev} \cup {d \in {new} : Takes(hw, d)} /\ inStep' = FALSE /\ fresh' = FALSE
    BY <1>1, <1>4 DEF IInv, Sound
  <1> QED BY <1>2, <1>3, <1>4 DEF Acknowledged

\* A setting that leaves the analyzer's input and the cache alone keeps the
\* invariant.
LEMMA SendsSound ==
  ASSUME IInv, NEW op, NEW meant, NEW new \in Device, new.input = dev.input,
         Sends(op, meant, new)
  PROVE  IInv'
  <1>1. CASE NotSent(op, "SEND_FAILED")
    BY <1>1, NotSentSound
  <1>2. CASE Acknowledged(op, meant, new) /\ UNCHANGED cache
    <2>1. Sound /\ dev' \in {dev, new} /\ (fresh' => fresh)
      BY <1>2, AcknowledgedSound
    <2> QED BY <1>2, <2>1 DEF IInv, Sound, InputCached
  <1> QED BY <1>1, <1>2 DEF Sends

(***************************************************************************)
(* The calls, one by one.                                                  *)
(***************************************************************************)

LEMMA ArgumentTypes ==
  /\ \A f \in Freq : f \in Hz /\ Converted(f) \subseteq Int
  /\ \A x \in Span : x \in Hz /\ Converted(x) \subseteq Int
  /\ \A l \in Level : l \in Int
  /\ \A i \in Input : i \in Int
  <1>1. \A f \in Freq \cup Span : f \in Hz
    BY ArgumentAssumption
  <1>2. \A f \in Hz : Converted(f) \subseteq Int
    <2> SUFFICES ASSUME NEW f \in Hz PROVE Converted(f) \subseteq Int
      OBVIOUS
    <2>1. f.units \in Int
      BY DEF Hz
    <2>2. Overflowed \subseteq Int
      BY ArgumentAssumption
    <2> QED BY <2>1, <2>2 DEF Converted
  <1>3. (\A l \in Level : l \in Int) /\ (\A i \in Input : i \in Int)
    BY ArgumentAssumption
  <1> QED BY <1>1, <1>2, <1>3

LEMMA SetCenterFrequencyStep ==
  ASSUME IInv, NEW f \in Freq, SetCenterFrequency(f)
  PROVE  IInv' /\ ret'.op = "SetCenterFrequency"
  <1>1. CASE NotSent("SetCenterFrequency", "INVALID_CFREQ")
    BY <1>1, NotSentSound, NotSentNamed
  <1>2. ASSUME NEW cf \in Converted(f),
               Sends("SetCenterFrequency", [dev EXCEPT !.cf = Meant(f)], [dev EXCEPT !.cf = cf])
        PROVE  IInv' /\ ret'.op = "SetCenterFrequency"
    <2> DEFINE new == [dev EXCEPT !.cf = cf]
               meant == [dev EXCEPT !.cf = Meant(f)]
    <2>1. new \in Device /\ new.input = dev.input
      BY ArgumentTypes DEF IInv, Device
    <2>2. Sends("SetCenterFrequency", meant, new)
      BY <1>2
    <2> HIDE DEF new, meant
    <2> QED BY <2>1, <2>2, SendsSound, SendsNamed
  <1> QED BY <1>1, <1>2 DEF SetCenterFrequency

LEMMA SetSpanStep ==
  ASSUME IInv, NEW x \in Span, SetSpan(x)
  PROVE  IInv' /\ ret'.op = "SetSpan"
  <1>1. CASE NotSent("SetSpan", "INVALID_SPAN")
    BY <1>1, NotSentSound, NotSentNamed
  <1>2. ASSUME NEW sp \in Converted(x),
               Sends("SetSpan", [dev EXCEPT !.sp = Meant(x)], [dev EXCEPT !.sp = sp])
        PROVE  IInv' /\ ret'.op = "SetSpan"
    <2> DEFINE new == [dev EXCEPT !.sp = sp]
               meant == [dev EXCEPT !.sp = Meant(x)]
    <2>1. new \in Device /\ new.input = dev.input
      BY ArgumentTypes DEF IInv, Device
    <2>2. Sends("SetSpan", meant, new)
      BY <1>2
    <2> HIDE DEF new, meant
    <2> QED BY <2>1, <2>2, SendsSound, SendsNamed
  <1> QED BY <1>1, <1>2 DEF SetSpan

\* Any int may be passed: what the analyzer reads of it is a level.
LEMMA SetRefLevelStep ==
  ASSUME IInv, NEW l \in Level, SetRefLevel(l)
  PROVE  IInv'
  <1> DEFINE meant == [dev EXCEPT !.level = l]
             new == [dev EXCEPT !.level = ReadLevel(SentRefLevel(l))]
  <1>1. ReadLevel(SentRefLevel(l)) \in Int
    BY ArgumentTypes DEF ReadLevel, SentRefLevel, Char, Byte
  <1>2. new \in Device /\ new.input = dev.input
    BY <1>1 DEF IInv, Device
  <1> HIDE DEF new, meant
  <1>3. Sends("SetRefLevel", meant, new)
    BY DEF SetRefLevel, new, meant
  <1> QED BY <1>2, <1>3, SendsSound

LEMMA SetResBandwidthStep ==
  ASSUME IInv, NEW r \in Rbw, SetResBandwidth(r)
  PROVE  IInv'
  <1> DEFINE new == [dev EXCEPT !.rbw = r]
  <1>1. new \in Device /\ new.input = dev.input
    BY DEF IInv, Device
  <1> HIDE DEF new
  <1>2. NotSent("SetResBandwidth", "INVALID_RBW") \/ Sends("SetResBandwidth", new, new)
    BY DEF SetResBandwidth, new
  <1> QED BY <1>1, <1>2, NotSentSound, SendsSound

LEMMA SetLNBStep ==
  ASSUME IInv, NEW l \in Lnb, SetLNB(l)
  PROVE  IInv'
  <1> DEFINE meant == [dev EXCEPT !.lnb = SentLnb(l)]
             new == [dev EXCEPT !.lnb = SentLnbAlone(l)]
  <1>1. new \in Device /\ new.input = dev.input
    BY SentLnbAloneType DEF IInv, Device
  <1> HIDE DEF new, meant
  <1>2. NotSent("SetLNB", "INVALID_RF") \/ Sends("SetLNB", meant, new)
    BY DEF SetLNB, new, meant
  <1> QED BY <1>1, <1>2, NotSentSound, SendsSound

\* The input goes into the cache exactly when it has gone into the analyzer.
LEMMA SetInputStep ==
  ASSUME IInv, NEW i \in Input, NEW flags, SetInput(i, flags)
  PROVE  IInv'
  <1>1. PICK d \in Recalled(i) \cup {[dev EXCEPT !.input = i]} :
          IF ~InputOK(i) THEN NotSent("SetInput", "INVALID_RF")
          ELSE \/ NotSent("SetInput", "SEND_FAILED")
               \/ /\ Acknowledged("SetInput", d, [d EXCEPT !.input = ReadInput(SentInput(i))])
                  /\ cache' = IF ret'.res = "NO_ERROR" THEN [cache EXCEPT !.input = i] ELSE cache
    BY DEF SetInput
  <1>2. d \in Device /\ d.input = i
    BY SettingsType, ArgumentTypes DEF IInv, Device, Recalled
  <1>3. CASE NotSent("SetInput", "INVALID_RF") \/ NotSent("SetInput", "SEND_FAILED")
    BY <1>3, NotSentSound
  <1>4. CASE /\ InputOK(i)
             /\ Acknowledged("SetInput", d, [d EXCEPT !.input = ReadInput(SentInput(i))])
             /\ cache' = IF ret'.res = "NO_ERROR" THEN [cache EXCEPT !.input = i] ELSE cache
    <2>1. i \in 1..hw.inputs /\ i \in 1..6
      BY <1>4, HwHolds DEF InputOK, IsHw
    <2>2. [d EXCEPT !.input = ReadInput(SentInput(i))] = d
      BY <1>2, <2>1, InputSurvives DEF Device
    <2>3. Acknowledged("SetInput", d, d)
      BY <1>4, <2>2
    <2>4. /\ Sound
          /\ fresh' => fresh /\ ret'.res \in {"NO_ERROR", "DEVICE_ERROR"}
                       /\ dev' = (IF ret'.res = "NO_ERROR" THEN d ELSE dev)
      BY <1>2, <2>3, AcknowledgedSound
    <2>5. cache' \in Device /\ cache'.input \in 1..hw.inputs /\ cache'.level \in -128..127
      BY <1>4, <2>1 DEF IInv, Device
    <2>6. fresh' => cache'.input = dev'.input
      BY <1>2, <1>4, <2>4 DEF IInv, Device, InputCached
    <2> QED BY <2>4, <2>5, <2>6 DEF IInv, Sound, InputCached
  <1> QED BY <1>1, <1>3, <1>4

LEMMA SetAllSettingsStep ==
  ASSUME IInv, NEW a \in Asked, SetAllSettings(a)
  PROVE  /\ IInv'
         /\ ret'.op = "SetAllSettings"
         /\ AllOrNothing
  <1>1. IsHw(hw)
    BY HwHolds
  <1>2. CASE Refusal(a) # "none"
    <2>1. NotSent("SetAllSettings", Refusal(a)) /\ Refusal(a) # "NO_ERROR"
      BY <1>2 DEF SetAllSettings, Refusal
    <2> QED BY <2>1, NotSentSound DEF NotSent, Returns, AllOrNothing
  <1>3. CASE Refusal(a) = "none"
    <2> DEFINE meant == MeantBy(a)
    <2>1. PICK cf \in Converted(a.cf), sp \in Converted(a.sp) :
            LET new == Understood(a, cf, sp)
                after == IF Takes(hw, new) THEN new ELSE dev
            IN  \/ NotSent("SetAllSettings", "SEND_FAILED")
                \/ /\ Returns("SetAllSettings", "SEND_FAILED", dev)
                   /\ dev' = after
                   /\ fresh' = FALSE
                   /\ UNCHANGED <<hw, cache, inStep>>
                \/ /\ Returns("SetAllSettings", "WSA_ERROR", dev)
                   /\ dev' \in {dev, after}
                   /\ inStep' = FALSE
                   /\ fresh' = FALSE
                   /\ UNCHANGED <<hw, cache>>
                \/ /\ Returns("SetAllSettings", "NO_ERROR", meant)
                   /\ dev' \in IF inStep THEN {after} ELSE {dev, after}
                   /\ cache' = [cache EXCEPT !.input = a.input]
                   /\ fresh' = (fresh /\ inStep /\ Takes(hw, new))
                   /\ UNCHANGED <<hw, inStep>>
      BY <1>3 DEF SetAllSettings, Understood, MeantBy
    <2> DEFINE new == Understood(a, cf, sp)
               after == IF Takes(hw, new) THEN new ELSE dev
    <2>2. /\ new \in Device /\ new.input = a.input /\ a.input \in 1..hw.inputs
          /\ meant.input = a.input
          /\ meant.cf # Beyond => new = meant
          /\ meant.cf # Beyond /\ meant.cf <= hw.fmax /\ RangeSound(a.input) => Takes(hw, new)
      BY <1>1, <1>3, AcceptedArrives
    <2>3. after \in Device /\ Takes(hw, after) /\ (Takes(hw, new) => after = new)
          /\ after \in {dev, new}
      BY <2>2 DEF IInv
    <2> HIDE DEF new, after, meant
    <2>4. CASE NotSent("SetAllSettings", "SEND_FAILED")
      BY <2>4, NotSentSound DEF NotSent, Returns, AllOrNothing
    <2>5. CASE /\ Returns("SetAllSettings", "SEND_FAILED", dev)
               /\ dev' = after
               /\ fresh' = FALSE
               /\ UNCHANGED <<hw, cache, inStep>>
      BY <2>3, <2>5 DEF IInv, InputCached, Returns, AllOrNothing
    <2>6. CASE /\ Returns("SetAllSettings", "WSA_ERROR", dev)
               /\ dev' \in {dev, after}
               /\ inStep' = FALSE
               /\ fresh' = FALSE
               /\ UNCHANGED <<hw, cache>>
      BY <2>3, <2>6 DEF IInv, InputCached, Returns, AllOrNothing
    <2>7. CASE /\ Returns("SetAllSettings", "NO_ERROR", meant)
               /\ dev' \in IF inStep THEN {after} ELSE {dev, after}
               /\ cache' = [cache EXCEPT !.input = a.input]
               /\ fresh' = (fresh /\ inStep /\ Takes(hw, new))
               /\ UNCHANGED <<hw, inStep>>
      <3>1. a.input \in Int
        BY DEF Asked
      <3>2. cache' \in Device /\ cache'.input = a.input /\ cache'.level = cache.level
        BY <2>7, <3>1 DEF IInv, Device
      <3>3. dev' \in Device /\ Takes(hw, dev') /\ (inStep => dev' = after)
        BY <2>3, <2>7 DEF IInv
      <3>4. fresh' => cache'.input = dev'.input
        BY <2>2, <2>3, <2>7, <3>2, <3>3
      <3>5. fresh' \in BOOLEAN
        BY <2>7, Zenon
      <3>6. IInv'
        BY <2>2, <2>7, <3>2, <3>3, <3>4, <3>5 DEF IInv, InputCached
      <3>7. ret'.op = "SetAllSettings" /\ ret'.meant = meant
        BY <2>7 DEF Returns
      <3>8. ASSUME inStep, meant.cf # Beyond
            PROVE  /\ dev' \in {dev, meant}
                   /\ meant.cf <= hw.fmax /\ RangeSound(meant.input) => dev' = meant
        BY <2>2, <2>3, <3>3, <3>8
      <3>9. AllOrNothing
        BY <3>7, <3>8 DEF AllOrNothing, RangeSound
      <3> QED BY <3>6, <3>7, <3>9
    <2> QED BY <2>1, <2>4, <2>5, <2>6, <2>7 DEF new, after
  <1> QED BY <1>2, <1>3

\* A trace in step makes the cache what the analyzer is set to.
LEMMA GetSpectrumDataStep ==
  ASSUME IInv, GetSpectrumData
  PROVE  /\ IInv'
         /\ ret'.res = "NO_ERROR" /\ inStep' => cache' = dev'
  <1>1. IsHw(hw)
    BY HwHolds
  <1>2. CASE NotSent("GetSpectrumData", "SEND_FAILED")
    BY <1>2, NotSentSound DEF NotSent, Returns
  <1>3. CASE /\ Returns("GetSpectrumData", "WSA_ERROR", dev)
             /\ inStep' = FALSE
             /\ fresh' = FALSE
             /\ UNCHANGED <<hw, dev, cache>>
    BY <1>3 DEF IInv, InputCached, Returns
  <1>4. CASE /\ Returns("GetSpectrumData", "NO_ERROR", dev)
             /\ IF inStep THEN cache' = Cached(hw, dev)
                ELSE cache' \in {cache} \cup {Cached(hw, d) : d \in {e \in Settings : Takes(hw, e)}}
             /\ fresh' = inStep
             /\ UNCHANGED <<hw, dev, inStep>>
    <2>1. \E d \in Device : Takes(hw, d) /\ cache' \in {cache, d} /\ (inStep => d = dev /\ cache' = dev)
      <3>1. CASE inStep
        BY <1>1, <1>4, <3>1, TakenCached DEF IInv
      <3>2. CASE ~inStep /\ cache' = cache
        BY <3>2 DEF IInv
      <3>3. CASE ~inStep /\ \E e \in Settings : Takes(hw, e) /\ cache' = Cached(hw, e)
        BY <1>1, <3>3, TakenCached, SettingsType
      <3> QED BY <1>4, <3>1, <3>2, <3>3
    <2>2. PICK d \in Device : Takes(hw, d) /\ cache' \in {cache, d} /\ (inStep => d = dev /\ cache' = dev)
      BY <2>1
    <2>3. d.input \in 1..hw.inputs /\ d.level \in -128..127
      BY <1>1, <2>2, TakenInBounds
    <2> QED BY <1>4, <2>2, <2>3 DEF IInv, InputCached
  <1> QED BY <1>2, <1>3, <1>4 DEF GetSpectrumData

LEMMA ReconnectStep ==
  ASSUME IInv, Reconnect
  PROVE  IInv'
  BY DEF Reconnect, IInv, InputCached

\* What a caller of SetAllSettings passes.
LEMMA AskedType ==
  ASSUME NEW f \in Freq, NEW x \in Span, NEW l \in Level, NEW r \in Rbw, NEW i \in Input, NEW p \in Lnb
  PROVE  [cf |-> f, sp |-> x, level |-> l, rbw |-> r, input |-> i, lnb |-> SentLnb(p)] \in Asked
  BY ArgumentTypes, SentLnbType DEF Asked

\* Every step keeps the invariant and makes the two properties of its result.
LEMMA NextStep ==
  ASSUME IInv, [Next]_vars, TraceShowsAnalyzer
  PROVE  IInv' /\ [AllOrNothing]_vars /\ TraceShowsAnalyzer'
  <1>1. ASSUME NEW f \in Freq, SetCenterFrequency(f)
        PROVE  IInv' /\ ret'.op = "SetCenterFrequency"
    BY <1>1, SetCenterFrequencyStep
  <1>2. ASSUME NEW x \in Span, SetSpan(x)
        PROVE  IInv' /\ ret'.op = "SetSpan"
    BY <1>2, SetSpanStep
  <1>3. ASSUME NEW l \in Level, SetRefLevel(l)
        PROVE  IInv' /\ ret'.op = "SetRefLevel"
    BY <1>3, SetRefLevelStep, NotSentNamed, SendsNamed DEF SetRefLevel
  <1>4. ASSUME NEW r \in Rbw, SetResBandwidth(r)
        PROVE  IInv' /\ ret'.op = "SetResBandwidth"
    BY <1>4, SetResBandwidthStep, NotSentNamed, SendsNamed DEF SetResBandwidth
  <1>5. ASSUME NEW i \in Input, NEW flags, SetInput(i, flags)
        PROVE  IInv' /\ ret'.op = "SetInput"
    BY <1>5, SetInputStep, NotSentNamed, AcknowledgedNamed DEF SetInput
  <1>6. ASSUME NEW l \in Lnb, SetLNB(l)
        PROVE  IInv' /\ ret'.op = "SetLNB"
    BY <1>6, SetLNBStep, NotSentNamed, SendsNamed DEF SetLNB
  <1>7. ASSUME NEW a \in Asked, SetAllSettings(a)
        PROVE  IInv' /\ AllOrNothing /\ TraceShowsAnalyzer'
    BY <1>7, SetAllSettingsStep DEF TraceShowsAnalyzer
  <1>8. CASE GetSpectrumData
    <2>1. ret'.op = "GetSpectrumData"
      BY <1>8 DEF GetSpectrumData, NotSent, Returns
    <2> QED BY <1>8, <2>1, GetSpectrumDataStep DEF AllOrNothing, TraceShowsAnalyzer
  <1>9. CASE Reconnect
    BY <1>9, ReconnectStep DEF Reconnect, Returns, AllOrNothing, TraceShowsAnalyzer
  <1>10. CASE UNCHANGED vars
    BY <1>10 DEF vars, IInv, InputCached, TraceShowsAnalyzer
  <1>11. ret'.op \notin {"SetAllSettings", "GetSpectrumData"} => AllOrNothing /\ TraceShowsAnalyzer'
    BY DEF AllOrNothing, TraceShowsAnalyzer
  <1> QED BY <1>1, <1>2, <1>3, <1>4, <1>5, <1>6, <1>7, <1>8, <1>9, <1>10, <1>11, AskedType DEF Next

(***************************************************************************)
(* Theorems.                                                               *)
(***************************************************************************)

\* Whatever calls are made and fail, the invariant and the property of a trace
\* hold (c: AVCOM_SA_GetSpectrumData).
THEOREM Inductive == Spec => [](IInv /\ TraceShowsAnalyzer)
  <1>1. Init => IInv /\ TraceShowsAnalyzer
    BY InitIInv DEF Init, TraceShowsAnalyzer
  <1>2. IInv /\ TraceShowsAnalyzer /\ [Next]_vars => (IInv /\ TraceShowsAnalyzer)'
    BY NextStep
  <1> QED BY <1>1, <1>2, PTL DEF Spec

\* The handle's input is always one the analyzer has, its level a char.
THEOREM TypeCorrect == Spec => []TypeOK
  <1>1. IInv => TypeOK
    <2> SUFFICES ASSUME IInv PROVE TypeOK
      OBVIOUS
    <2>1. dev.input \in 1..hw.inputs /\ dev.level \in -128..127
      BY HwHolds, TakenInBounds DEF IInv
    <2> QED BY <2>1 DEF IInv, TypeOK
  <1> QED BY <1>1, Inductive, PTL

\* For every range, offset, firmware and argument: a SetAllSettings that
\* succeeds in step has set what was meant, down to the 100 Hz, or has changed
\* nothing; and it has set it if the analyzer has the frequency and the chars of
\* the range have not both wrapped.  A frequency too large for the conversion is
\* the one exception (c:625-761 with the ranges of c:533-546).
THEOREM AllSettingsArrive == Spec => AllSettingsAsMeant
  <1>1. IInv /\ TraceShowsAnalyzer /\ [Next]_vars => [AllOrNothing]_vars
    BY NextStep
  <1> QED BY <1>1, Inductive, PTL DEF Spec, AllSettingsAsMeant

\* After a trace read in step cur_settings is what the analyzer is set to
\* (c:219-276).
THEOREM TraceIsTrue == Spec => []TraceShowsAnalyzer
  BY Inductive, PTL

\* Until something fails, cur_settings.input is the analyzer's input (c:758,
\* c:1208, c:227).
THEOREM InputIsTrue == Spec => []InputCached
  <1>1. IInv => InputCached
    BY DEF IInv
  <1> QED BY <1>1, Inductive, PTL

=============================================================================
