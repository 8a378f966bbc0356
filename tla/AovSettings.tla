------------------------------ MODULE AovSettings ------------------------------
(***************************************************************************)
(* The settings of a registered analyzer (api/aovspecan.c): the arguments  *)
(* a call lets through, the bytes it sends for them, what the analyzer     *)
(* makes of those, and the copy the handle keeps in cur_settings.          *)
(*                                                                         *)
(* A call is one action: the exchange of its packets is AovSession.  While *)
(* request and reply are in step the result tells whether the analyzer     *)
(* took the setting; out of step, after a failed receive, it may be any.   *)
(*                                                                         *)
(* Frequencies and spans are in the 100 Hz units the wire carries; the     *)
(* double arguments in MHz lie between and beyond them.  hw is what        *)
(* Register has read from the analyzer's descriptions.                     *)
(***************************************************************************)
EXTENDS Integers

CONSTANTS
  Hw,      \* the hardware an analyzer may have
  Freq,    \* the center frequencies callers pass
  Span,    \* the spans callers pass
  Overflowed, \* what the conversion of a double that is too large may give
  Level,   \* the int reference levels callers pass
  Rbw,     \* the resolution bandwidths callers pass
  Input,   \* the int input numbers callers pass
  Lnb      \* the LNB powers callers pass: none, or structures of LNBstruct

Char(x) == ((x + 128) % 256) - 128      \* x stored in a char
Byte(x) == x % 256                      \* x stored in an unsigned char

\* LNB power as the caller passes it; a NULL pointer is read as not enabled.
NoLnb == [enable |-> FALSE, volt |-> 0, khz_22 |-> FALSE]
LNBstruct(en, is18, is22) == [enable |-> en, volt |-> IF is18 THEN 18 ELSE 13, khz_22 |-> is22]

\* A double argument, multiplied by 10000: its floor, whether there is nothing
\* behind the point, and whether it is too large for an unsigned int.  (A NaN is
\* not passed; the floor is that of the product the processor computes.)
Hz == [units : Int, exact : BOOLEAN, wide : BOOLEAN]

\* old: firmware before 3.00, which takes levels as positive numbers; offset:
\* what the description says is lost before each input, any byte.
IsHw(h) ==
  /\ h.old \in BOOLEAN
  /\ h.fmin \in Nat /\ h.fmax \in Nat
  /\ h.rbws \subseteq Rbw
  /\ h.inputs \in 1..6
  /\ h.db70 \in [1..h.inputs -> BOOLEAN]
  /\ h.offset \in [1..h.inputs -> 0..255]

ASSUME HwAssumption == \A h \in Hw : IsHw(h)
ASSUME ArgumentAssumption ==
  /\ Freq \subseteq Hz /\ Span \subseteq Hz /\ Overflowed \subseteq Nat
  /\ Level \subseteq Int /\ Input \subseteq Int
  /\ Lnb \subseteq {NoLnb} \cup {LNBstruct(en, v, k) : en, v, k \in BOOLEAN}

VARIABLES
  hw,      \* the hardware, as the handle describes it
  dev,     \* the analyzer's settings
  cache,   \* cur_settings of the handle
  inStep,  \* no receive has failed on this connection
  fresh,   \* history: nothing has failed since the cache was last filled
  ret      \* history: the last call, its result and, once answered, what it meant

vars == <<hw, dev, cache, inStep, fresh, ret>>

-----------------------------------------------------------------------------
(* Ranges and bytes *)

\* (unsigned int)(x * 10000) cuts off what is behind the point; it is undefined
\* for a product that is too large.
Converted(hz) == IF hz.wide THEN Overflowed ELSE {hz.units}

\* What the caller means, down to the unit: a frequency beyond the wire's is
\* none of them.
Beyond == -1
Meant(hz) == IF hz.wide THEN Beyond ELSE hz.units

TooLow(hz) == ~hz.wide /\ hz.units < hw.fmin

\* 0 to 1300 MHz; the comparison is made before the conversion.
SpanLimit == 13000000
SpanOK(hz) ==
  /\ ~hz.wide /\ hz.units >= 0
  /\ hz.units < SpanLimit \/ (hz.units = SpanLimit /\ hz.exact)

\* dbrange of an input, two chars that Register computes.  With an offset of 59
\* or more the lower one wraps to a positive number, from 119 on the upper one
\* does as well.
Lowest(h, i) ==
  Char((IF h.db70[i] THEN -70 ELSE -50) - (IF h.old THEN 0 ELSE h.offset[i]))
Highest(h, i) == Char(-10 - (IF h.old THEN 0 ELSE h.offset[i]))

\* Mutant: the level is sent alike to every firmware.
SentLevelUnturned(l) == Byte(Char(l))

\* The level byte of SetAllSettings, a char, and of SetRefLevel.
SentLevel(l) == Byte(IF hw.old THEN Char(-Char(l)) ELSE Char(l))
SentRefLevel(l) == Byte(Char(l))

\* The bits 0x04, 0x08 and 0x20 of the LNB byte of SetAllSettings, and of
\* SetLNB, which takes any voltage but 0 for 18.
SentLnb(l) ==
  IF ~l.enable THEN {}
  ELSE {"on"} \cup (IF l.volt = 18 THEN {"18V"} ELSE {}) \cup (IF l.khz_22 THEN {"22kHz"} ELSE {})
SentLnbAlone(l) ==
  IF ~l.enable THEN {}
  ELSE {"on"} \cup (IF l.volt # 0 THEN {"18V"} ELSE {}) \cup (IF l.khz_22 THEN {"22kHz"} ELSE {})

SentInput(i) == Byte(i + 9)

\* Mutant: the level is read alike from every firmware.
CachedUnturned(h, d) ==
  [d EXCEPT !.level = Char(Byte(IF h.old THEN -@ ELSE @)), !.input = Byte(@ + 9) - 9]

\* What a waveform packet of settings d leaves in cur_settings: the level byte
\* goes into a char and is turned for old firmware.
Cached(h, d) ==
  LET sent == Byte(IF h.old THEN -d.level ELSE d.level)
  IN  [d EXCEPT !.level = IF h.old THEN Char(-Char(sent)) ELSE Char(sent),
                !.input = Byte(@ + 9) - 9]

-----------------------------------------------------------------------------
(* The analyzer *)

\* What it makes of a level byte and of an input byte.
ReadLevel(b) == IF hw.old THEN -Char(b) ELSE Char(b)
ReadInput(b) == b - 9

\* The settings it has a mode for, by its own description, and can tell in the
\* bytes of a trace.
Takes(h, d) ==
  /\ d.cf \in h.fmin..h.fmax
  /\ d.sp \in 0..SpanLimit
  /\ d.input \in 1..h.inputs
  /\ d.rbw \in h.rbws
  /\ d.level \in -128..127
  /\ d.level + (IF h.old THEN 0 ELSE h.offset[d.input])
       \in (IF h.db70[d.input] THEN -70 ELSE -50)..(-10)

Settings ==
  [cf : {f.units : f \in Freq} \cup Overflowed,
   sp : {x.units : x \in {y \in Span : SpanOK(y)}},
   level : Level, rbw : Rbw, input : Input, lnb : {SentLnb(l) : l \in Lnb}]

\* The settings it may have kept for input i, and recalls when it is selected.
Recalled(i) == {d \in Settings : Takes(hw, d) /\ d.input = i /\ d.lnb = dev.lnb}

-----------------------------------------------------------------------------
(* The calls *)

Returns(op, res, meant) == ret' = [op |-> op, res |-> res, meant |-> meant]

Init ==
  /\ hw \in Hw
  /\ dev \in {d \in Settings : Takes(hw, d)}
  /\ cache = Cached(hw, dev)
  /\ inStep = TRUE
  /\ fresh = TRUE
  /\ ret = [op |-> "Register", res |-> "NO_ERROR", meant |-> dev]

\* A call returns before it has sent anything.
NotSent(op, res) ==
  /\ Returns(op, res, dev)
  /\ UNCHANGED <<hw, dev, cache, inStep, fresh>>

\* A setting is sent and its acknowledgement read; the caller means the
\* settings meant, and the analyzer understands new.
Acknowledged(op, meant, new) ==
  /\ \/ /\ inStep
        /\ dev' = IF Takes(hw, new) THEN new ELSE dev
        /\ Returns(op, IF Takes(hw, new) THEN "NO_ERROR" ELSE "DEVICE_ERROR", meant)
        /\ UNCHANGED <<inStep, fresh>>
     \/ /\ dev' \in {dev} \cup {d \in {new} : Takes(hw, d)}
        /\ inStep' = FALSE
        /\ fresh' = FALSE
        /\ \E res \in {"WSA_ERROR"} \cup (IF inStep THEN {} ELSE {"NO_ERROR", "DEVICE_ERROR"}) :
             Returns(op, res, dev)
  /\ UNCHANGED hw

Sends(op, meant, new) ==
  \/ NotSent(op, "SEND_FAILED")
  \/ Acknowledged(op, meant, new) /\ UNCHANGED cache

\* The upper limit is not tested.
SetCenterFrequency(f) ==
  IF TooLow(f) THEN NotSent("SetCenterFrequency", "INVALID_CFREQ")
  ELSE \E cf \in Converted(f) :
         Sends("SetCenterFrequency", [dev EXCEPT !.cf = Meant(f)], [dev EXCEPT !.cf = cf])

SetSpan(x) ==
  IF ~SpanOK(x) THEN NotSent("SetSpan", "INVALID_SPAN")
  ELSE \E sp \in Converted(x) :
         Sends("SetSpan", [dev EXCEPT !.sp = Meant(x)], [dev EXCEPT !.sp = sp])

\* Neither the range nor the firmware is looked at.
SetRefLevel(l) ==
  Sends("SetRefLevel", [dev EXCEPT !.level = l], [dev EXCEPT !.level = ReadLevel(SentRefLevel(l))])

SetResBandwidth(r) ==
  LET new == [dev EXCEPT !.rbw = r]
  IN  IF r \notin hw.rbws THEN NotSent("SetResBandwidth", "INVALID_RBW")
      ELSE Sends("SetResBandwidth", new, new)

InputOK(i) == i \in 1..hw.inputs

\* Mutant: the input is not cached.
SetInputUncached(i, flags) ==
  \E d \in IF flags = "AOV_DEFAULT" THEN Recalled(i) \cup {[dev EXCEPT !.input = i]}
           ELSE {[dev EXCEPT !.input = i]} :
    IF ~InputOK(i) THEN NotSent("SetInput", "INVALID_RF")
    ELSE Sends("SetInput", d, [d EXCEPT !.input = ReadInput(SentInput(i))])

\* The input is cached once it is acknowledged.
SetInput(i, flags) ==
  \E d \in IF flags = "AOV_DEFAULT" THEN Recalled(i) \cup {[dev EXCEPT !.input = i]}
           ELSE {[dev EXCEPT !.input = i]} :
    IF ~InputOK(i) THEN NotSent("SetInput", "INVALID_RF")
    ELSE \/ NotSent("SetInput", "SEND_FAILED")
         \/ /\ Acknowledged("SetInput", d, [d EXCEPT !.input = ReadInput(SentInput(i))])
            /\ cache' = IF ret'.res = "NO_ERROR" THEN [cache EXCEPT !.input = i] ELSE cache

\* The input tested is always the first one, whatever the settings are for.
SetLNB(l) ==
  IF ~InputOK(1) THEN NotSent("SetLNB", "INVALID_RF")
  ELSE Sends("SetLNB", [dev EXCEPT !.lnb = SentLnb(l)], [dev EXCEPT !.lnb = SentLnbAlone(l)])

\* Mutant: the input is not tested.
RefusalInputUntested(a) ==
  IF TooLow(a.cf) THEN "INVALID_CFREQ"
  ELSE IF ~SpanOK(a.sp) THEN "INVALID_SPAN"
  ELSE IF a.rbw \notin hw.rbws THEN "INVALID_RBW"
  ELSE IF a.level \notin Lowest(hw, 1)..Highest(hw, 1) THEN "INVALID_RFLVL"
  ELSE "none"

\* The tests of SetAllSettings, in their order.
Refusal(a) ==
  IF TooLow(a.cf) THEN "INVALID_CFREQ"
  ELSE IF ~SpanOK(a.sp) THEN "INVALID_SPAN"
  ELSE IF ~InputOK(a.input) THEN "INVALID_RF"
  ELSE IF a.rbw \notin hw.rbws THEN "INVALID_RBW"
  ELSE IF a.level \notin Lowest(hw, a.input)..Highest(hw, a.input) THEN "INVALID_RFLVL"
  ELSE "none"

\* A change that is not acknowledged, then a waveform whose contents are not
\* looked at; the input is cached whether the analyzer took the change or not.
\* Out of step the waveform may be an older one, and the change never arrive.
SetAllSettings(a) ==
  IF Refusal(a) # "none" THEN NotSent("SetAllSettings", Refusal(a))
  ELSE \E cf \in Converted(a.cf), sp \in Converted(a.sp) :
    LET meant == [a EXCEPT !.cf = Meant(@), !.sp = Meant(@)]
        new == [a EXCEPT !.cf = cf, !.sp = sp,
                         !.level = ReadLevel(SentLevel(@)), !.input = ReadInput(SentInput(@))]
        after == IF Takes(hw, new) THEN new ELSE dev
    IN  \/ NotSent("SetAllSettings", "SEND_FAILED")
        \/ /\ Returns("SetAllSettings", "SEND_FAILED", dev)
           /\ dev' = after
           /\ fresh' = FALSE
           /\ UNCHANGED <<hw, cache, inStep>>
        \/ /\ Returns("SetAllSettings", "WSA_ERROR", dev)
           /\ dev' \in {dev, after}
           /\ inStep' = FALSE
           /\ fresh' = FALSE
           /\ UNCHANGED <<hw, cache>>
        \/ /\ Returns("SetAllSettings", "NO_ERROR", meant)
           /\ dev' \in IF inStep THEN {after} ELSE {dev, after}
           /\ cache' = [cache EXCEPT !.input = a.input]
           /\ fresh' = (fresh /\ inStep /\ Takes(hw, new))
           /\ UNCHANGED <<hw, inStep>>

\* A waveform fills the cache; out of step the reply may be one of an earlier
\* time, or no waveform.
GetSpectrumData ==
  \/ NotSent("GetSpectrumData", "SEND_FAILED")
  \/ /\ Returns("GetSpectrumData", "WSA_ERROR", dev)
     /\ inStep' = FALSE
     /\ fresh' = FALSE
     /\ UNCHANGED <<hw, dev, cache>>
  \/ /\ Returns("GetSpectrumData", "NO_ERROR", dev)
     /\ IF inStep THEN cache' = Cached(hw, dev)
        ELSE cache' \in {cache} \cup {Cached(hw, d) : d \in {e \in Settings : Takes(hw, e)}}
     /\ fresh' = inStep
     /\ UNCHANGED <<hw, dev, inStep>>

\* Disconnect and Connect: replies are in step again if the greeting is in time.
Reconnect ==
  /\ inStep' \in BOOLEAN
  /\ Returns("Connect", "NO_ERROR", dev)
  /\ UNCHANGED <<hw, dev, cache, fresh>>

Next ==
  \/ \E f \in Freq : SetCenterFrequency(f)
  \/ \E x \in Span : SetSpan(x)
  \/ \E l \in Level : SetRefLevel(l)
  \/ \E r \in Rbw : SetResBandwidth(r)
  \/ \E i \in Input, flags \in {"AOV_DEFAULT", "AOV_SWITCH_INPUT_ONLY"} : SetInput(i, flags)
  \/ \E l \in Lnb : SetLNB(l)
  \/ \E f \in Freq, x \in Span, l \in Level, r \in Rbw, i \in Input, p \in Lnb :
       SetAllSettings([cf |-> f, sp |-> x, level |-> l, rbw |-> r, input |-> i, lnb |-> SentLnb(p)])
  \/ GetSpectrumData
  \/ Reconnect

Spec == Init /\ [][Next]_vars

-----------------------------------------------------------------------------
(* Properties *)

\* Types: the handle's input is one the analyzer has, and its level a char.
TypeOK ==
  /\ hw \in Hw
  /\ dev.input \in 1..hw.inputs /\ dev.level \in -128..127
  /\ cache.input \in 1..hw.inputs /\ cache.level \in -128..127
  /\ inStep \in BOOLEAN /\ fresh \in BOOLEAN

\* A SetAllSettings that succeeds in step is all or nothing: the analyzer is then
\* in exactly the settings the caller meant (frequency and span down to the
\* 100 Hz), or in those it was in.  It is in the settings meant if it has the
\* frequency and the range of the input has not wrapped at both ends: what the
\* tests let through then survives the bytes, for either firmware and any
\* input, and the analyzer has a mode for it.  Nothing is said of a frequency
\* that is too large for the conversion.
AllOrNothing ==
  ret'.op = "SetAllSettings" /\ ret'.res = "NO_ERROR" /\ inStep /\ ret'.meant.cf # Beyond
    => /\ dev' \in {dev, ret'.meant}
       /\ ret'.meant.cf <= hw.fmax /\ (hw.old \/ hw.offset[ret'.meant.input] <= 118)
            => dev' = ret'.meant

AllSettingsAsMeant == [][AllOrNothing]_vars

\* After a trace read in step the handle describes the analyzer as it is, and
\* its input stays right for as long as no call fails: setting the input, in
\* either way, keeps handle and analyzer together.
TraceShowsAnalyzer ==
  ret.op = "GetSpectrumData" /\ ret.res = "NO_ERROR" /\ inStep => cache = dev

InputCached == fresh => cache.input = dev.input

\* aovspecan.h:86 says of the voltage "either 13 or 18": an LNB that is to get
\* 13 V does not get 18.
ThirteenVolts ==
  ret.op = "SetLNB" /\ ret.res = "NO_ERROR" /\ inStep => dev.lnb = ret.meant.lnb
=============================================================================
