---------------------------------- MODULE Csw ----------------------------------
(***************************************************************************)
(* The codec of the JavaScript library: the packets that lib/request.js    *)
(* makes with the hex strings of lib/csw.js, and the parsers of            *)
(* lib/request.js and lib/response.js.  Pure operators.                    *)
(*                                                                         *)
(* A text of hex digits is a sequence over 0..15, with Bad for any other   *)
(* character; a Buffer is a sequence of bytes.  Frequencies are in the     *)
(* wire's 100 Hz units, [f, exact]: exact is FALSE if mhz * 10000 is not   *)
(* an integer in doubles, as for 1250.11 MHz, and f then is the part before *)
(* its point.  A frequency that is asked for, [f, exact, scale], is f times *)
(* 10^scale: JavaScript prints very small and very large numbers with an   *)
(* exponent, 1e-7 and 1e21, and scale is 0 for all others.  Bandwidths are *)
(* [n, unit].                                                              *)
(***************************************************************************)
EXTENDS Integers, Sequences

CONSTANTS
  ChangeArgs,   \* what changes of the configuration are made with
  Bodies,       \* the bodies of the responses
  Behind        \* what stands behind a packet in its stream

Byte == 0..255
Frequency == [f : Int, exact : BOOLEAN]

\* What the parameters of makeChangeConfig can be; the LNB arguments are not used.
Asked == [f : Int, exact : BOOLEAN, scale : {0}] \cup [f : Int \ {0}, exact : BOOLEAN, scale : Int]
Args ==
  [cf : Asked, sp : Asked, rl : Int,
   rbw : [n : Int, unit : {"", "K", "M", "G", "RESERVED"}], rfinput : Int]

ASSUME ArgsAssumption == ChangeArgs \subseteq Args
ASSUME StreamAssumption == Bodies \subseteq Seq(Byte) /\ Behind \subseteq Seq(Byte)

Bad == -1
Throws == << >>   \* a call that throws has no result

STX == 2
ETX == 3
DTYPES == [SBS_HW |-> 7, LNB_POWER |-> 13, WDR_REQ |-> 3, WDR |-> 9, CHANGE_REQ |-> 4,
           BAD_PKT |-> 8, MESG |-> 96]

\* num.toString(16) of a natural number.
Digits(num, k) == [i \in 1..k |-> (num \div 16^(k - i)) % 16]
toString16(num) == Digits(num, CHOOSE k \in 1..8 : (k = 8 \/ 16^k > num) /\ (k = 1 \/ 16^(k-1) <= num))

\* padStart with zeros.
padStart(text, len) == [i \in 1..(len - Len(text)) |-> 0] \o text

Signed(num) == IF num < 0 THEN <<Bad>> \o toString16(-num) ELSE toString16(num)

\* The test bounds num from above only: the sign of a negative number is a digit.
hexFromNumber(num, len) ==
  IF num > 0 /\ num \div 16^(len - 1) >= 16 THEN Throws ELSE padStart(Signed(num), len)

toLEN(num) == hexFromNumber(num, 4)

\* hexFromNumber of toCSW: the fraction of an inexact frequency begins with a point.
hexFromFrequency(hz) ==
  IF hz.exact \/ hz.f \div 16^7 >= 16 THEN hexFromNumber(hz.f, 8) ELSE Signed(hz.f) \o <<Bad>>

\* Buffer.from(text, 'hex'): it ends at the first pair that is not two digits.
Bytes(text) ==
  LET pairs == {k \in 0..(Len(text) \div 2) : \A i \in 1..(2 * k) : text[i] # Bad}
      n == CHOOSE k \in pairs : \A j \in pairs : j <= k
  IN [i \in 1..n |-> 16 * text[2 * i - 1] + text[2 * i]]

-----------------------------------------------------------------------------
(* Bandwidths *)

Rbw(n, unit) == [n |-> n, unit |-> unit]

\* The place in the list, from 0, is the bit.
enumRBW == << Rbw(0, "RESERVED"), Rbw(200, "K"), Rbw(3, "K"), Rbw(10, "K"),
              Rbw(100, "K"), Rbw(300, "K"), Rbw(1, "M"), Rbw(3, "M") >>

\* normalizeHz keeps number and unit, and takes kilohertz where there is none.
normalizeRBW(rbw) == IF rbw.unit = "" THEN Rbw(rbw.n, "K") ELSE rbw

\* The places of a name in the list, from 1.
PlacesOf(rbw) == {i \in 1..8 : enumRBW[i] = normalizeRBW(rbw)}

\* Mutant: the list counted from 1.
bitOneUp(rbw) == IF PlacesOf(rbw) = {} THEN 7 ELSE CHOOSE i \in PlacesOf(rbw) : TRUE

\* A name that is not in the list is taken for the last, 3 MHz.
bitOfRBW(rbw) == IF PlacesOf(rbw) = {} THEN 7 ELSE (CHOOSE i \in PlacesOf(rbw) : TRUE) - 1

\* normalizeHz throws for a bandwidth of nothing.
toRBWHex(rbw) ==
  IF rbw.unit = "RESERVED" THEN <<0, 0>>
  ELSE IF rbw.n = 0 THEN Throws ELSE hexFromNumber(2^bitOfRBW(rbw), 2)

\* The name of the lowest bit set; without a bit there is none.
fromRBWHex(RBW) ==
  LET set == {i \in 1..8 : (RBW \div 2^(i - 1)) % 2 = 1}
  IN IF set = {} THEN Rbw(0, "undefined") ELSE enumRBW[CHOOSE i \in set : \A j \in set : i <= j]

-----------------------------------------------------------------------------
(* Requests *)

makeHardwareInfo == <<STX, 0, 3, DTYPES.SBS_HW, 0, ETX>>
makeLNBPower == <<STX, 0, 2, DTYPES.LNB_POWER, ETX>>
\* Whatever resolution is asked for, it is 3 (8 bits).
makeWaveformData ==
  Bytes(<<0, STX>> \o toLEN(3) \o <<0, DTYPES.WDR_REQ>> \o hexFromNumber(3, 2) \o <<0, ETX>>)

Exact(f) == [f |-> f, exact |-> TRUE]
Number(f) == [f |-> f, exact |-> TRUE, scale |-> 0]

toCSW(mhz) == mhz * 10000
DefaultCF == toCSW(1250)
DefaultSP == toCSW(600)

\* The regular expression stops in front of an exponent.
normalizeHz(hz) == [f |-> hz.f, exact |-> hz.exact]

\* What is missing or 0 is replaced: 1250 MHz, 600 MHz, 50, 1 MHz, input 10.
WithDefaults(a) ==
  [cf  |-> IF a.cf = Number(0) THEN Exact(DefaultCF) ELSE normalizeHz(a.cf),
   sp  |-> IF a.sp = Number(0) THEN Exact(DefaultSP) ELSE normalizeHz(a.sp),
   rl  |-> IF a.rl = 0 THEN 50 ELSE a.rl,
   rbw |-> IF a.rbw = Rbw(0, "") THEN Rbw(1, "M") ELSE a.rbw,
   rfinput |-> IF a.rfinput = 0 THEN 10 ELSE a.rfinput]

makeChangeConfig(args) ==
  LET a == WithDefaults(args)
      cf == hexFromFrequency(a.cf)
      sp == hexFromFrequency(a.sp)
      rl == hexFromNumber(a.rl, 2)
      rbw == toRBWHex(a.rbw)
      rfinput == hexFromNumber(a.rfinput, 2)
  IN IF Throws \in {cf, sp, rl, rbw, rfinput} THEN Throws
     ELSE Bytes(<<0, STX>> \o toLEN(16) \o <<0, DTYPES.CHANGE_REQ>> \o cf \o sp \o rl \o rbw
                \o rfinput \o hexFromNumber(0, 2) \o hexFromNumber(0, 4) \o <<0, ETX>>)

uint16(b, i) == 256 * b[i] + b[i + 1]
uint32(b, i) == 65536 * uint16(b, i) + uint16(b, i + 2)

\* The asserts of _parserChangeConfig; to read past the end throws.
acceptsChangeConfig(b) ==
  /\ Len(b) >= 19
  /\ b[1] = STX /\ uint16(b, 2) = 16 /\ b[4] = DTYPES.CHANGE_REQ /\ b[19] = ETX

\* What it reads.
_parserChangeConfig(b) ==
  [CF |-> uint32(b, 5), SP |-> uint32(b, 9), RL |-> b[13], RBW |-> b[14], RF |-> b[15],
   LNB |-> b[16]]

-----------------------------------------------------------------------------
(* Responses: the bytes of the fields of each, in their order *)

parserHardwareInfo == 4 * 1 + 2 * 4 + 9 * 1 + 2 * 2 + 16 + 15 * 1 + 27
parserPowerLNB == 3 * 1 + 12 * 2 + 12 * 1 + 4
\* Mutant: the points of 10 bits.
parserWaveformData10 == 480 + 1 + 2 * 4 + 3 * 1 + 2 * 2 + 1 + 2
parserWaveformData == 320 + 1 + 2 * 4 + 3 * 1 + 2 * 2 + 1 + 2
parserUnknownPacket == 1
parserTextMessage(LEN) == LEN - 2

\* The choice of parser() for the commands it names; LEN counts command and ETX.
DTYPE_PKT(DTYPE, LEN) ==
  CASE DTYPE = DTYPES.SBS_HW         -> parserHardwareInfo
    [] DTYPE = DTYPES.LNB_POWER      -> parserPowerLNB
    [] DTYPE \in {DTYPES.WDR, 15}    -> parserWaveformData
    [] DTYPE = DTYPES.BAD_PKT        -> parserUnknownPacket
    [] DTYPE = DTYPES.MESG           -> parserTextMessage(LEN)

\* The bytes consumed if the packet's end is there and is an ETX; 0 if the
\* parser throws.
Consumed(b, body) ==
  IF Len(b) >= 5 + body /\ b[1] = STX /\ b[5 + body] = ETX THEN 5 + body ELSE 0

\* Response.parser() and Response.parseTester(), which goes by LEN alone.
parser(b) == IF Len(b) < 4 THEN 0 ELSE Consumed(b, DTYPE_PKT(b[4], uint16(b, 2)))
parseTester(b) == IF Len(b) < 4 THEN 0 ELSE Consumed(b, uint16(b, 2) - 2)

-----------------------------------------------------------------------------
(* Properties: what the codec does with an input *)

\* The arguments a change packet is made whole of: no negative level or input,
\* frequencies that are whole on the wire and end before 2^32, no bandwidth of 0;
\* and whatever is replaced.
HoldsFrequency(hz) == hz.exact /\ hz.f > 0 /\ hz.f \div 16^7 < 16
Holds(a) ==
  /\ \A hz \in {a.cf, a.sp} : hz = Number(0) \/ HoldsFrequency(normalizeHz(hz))
  /\ a.rl \in Byte /\ a.rfinput \in Byte
  /\ a.rbw.n = 0 => a.rbw.unit \in {"", "RESERVED"}

\* What a field can say of its argument: what was asked for or, where the library
\* replaces that, exactly what the source names: a default for 0, the number in
\* front of an exponent, no bandwidth for RESERVED, 3 MHz for one not listed.
SaysFrequency(F, hz, default) ==
  \/ F = hz.f /\ hz # Number(0) /\ hz.scale = 0
  \/ F = default /\ hz = Number(0)
  \/ F = hz.f /\ hz.scale # 0
SaysNumber(N, num, default) ==
  \/ N = num /\ num # 0
  \/ N = default /\ num = 0
SaysRBW(name, rbw) ==
  \/ name = normalizeRBW(rbw) /\ PlacesOf(rbw) # {} /\ rbw.unit # "RESERVED"
  \/ name = Rbw(0, "undefined") /\ rbw.unit = "RESERVED"
  \/ name = Rbw(1, "M") /\ rbw = Rbw(0, "")
  \/ name = Rbw(3, "M") /\ PlacesOf(rbw) = {} /\ rbw # Rbw(0, "") /\ rbw.unit # "RESERVED"

\* A change request is accepted by the parser of lib/request.js if its arguments
\* are ones a packet holds, or are replaced by such; made with any other it is cut
\* before its ETX or not made at all.  Each field of an accepted one says what was
\* asked for in its own argument, with no replacement but those of Says, and the
\* LNB is off.
ChangeReads(a) ==
  LET p == makeChangeConfig(a)
      r == _parserChangeConfig(p)
  IN /\ acceptsChangeConfig(p) <=> Holds(a)
     /\ Holds(a) =>
          /\ SaysFrequency(r.CF, a.cf, DefaultCF) /\ SaysFrequency(r.SP, a.sp, DefaultSP)
          /\ SaysNumber(r.RL, a.rl, 50) /\ SaysNumber(r.RF, a.rfinput, 10)
          /\ SaysRBW(fromRBWHex(r.RBW), a.rbw)
          /\ r.LNB = 0

\* A packet in a stream is cut exactly at its own end, whatever follows it, and
\* is refused as long as any of it is missing, even if it holds bytes like an ETX.
CutsAt(parse(_), packet, next) ==
  \A k \in 0..Len(packet \o next) :
    parse(SubSeq(packet \o next, 1, k)) = IF k >= Len(packet) THEN Len(packet) ELSE 0

\* A packet of a command and a body.
Packet(DTYPE, body) ==
  <<STX, (Len(body) + 2) \div 256, (Len(body) + 2) % 256, DTYPE>> \o body \o <<ETX>>

\* The commands of the responses, with the bodies the analyzer sends with them;
\* a text has any length.
IsResponse(DTYPE, body) ==
  \/ DTYPE = DTYPES.SBS_HW /\ Len(body) = 83
  \/ DTYPE = DTYPES.LNB_POWER /\ Len(body) = 43
  \/ DTYPE = DTYPES.WDR /\ Len(body) = 339
  \/ DTYPE = DTYPES.BAD_PKT /\ Len(body) = 1
  \/ DTYPE = DTYPES.MESG /\ Len(body) < 65534

\* Both parsers cut a response that another text stands behind.
CutsResponse(DTYPE, body, next) ==
  IsResponse(DTYPE, body) =>
    CutsAt(parser, Packet(DTYPE, body), next) /\ CutsAt(parseTester, Packet(DTYPE, body), next)

\* The test parser of lib/response.js, which goes by LEN alone, cuts the requests:
\* the fixed ones, and the changes that are made whole.  One made short is not cut
\* at its end, for it has none.
CutsRequests(next) ==
  /\ CutsAt(parseTester, makeHardwareInfo, next)
  /\ CutsAt(parseTester, makeLNBPower, next)
  /\ CutsAt(parseTester, makeWaveformData, next)
  /\ \A a \in ChangeArgs :
       Holds(a) => CutsAt(parseTester, makeChangeConfig(a), next)
=============================================================================
