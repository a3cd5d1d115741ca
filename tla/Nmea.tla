------------------------------- MODULE Nmea --------------------------------
(***************************************************************************)
(* nmealib, the library under the position plugin                          *)
(* (src/lib/pud/nmealib/src): a position (NmeaInfo) that a generator makes *)
(* or that is sanitised is written as NMEA sentences; the characters go    *)
(* over a serial line that may damage them, in pieces of any size, into a  *)
(* parser that updates the position of the receiver.                       *)
(*                                                                         *)
(* A field of a sentence with the comma before it is one symbol, and so is *)
(* every other character. The checksum of a sentence is what it was        *)
(* calculated from. Numbers with a fraction are in hundredths.             *)
(***************************************************************************)
EXTENDS Integers, FiniteSets, Sequences, SequencesExt

CONSTANTS
  Infos,        \* positions that a user sanitises and sends: the fields set, their values, metric
  Masks,        \* the sentences asked for
  Foreign,      \* what another device may have sent just before: sequences of sentences
  Now,          \* the clock: [UTCDATE, UTCTIME]
  MaxSats,      \* NMEALIB_MAX_SATELLITES
  BufferSize,   \* size of the buffer of the parser, in symbols
  MaxReports,   \* bound: positions sent
  MaxFaults     \* bound: damages of the line

VARIABLES
  gen,      \* the chain of generators, <<>> when there is none
  mask,     \* the sentences that are written
  src,      \* the position of the sender
  sent,     \* the positions sent
  stream,   \* what is on the line
  line,     \* "fresh" before the first of it is read
  faults,   \* the damages done
  starless, \* a sentence lost its star
  parser,   \* the parser
  info      \* the position of the receiver

vars == <<gen, mask, src, sent, stream, line, faults, starless, parser, info>>

PerGsa == 12   \* NMEALIB_GPGSA_SATS_IN_SENTENCE
PerGsv == 4    \* NMEALIB_GPGSV_MAX_SATS_PER_SENTENCE

Abs(x) == IF x < 0 THEN -x ELSE x
Sign(x) == IF x < 0 THEN -1 ELSE 1

\* What printf with one digit leaves of a number.
Tenths(x) == Sign(x) * ((Abs(x) + 5) \div 10) * 10

Slots == 1 .. MaxSats
NoSat == <<0, 0, 0, 0>>   \* prn, elevation, azimuth and snr
Angles == {"TRACK", "MTRACK"}
Dops == {"PDOP", "HDOP", "VDOP"}

\* nmeaInfoClear
Clear ==
  [present |-> {"SIG", "FIX"}, smask |-> {}, progress |-> FALSE, metric |-> FALSE,
   val |-> [UTCDATE |-> <<0, 0, 0>>, UTCTIME |-> <<0, 0, 0, 0>>, SIG |-> 0, FIX |-> 1,
            PDOP |-> 0, HDOP |-> 0, VDOP |-> 0, LAT |-> 0, LON |-> 0, ELV |-> 0,
            HEIGHT |-> 0, SPEED |-> 0, TRACK |-> 0, MTRACK |-> 0, MAGVAR |-> 0,
            DGPSAGE |-> 0, DGPSSID |-> 0, SATINUSECOUNT |-> 0, SATINVIEWCOUNT |-> 0,
            SATINUSE |-> [k \in Slots |-> 0], SATINVIEW |-> [k \in Slots |-> NoSat]]]

Fields == DOMAIN Clear.val

\* The field f of i gets a value and is present.
Set(i, f, v) == [i EXCEPT !.val[f] = v, !.present = @ \cup {f}]

\* The fields F of i get the values of p, where p has them.
Update(i, p, F) ==
  [i EXCEPT !.val = [f \in Fields |-> IF f \in F \cap DOMAIN p THEN p[f] ELSE @[f]],
            !.present = @ \cup (F \cap DOMAIN p)]
----------------------------------------------------------------------------
(* Sanitising *)

\* nmeaMathNdegToDegree and nmeaMathDegreeToNdeg
NdegToDegree(v) == Sign(v) * ((Abs(v) \div 10000) * 100 + (Abs(v) % 10000) \div 60)
DegreeToNdeg(v) == Sign(v) * ((Abs(v) \div 100) * 10000 + (Abs(v) % 100) * 60)

DopFactor == 5

\* nmeaInfoUnitConversion
UnitConversion(i, toMetric) ==
  IF i.metric = toMetric THEN i
  ELSE [i EXCEPT
    !.metric = toMetric,
    !.val = [f \in Fields |->
       CASE f \notin i.present -> @[f]
         [] f \in i.present \cap Dops -> IF toMetric THEN @[f] * DopFactor ELSE @[f] \div DopFactor
         [] f \in i.present \cap {"LAT", "LON"} -> IF toMetric THEN NdegToDegree(@[f]) ELSE DegreeToNdeg(@[f])
         [] OTHER -> @[f]]]

\* Into [-h, h] by full turns of 2 * h.
Around(x, h) ==
  IF Abs(x) <= h THEN x
  ELSE LET r == ((x + h) % (2 * h)) - h IN IF r = -h /\ x > 0 THEN h ELSE r

\* A latitude beyond a pole comes back on the other side.
Beyond(x, q) == Abs(x) > q
OverPole(x, q) == IF x > q THEN 2 * q - x ELSE IF x < -q THEN -2 * q - x ELSE x

Quarter == 900000   \* 90 degrees, in hundredths of NDEG

SaneLat(i) == OverPole(Around(i.val.LAT, 2 * Quarter), Quarter)
SaneLon(i) ==
  Around(i.val.LON + (IF Beyond(Around(i.val.LAT, 2 * Quarter), Quarter) THEN 2 * Quarter ELSE 0),
         2 * Quarter)

\* A backward speed turns the tracks around.
Backward(i) == "SPEED" \in i.present /\ i.val.SPEED < 0
SaneTrack(i, f) == (i.val[f] + (IF Backward(i) THEN 18000 ELSE 0)) % 36000

\* The PRNs that are not 0, in order, and then 0.
Padded(s, none) == [k \in Slots |-> IF k <= Len(s) THEN s[k] ELSE none]
SaneInUse(i) ==
  Padded(SortSeq(SelectSeq(i.val.SATINUSE, LAMBDA n : n # 0), LAMBDA a, b : a < b), 0)

SaneSat(s) ==
  LET turned == Around(s[2], 180)
  IN  <<s[1], OverPole(turned, 90), (s[3] + (IF Beyond(turned, 90) THEN 180 ELSE 0)) % 360,
        IF s[4] > 99 THEN 99 ELSE s[4]>>
SaneInView(i) ==
  LET known == SortSeq(SelectSeq(i.val.SATINVIEW, LAMBDA s : s[1] # 0), LAMBDA a, b : a[1] < b[1])
  IN  IF i.progress THEN i.val.SATINVIEW
      ELSE Padded([k \in DOMAIN known |-> SaneSat(known[k])], NoSat)

Clamp(x, low, high) == IF x < low THEN low ELSE IF x > high THEN high ELSE x

\* What nmeaInfoSanitise makes of a field that is present. It brings the time
\* into range where the date is present.
Sane(i, f) ==
  CASE f = "SIG" -> IF i.val.SIG \in 0 .. 8 THEN i.val.SIG ELSE 0
    [] f = "FIX" -> IF i.val.FIX \in 1 .. 3 THEN i.val.FIX ELSE 1
    [] f = "UTCDATE" -> <<Clamp(i.val.UTCDATE[1], 1990, 2189), Clamp(i.val.UTCDATE[2], 1, 12),
                          Clamp(i.val.UTCDATE[3], 1, 31)>>
    [] f = "UTCTIME" /\ "UTCDATE" \in i.present ->
         <<i.val.UTCTIME[1] % 24, i.val.UTCTIME[2] % 60, i.val.UTCTIME[3] % 61, i.val.UTCTIME[4] % 100>>
    [] f \in Dops \cup {"SPEED", "DGPSAGE"} -> Abs(i.val[f])
    [] f = "LAT" -> SaneLat(i)
    [] f = "LON" -> SaneLon(i)
    [] f \in Angles -> SaneTrack(i, f)
    [] f = "MAGVAR" -> i.val.MAGVAR % 36000
    [] f = "SATINUSE" -> SaneInUse(i)
    [] f = "SATINVIEW" -> SaneInView(i)
    [] OTHER -> i.val[f]

\* What it makes of one that is not.
Default(i, f) ==
  CASE f \in {"UTCDATE", "UTCTIME"} -> Now[f]
    [] f = "SATINVIEW" /\ i.progress -> i.val[f]
    [] OTHER -> Clear.val[f]

\* nmeaInfoSanitise
Sanitise(raw) ==
  LET i == UnitConversion(raw, FALSE)
      d == [i EXCEPT !.val = [f \in Fields |-> IF f \in i.present THEN i.val[f] ELSE Default(i, f)]]
  IN  [d EXCEPT !.val = [f \in Fields |-> IF f \in i.present THEN Sane(d, f) ELSE d.val[f]]]
----------------------------------------------------------------------------
(* The generators *)

\* A random number in [low, high]: one draw, of 0 .. 7, for all of an invocation.
Draws == {3, 7}
Random(low, high, r) == low + ((high - low) * r) \div 7
InUseDraw(k, r) == (k + r) % 4

Noise(r) ==
  [SIG |-> Random(1, 3, r), FIX |-> Random(2, 3, r), PDOP |-> Random(0, 900, r),
   HDOP |-> Random(0, 900, r), VDOP |-> Random(0, 900, r), LAT |-> Random(0, 10000, r),
   LON |-> Random(0, 10000, r), ELV |-> Random(-10000, 10000, r),
   HEIGHT |-> Random(-10000, 10000, r), SPEED |-> Random(0, 10000, r),
   TRACK |-> Random(0, 36000, r), MTRACK |-> Random(0, 36000, r),
   MAGVAR |-> Random(0, 36000, r), DGPSAGE |-> Random(0, 10000, r), DGPSSID |-> Random(0, 100, r),
   SATINUSE |-> [k \in Slots |-> IF InUseDraw(k, r) # 0 THEN k - 1 ELSE 0],
   SATINUSECOUNT |-> Cardinality({k \in Slots : InUseDraw(k, r) # 0}),
   SATINVIEW |-> [k \in Slots |->
      <<k - 1, Random(0, 90, r), Random(0, 359, r),
        IF InUseDraw(k, r) # 0 THEN Random(40, 99, r) ELSE Random(0, 40, r)>>],
   SATINVIEWCOUNT |-> Cardinality({k \in Slots : InUseDraw(k, r) # 0 \/ Random(0, 40, r) # 0})]

\* n satellites around the sky, at the given elevation and with the given signal.
Sky(n, elevation, snr) ==
  [SATINUSE |-> Padded([k \in 1 .. n |-> k], 0), SATINUSECOUNT |-> n, SATINVIEWCOUNT |-> n,
   SATINVIEW |-> Padded([k \in 1 .. n |-> <<k, elevation, (k - 1) * (360 \div n), snr>>], NoSat)]

\* The reset of a generator; those without leave the position alone.
Reset(kind, i) ==
  CASE kind = "static" -> Update(i, Sky(4, 50, 99), Fields)
    [] kind = "rotate" -> Update(i, Sky(8, 5, 80), Fields)
    [] OTHER -> i

\* Its init
InitOne(kind, i) ==
  LET fixed == Update(i, [SIG |-> 3, FIX |-> 3], Fields)
  IN  CASE kind \in {"static", "rotate"} -> Reset(kind, fixed)
        [] kind = "randmove" ->
             Update(fixed, [SPEED |-> 2000, TRACK |-> 0, MTRACK |-> 0, MAGVAR |-> 0], Fields)
        [] OTHER -> i

\* nmeaGeneratorInit: the time is set but not present.
GeneratorInit(chain, i) ==
  LET fresh == [Clear EXCEPT !.val = [f \in Fields |-> IF f \in DOMAIN Now THEN Now[f] ELSE @[f]],
                             !.present = i.present \cup {"LAT", "LON"}, !.smask = i.smask]
      first == InitOne(chain[1], fresh)
  IN  IF Len(chain) = 1 THEN first ELSE InitOne(chain[2], first)

\* The satellites turn on by five degrees, evenly spread.
Rotated(i) ==
  LET n == i.val.SATINVIEWCOUNT
  IN  [k \in Slots |->
         IF k > n THEN i.val.SATINVIEW[k]
         ELSE [i.val.SATINVIEW[k] EXCEPT
                 ![3] = (i.val.SATINVIEW[1][3] + 5 + ((k - 1) * 360) \div n) % 360]]

\* A step of at most 11 metres: a hundredth of a minute, or less.
Moved(i, turn, faster, move) ==
  LET track == (i.val.TRACK + turn) % 36000
  IN  Update(i, [TRACK |-> track, MTRACK |-> (i.val.MTRACK + turn) % 36000, MAGVAR |-> track,
                 SPEED |-> Clamp(i.val.SPEED + faster, 100, 4000),
                 LAT |-> i.val.LAT + move[1], LON |-> i.val.LON + move[2]], Fields)

\* The invocation of a generator: what the position may be afterwards.
InvokeOne(kind, i) ==
  CASE kind = "noise" -> {Update(i, Noise(r), Fields) : r \in Draws}
    [] kind = "static" -> {Update(i, Now, Fields)}
    [] kind = "rotate" ->
         {Update(i, [SATINVIEW |-> Rotated(i), SATINVIEWCOUNT |-> i.val.SATINVIEWCOUNT] @@ Now, Fields)}
    [] kind = "randmove" -> {Moved(i, -999, 300, <<-1, 1>>), Moved(i, 1000, -200, <<0, 0>>)}

\* nmeaGeneratorInvoke
GeneratorInvoke(chain, i) ==
  IF Len(chain) = 1 THEN InvokeOne(chain[1], i)
  ELSE UNION {InvokeOne(chain[2], j) : j \in InvokeOne(chain[1], i)}
----------------------------------------------------------------------------
(* Writing sentences. A pack is a function on the fields that are present;  *)
(* with a letter of its own, a field is a pair.                             *)

Empty == <<"empty">>
Num(n) == <<"num", n>>
Letter(c) == <<"letter", c>>

\* The text of a field, in tenths or exact, with or without a letter.
Exact(p, f) == IF f \in DOMAIN p THEN <<Num(p[f])>> ELSE <<Empty>>
Rounded(p, f) == IF f \in DOMAIN p THEN <<Num(Tenths(p[f]))>> ELSE <<Empty>>
ExactPair(p, f) == IF f \in DOMAIN p THEN <<Num(p[f][1]), Letter(p[f][2])>> ELSE <<Empty, Empty>>
RoundedPair(p, f) ==
  IF f \in DOMAIN p THEN <<Num(Tenths(p[f][1])), Letter(p[f][2])>> ELSE <<Empty, Empty>>
TimeText(p) == IF "UTCTIME" \in DOMAIN p THEN <<<<"time">> \o p.UTCTIME>> ELSE <<Empty>>
DateText(p) ==
  IF "UTCDATE" \in DOMAIN p
  THEN <<<<"date", p.UTCDATE[3], p.UTCDATE[2], p.UTCDATE[1] % 100>>>> ELSE <<Empty>>

Side(x, plus, minus) == <<Abs(x), IF x >= 0 THEN plus ELSE minus>>
Unside(pair, minus) == IF pair[2] = minus THEN -pair[1] ELSE pair[1]

\* nmeaInfoSignalToMode and nmeaInfoModeToSignal
Modes == <<"N", "A", "D", "P", "R", "F", "E", "M", "S">>
SignalToMode(sig) == Modes[sig + 1]
ModeToSignal(mode) == (CHOOSE k \in DOMAIN Modes : Modes[k] = mode) - 1

\* Speeds in knots are printed with one digit: 1 knot is 1.852 km/h.
KphToKnot(v) == (v * 1000 + 926) \div 1852
KnotToKph(v) == (v * 1852 + 500) \div 1000

\* nmeaGPGGAFromInfo and nmeaGPGGAGenerate
GGAFields == {"UTCTIME", "LAT", "LON", "SIG", "SATINVIEWCOUNT", "HDOP", "ELV", "HEIGHT", "DGPSAGE", "DGPSSID"}
GPGGAFromInfo(i) ==
  [f \in GGAFields \cap i.present |->
     CASE f = "LAT" -> Side(i.val.LAT, "N", "S")
       [] f = "LON" -> Side(i.val.LON, "E", "W")
       [] f \in {"ELV", "HEIGHT"} -> <<i.val[f], "M">>
       [] OTHER -> i.val[f]]
GPGGAGenerate(p) ==
  <<<<"id", "GPGGA">>>> \o TimeText(p) \o ExactPair(p, "LAT") \o ExactPair(p, "LON") \o Exact(p, "SIG")
    \o Exact(p, "SATINVIEWCOUNT") \o Rounded(p, "HDOP") \o RoundedPair(p, "ELV")
    \o RoundedPair(p, "HEIGHT") \o Rounded(p, "DGPSAGE") \o Exact(p, "DGPSSID")

\* nmeaGPGSAFromInfo and nmeaGPGSAGenerate
GSAFields == {"SIG", "FIX", "SATINUSE", "PDOP", "HDOP", "VDOP"}
Prns(i) ==
  LET known == SelectSeq(i.val.SATINUSE, LAMBDA n : n # 0)
  IN  [k \in 1 .. PerGsa |-> IF k <= Len(known) THEN known[k] ELSE 0]
GPGSAFromInfo(i) ==
  [f \in GSAFields \cap i.present |->
     CASE f = "SIG" -> IF i.val.SIG = 7 THEN "M" ELSE "A"
       [] f = "SATINUSE" -> Prns(i)
       [] OTHER -> i.val[f]]
GPGSAGenerate(p) ==
  <<<<"id", "GPGSA">>, IF "SIG" \in DOMAIN p THEN Letter(p.SIG) ELSE Empty>> \o Exact(p, "FIX")
    \o [k \in 1 .. PerGsa |->
          IF "SATINUSE" \in DOMAIN p /\ p.SATINUSE[k] # 0 THEN Num(p.SATINUSE[k]) ELSE Empty]
    \o Rounded(p, "PDOP") \o Rounded(p, "HDOP") \o Rounded(p, "VDOP")

\* nmeaGPGSVsatellitesToSentencesCount
SatellitesToSentences(n) == IF n = 0 THEN 1 ELSE (n + PerGsv - 1) \div PerGsv

\* nmeaGPGSVFromInfo and nmeaGPGSVGenerate, for sentence k of them
Sats(i, k) == [s \in 1 .. PerGsv |-> IF (k - 1) * PerGsv + s \in Slots
                                     THEN i.val.SATINVIEW[(k - 1) * PerGsv + s] ELSE NoSat]
GPGSVFromInfo(i, k) ==
  IF "SATINVIEWCOUNT" \notin i.present \/ i.val.SATINVIEWCOUNT = 0
  THEN [count |-> 0, of |-> 1, nr |-> 1, sats |-> <<>>]
  ELSE LET n == i.val.SATINVIEWCOUNT
           of == SatellitesToSentences(n)
       IN  IF "SATINVIEW" \notin i.present THEN [count |-> n, of |-> of, nr |-> 1, sats |-> <<>>]
           ELSE [count |-> n, of |-> of, nr |-> k,
                 sats |-> IF k = of THEN SubSeq(Sats(i, k), 1, n - (of - 1) * PerGsv) ELSE Sats(i, k)]
SatText(s) == IF s[1] = 0 THEN <<Empty, Empty, Empty, Empty>> ELSE <<Num(s[1]), Num(s[2]), Num(s[3]), Num(s[4])>>
GPGSVGenerate(p) ==
  <<<<"id", "GPGSV">>, Num(p.of), Num(p.nr), Num(p.count)>>
    \o FlattenSeq([s \in DOMAIN p.sats |-> SatText(p.sats[s])])

\* nmeaGPRMCFromInfo and nmeaGPRMCGenerate
RMCFields == {"UTCTIME", "SIG", "LAT", "LON", "SPEED", "TRACK", "UTCDATE", "MAGVAR"}
GPRMCFromInfo(i) ==
  [f \in RMCFields \cap i.present |->
     CASE f = "SIG" -> <<IF i.val.SIG # 0 THEN "A" ELSE "V", SignalToMode(i.val.SIG)>>
       [] f = "LAT" -> Side(i.val.LAT, "N", "S")
       [] f \in {"LON", "MAGVAR"} -> Side(i.val[f], "E", "W")
       [] f = "SPEED" -> KphToKnot(i.val.SPEED)
       [] OTHER -> i.val[f]]
GPRMCGenerate(p) ==
  LET status(n) == IF "SIG" \in DOMAIN p THEN <<Letter(p.SIG[n])>> ELSE <<Empty>>
  IN  <<<<"id", "GPRMC">>>> \o TimeText(p) \o status(1) \o ExactPair(p, "LAT") \o ExactPair(p, "LON")
        \o Rounded(p, "SPEED") \o Rounded(p, "TRACK") \o DateText(p) \o RoundedPair(p, "MAGVAR") \o status(2)

\* nmeaGPVTGFromInfo and nmeaGPVTGGenerate
VTGFields == {"TRACK", "MTRACK", "SPEED"}
GPVTGFromInfo(i) ==
  LET F == VTGFields \cap i.present
  IN  [f \in (F \ {"SPEED"}) \cup (IF "SPEED" \in F THEN {"SPN", "SPK"} ELSE {}) |->
         CASE f = "TRACK" -> <<i.val.TRACK, "T">>
           [] f = "MTRACK" -> <<i.val.MTRACK, "M">>
           [] f = "SPN" -> <<KphToKnot(i.val.SPEED), "N">>
           [] f = "SPK" -> <<i.val.SPEED, "K">>]
GPVTGGenerate(p) ==
  <<<<"id", "GPVTG">>>> \o RoundedPair(p, "TRACK") \o RoundedPair(p, "MTRACK") \o RoundedPair(p, "SPN")
    \o RoundedPair(p, "SPK")

Dollar == <<"dollar">>
Star == <<"star">>
CR == <<"cr">>
LF == <<"lf">>
Other == <<"other">>       \* a character that fits nowhere but may be in a sentence
Invalid == <<"invalid">>   \* one that may not
Checksum(body) == <<<<"high", body>>, <<"low", body>>>>

\* nmeaAppendChecksum
Sentence(body) == <<Dollar>> \o body \o <<Star>> \o Checksum(body) \o <<CR, LF>>

\* nmeaSentenceFromInfo
GsvCount(i) == SatellitesToSentences(IF "SATINVIEWCOUNT" \in i.present THEN i.val.SATINVIEWCOUNT ELSE 0)
FromInfo(i, m) ==
  LET if(kind, text) == IF kind \in m THEN text ELSE <<>>
  IN  if("GPGGA", Sentence(GPGGAGenerate(GPGGAFromInfo(i))))
        \o if("GPGSA", Sentence(GPGSAGenerate(GPGSAFromInfo(i))))
        \o if("GPGSV", FlattenSeq([k \in 1 .. GsvCount(i) |-> Sentence(GPGSVGenerate(GPGSVFromInfo(i, k)))]))
        \o if("GPRMC", Sentence(GPRMCGenerate(GPRMCFromInfo(i))))
        \o if("GPVTG", Sentence(GPVTGGenerate(GPVTGFromInfo(i))))
----------------------------------------------------------------------------
(* Reading sentences: a parse gives the set of packs read, none or one.     *)

\* nmeaScanf: the value of a field, and the letter after it. A checksum that
\* lost its star runs into the last field: a number becomes another one.
Spoilt == 9999
Value(c) ==
  CASE c[1] \in {"num", "letter"} -> c[2]
    [] c[1] = "time" -> Tail(c)
    [] c[1] = "date" -> <<(IF c[4] > 90 THEN 1900 ELSE 2000) + c[4], c[3], c[2]>>
    [] c[1] = "junk" -> Spoilt
LetterOf(c) == IF c[1] = "letter" THEN c[2] ELSE "?"

\* The fields of a sentence, up to what ends it.
IsField(c) == c[1] \in {"empty", "num", "letter", "time", "date"}
FieldsOf(buf) ==
  LET end == CHOOSE k \in 3 .. Len(buf) + 1 :
               /\ k = Len(buf) + 1 \/ ~IsField(buf[k])
               /\ \A j \in 3 .. k - 1 : IsField(buf[j])
      text == SubSeq(buf, 3, end - 1)
  IN  IF end = Len(buf) + 1 \/ buf[end] = Star \/ text = <<>> \/ Last(text)[1] = "letter" THEN text
      ELSE IF buf[end] # Other THEN Front(text) \o <<<<"junk">>>>
      ELSE IF Last(text) = Empty THEN Front(text) \o <<<<"fail">>>> ELSE text

\* The tokens: none when a number cannot be converted.
Tokens(t) == IF t # <<>> /\ Last(t) = <<"fail">> THEN 0 ELSE Len(t)

\* The fields that are not empty: At says where they are, Pairs have a letter.
Scan(t, At, Pairs) ==
  [f \in {f \in DOMAIN At : t[At[f]] # Empty} |->
     IF f \in Pairs THEN <<Value(t[At[f]]), LetterOf(t[At[f] + 1])>> ELSE Value(t[At[f]])]

Valid(p, f, ok(_)) == f \in DOMAIN p => ok(p[f])

\* nmeaValidateTime, nmeaValidateDate, nmeaValidateNSEW, nmeaValidateSatellite
ValidTime(v) == v[1] <= 23 /\ v[2] <= 59 /\ v[3] <= 60 /\ v[4] <= 99
ValidDate(v) == v[1] \in 1900 .. 2089 /\ v[2] \in 1 .. 12 /\ v[3] \in 1 .. 31
NorthSouth(v) == v[2] \in {"N", "S"}
EastWest(v) == v[2] \in {"E", "W"}
Metres(v) == v[2] = "M"
ValidSat(s) == s[2] \in -180 .. 180 /\ s[3] <= 359 /\ s[4] <= 99

\* nmeaGPGGAParse and nmeaGPGGAToInfo
GGAAt == [UTCTIME |-> 1, LAT |-> 2, LON |-> 4, SIG |-> 6, SATINVIEWCOUNT |-> 7, HDOP |-> 8,
          ELV |-> 9, HEIGHT |-> 11, DGPSAGE |-> 13, DGPSSID |-> 14]
GPGGAParse(t) ==
  IF Tokens(t) # 14 THEN {}
  ELSE {p \in {Scan(t, GGAAt, {"LAT", "LON", "ELV", "HEIGHT"})} :
          /\ Valid(p, "UTCTIME", ValidTime) /\ Valid(p, "LAT", NorthSouth) /\ Valid(p, "LON", EastWest)
          /\ Valid(p, "SIG", LAMBDA v : v \in 0 .. 8)
          /\ Valid(p, "ELV", Metres) /\ Valid(p, "HEIGHT", Metres)}
Marked(i, kind) == [i EXCEPT !.smask = @ \cup {kind}]
GPGGAToInfo(p, i) ==
  Update(Marked(i, "GPGGA"),
         [f \in DOMAIN p |-> CASE f = "LAT" -> Unside(p.LAT, "S")
                               [] f = "LON" -> Unside(p.LON, "W")
                               [] f \in {"ELV", "HEIGHT"} -> p[f][1]
                               [] OTHER -> p[f]], Fields)

\* nmeaGPGSAParse and nmeaGPGSAToInfo. The signal is only taken when there was
\* none. Of the PRNs in use, those beyond the new ones stay behind.
GSAAt == [SIG |-> 1, FIX |-> 2, PDOP |-> 3 + PerGsa, HDOP |-> 4 + PerGsa, VDOP |-> 5 + PerGsa]
GPGSAParse(t) ==
  IF Tokens(t) # 5 + PerGsa THEN {}
  ELSE LET prns == [k \in 1 .. PerGsa |-> IF t[k + 2] = Empty THEN 0 ELSE Value(t[k + 2])]
           inUse == IF \E k \in 1 .. PerGsa : prns[k] # 0 THEN [SATINUSE |-> prns] ELSE <<>>
       IN  {p \in {Scan(t, GSAAt, {}) @@ inUse} :
              Valid(p, "SIG", LAMBDA v : v \in {"A", "M"}) /\ Valid(p, "FIX", LAMBDA v : v \in 1 .. 3)}
GPGSAToInfo(p, i) ==
  LET known == SelectSeq(p.SATINUSE, LAMBDA n : n # 0)
      signal == IF "SIG" \in DOMAIN p /\ i.val.SIG = 0
                THEN Set(Marked(i, "GPGSA"), "SIG", IF p.SIG = "M" THEN 7 ELSE 1)
                ELSE Marked(i, "GPGSA")
      used == IF "SATINUSE" \notin DOMAIN p THEN signal
              ELSE Set(Set(signal, "SATINUSECOUNT", Len(known)), "SATINUSE",
                       [k \in Slots |-> IF k <= Len(known) THEN known[k] ELSE i.val.SATINUSE[k]])
  IN  Update(used, p, {"FIX", "PDOP", "HDOP", "VDOP"})

\* nmeaGPGSVParse and nmeaGPGSVToInfo. Satellites that come later are cleared.
SatOf(t, s) ==
  IF 3 + 4 * s > Len(t) THEN NoSat
  ELSE [k \in 1 .. 4 |-> IF t[4 * s + k - 1] = Empty THEN 0 ELSE Value(t[4 * s + k - 1])]
GPGSVParse(t) ==
  IF Tokens(t) < 3 \/ \E k \in 1 .. 3 : t[k] = Empty THEN {}
  ELSE {p \in {[of |-> Value(t[1]), nr |-> Value(t[2]), count |-> Value(t[3]),
                sats |-> [s \in 1 .. PerGsv |-> SatOf(t, s)]]} :
          /\ p.count <= MaxSats /\ p.of = SatellitesToSentences(p.count)
          /\ p.of <= MaxSats \div PerGsv /\ p.nr \in 1 .. p.of
          /\ Tokens(t) \in {3 + 4 * PerGsv, 3 + 4 * (IF p.nr # p.of THEN PerGsv ELSE p.count - (p.of - 1) * PerGsv)}
          /\ \A s \in 1 .. PerGsv : ValidSat(p.sats[s])}
GPGSVToInfo(p, i) ==
  LET first == (p.nr - 1) * PerGsv
      sky == [k \in Slots |->
                CASE k <= first -> i.val.SATINVIEW[k]
                  [] k > first /\ k <= first + PerGsv ->
                       IF p.sats[k - first][1] = 0 THEN NoSat ELSE p.sats[k - first]
                  [] OTHER -> NoSat]
  IN  [Set(Set(Marked(i, "GPGSV"), "SATINVIEWCOUNT", p.count), "SATINVIEW", sky)
         EXCEPT !.progress = (p.nr # p.of)]

\* nmeaGPRMCParse and nmeaGPRMCToInfo: before version 2.3 there is no mode.
RMCAt == [UTCTIME |-> 1, LAT |-> 3, LON |-> 5, SPEED |-> 7, TRACK |-> 8, UTCDATE |-> 9, MAGVAR |-> 10]
GPRMCParse(t) ==
  IF Len(t) \notin {11, 12} THEN {}
  ELSE LET mode == IF Len(t) = 11 THEN "" ELSE LetterOf(t[12])
           known == t[2] # Empty /\ (Len(t) = 12 => t[12] # Empty)
           status == IF known THEN [SIG |-> <<LetterOf(t[2]), mode>>] ELSE <<>>
       IN  {p \in {Scan(t, RMCAt, {"LAT", "LON", "MAGVAR"}) @@ status} :
              /\ Valid(p, "UTCTIME", ValidTime) /\ Valid(p, "UTCDATE", ValidDate)
              /\ t[2] # Empty => LetterOf(t[2]) \in {"A", "V"}
              /\ Valid(p, "SIG", LAMBDA v : v[2] = "" \/ \E k \in DOMAIN Modes : Modes[k] = v[2])
              /\ Valid(p, "LAT", NorthSouth) /\ Valid(p, "LON", EastWest) /\ Valid(p, "MAGVAR", EastWest)}
SignalOf(s, sig) ==
  CASE s[2] = "" -> IF s[1] = "A" /\ sig = 0 THEN 1 ELSE sig
    [] s[2] # "" /\ s[1] # "A" -> 0
    [] OTHER -> ModeToSignal(s[2])
GPRMCToInfo(p, i) ==
  Update(Marked(i, "GPRMC"),
         [f \in DOMAIN p |-> CASE f = "SIG" -> SignalOf(p.SIG, i.val.SIG)
                               [] f = "LAT" -> Unside(p.LAT, "S")
                               [] f \in {"LON", "MAGVAR"} -> Unside(p[f], "W")
                               [] f = "SPEED" -> KnotToKph(p.SPEED)
                               [] OTHER -> p[f]], Fields)

\* nmeaGPVTGParse and nmeaGPVTGToInfo
VTGAt == [TRACK |-> 1, MTRACK |-> 3, SPN |-> 5, SPK |-> 7]
VTGUnit == [TRACK |-> "T", MTRACK |-> "M", SPN |-> "N", SPK |-> "K"]
GPVTGParse(t) ==
  IF Len(t) # 8 THEN {}
  ELSE {p \in {Scan(t, VTGAt, DOMAIN VTGAt)} : \A f \in DOMAIN p : p[f][2] = VTGUnit[f]}
GPVTGToInfo(p, i) ==
  LET speed == CASE "SPK" \in DOMAIN p -> [SPEED |-> p.SPK[1]]
                 [] "SPK" \notin DOMAIN p /\ "SPN" \in DOMAIN p -> [SPEED |-> KnotToKph(p.SPN[1])]
                 [] OTHER -> <<>>
  IN  Update(Marked(i, "GPVTG"), [f \in DOMAIN p \cap Angles |-> p[f][1]] @@ speed, Fields)

\* nmeaSentenceFromPrefix and nmeaSentenceToInfo
SentenceToInfo(buf, i) ==
  LET kind == IF Len(buf) > 1 /\ buf[2][1] = "id" THEN buf[2][2] ELSE "GPNON"
      t == FieldsOf(buf)
      read(packs, ToInfo(_, _)) == IF packs = {} THEN i ELSE ToInfo(CHOOSE p \in packs : TRUE, i)
  IN  CASE kind = "GPGGA" -> read(GPGGAParse(t), GPGGAToInfo)
        [] kind = "GPGSA" -> read(GPGSAParse(t), GPGSAToInfo)
        [] kind = "GPGSV" -> read(GPGSVParse(t), GPGSVToInfo)
        [] kind = "GPRMC" -> read(GPRMCParse(t), GPRMCToInfo)
        [] kind = "GPVTG" -> read(GPVTGParse(t), GPVTGToInfo)
        [] OTHER -> i
----------------------------------------------------------------------------
(* The parser *)

\* nmeaParserReset
ParserReset(state) == [state |-> state, buf |-> <<>>, sum |-> <<>>, chk |-> <<>>, eol |-> 0, whole |-> FALSE]
Skip == ParserReset("skip")

Hex(c) == c[1] \in {"high", "low"}

\* A character of a sentence, already in the buffer.
Belongs(p, c) ==
  CASE p.state = "sentence" ->
         IF c = Star THEN [p EXCEPT !.state = "checksum"]
         ELSE IF c = CR THEN [p EXCEPT !.state = "eol", !.eol = 1]
         ELSE IF c \in {LF, Invalid} THEN Skip
         ELSE [p EXCEPT !.sum = Append(@, c)]
    [] p.state = "checksum" ->
         IF ~Hex(c) THEN Skip
         ELSE [p EXCEPT !.chk = Append(@, c), !.state = IF p.chk = <<>> THEN @ ELSE "eol"]
    [] p.state = "eol" ->
         IF p.eol = 0 THEN IF c # CR THEN Skip ELSE [p EXCEPT !.eol = 1]
         ELSE IF c # LF THEN Skip
         ELSE [p EXCEPT !.state = "skip", !.buf = SubSeq(@, 1, Len(@) - 2),
                        !.whole = (p.chk = <<>> \/ p.chk = Checksum(p.sum))]

\* Mutant of ProcessCharacter: a sentence start within a sentence does not begin anew.
ProcessNoRestart(p, c) ==
  CASE c = Dollar /\ p.state = "skip" -> [ParserReset("sentence") EXCEPT !.buf = <<c>>]
    [] c # Dollar /\ p.state = "skip" -> [p EXCEPT !.whole = FALSE]
    [] OTHER -> IF Len(p.buf) >= BufferSize - 1 THEN Skip
                ELSE Belongs([p EXCEPT !.buf = Append(@, c)], c)

\* nmeaParserProcessCharacter
ProcessCharacter(p, c) ==
  CASE c = Dollar -> [ParserReset("sentence") EXCEPT !.buf = <<c>>]
    [] c # Dollar /\ p.state = "skip" -> [p EXCEPT !.whole = FALSE]
    [] OTHER -> IF Len(p.buf) >= BufferSize - 1 THEN Skip
                ELSE Belongs([p EXCEPT !.buf = Append(@, c)], c)

\* nmeaParserParse of the characters lo to hi of s, in halves: what the parser
\* and the position, x, become (a set of one).
ParseOne(x, c) ==
  LET q == ProcessCharacter(x[1], c)
  IN  <<q, IF q.whole THEN SentenceToInfo(q.buf, x[2]) ELSE x[2]>>
RECURSIVE ParserParse(_, _, _, _)
ParserParse(s, lo, hi, x) ==
  IF lo = hi THEN {ParseOne(x, s[lo])}
  ELSE LET mid == (lo + hi) \div 2
       IN  UNION {ParserParse(s, mid + 1, hi, y) : y \in ParserParse(s, lo, mid, x)}
----------------------------------------------------------------------------
Init ==
  /\ gen = <<>> /\ mask \in Masks /\ src = Clear /\ sent = <<>>
  /\ stream = <<>> /\ line = "read" /\ faults = 0 /\ starless = FALSE
  /\ parser = Skip /\ info = Clear

Idle == stream = <<>>

\* nmeaGeneratorCreate; one for positions that rotate also moves.
Create(type) ==
  /\ gen = <<>> /\ sent = <<>>
  /\ gen' = (CASE type = "ROTATE" -> <<"rotate", "randmove">>
               [] type = "SAT_ROTATE" -> <<"rotate">>
               [] type = "POS_RANDMOVE" -> <<"randmove">>
               [] type = "NOISE" -> <<"noise">>
               [] OTHER -> <<"static">>)
  /\ src' = GeneratorInit(gen', IF type = "ROTATE" THEN GeneratorInit(<<"randmove">>, src) ELSE src)
  /\ UNCHANGED <<mask, sent, stream, line, faults, starless, parser, info>>

\* nmeaGeneratorReset
GeneratorReset ==
  /\ gen # <<>> /\ Idle /\ src # Reset(gen[1], src)
  /\ src' = Reset(gen[1], src)
  /\ UNCHANGED <<gen, mask, sent, stream, line, faults, starless, parser, info>>

Lines(bodies) == FlattenSeq([k \in DOMAIN bodies |-> Sentence(bodies[k])])

Send(i) ==
  /\ src' = i
  /\ sent' = Append(sent, i)
  /\ \E other \in IF sent = <<>> THEN Foreign ELSE {<<>>} : stream' = Lines(other) \o FromInfo(i, mask)
  /\ line' = "fresh"
  /\ UNCHANGED <<gen, mask, faults, starless, parser, info>>

\* nmeaGeneratorGenerateFrom
GenerateFrom ==
  /\ gen # <<>> /\ Idle /\ Len(sent) < MaxReports
  /\ \E i \in GeneratorInvoke(gen, src) : Send(i)

\* A cleared position with what g sets.
Given(g) ==
  [Clear EXCEPT !.present = g.present, !.metric = g.metric,
                !.val = [f \in Fields |-> IF f \in DOMAIN g.val THEN g.val[f] ELSE @[f]]]

\* A user sanitises a position and sends it.
SendSanitised ==
  /\ gen = <<>> /\ Idle /\ Len(sent) < MaxReports
  /\ \E g \in Infos : Send(Sanitise(Given(g)))

\* The line loses a symbol, damages it or has one too many.
Damage ==
  /\ line = "fresh" /\ faults < MaxFaults
  /\ \E k \in DOMAIN stream :
       \E how \in {"lost", "invalid", "other", "dollar"} :
         /\ stream' = SubSeq(stream, 1, k - 1)
                        \o (CASE how = "lost" -> <<>>
                              [] how = "invalid" -> <<Invalid>>
                              [] how = "other" -> <<Other>>
                              [] how = "dollar" -> <<Dollar, stream[k]>>)
                        \o SubSeq(stream, k + 1, Len(stream))
         /\ starless' = (starless \/ (stream[k] = Star /\ how \in {"lost", "other"}))
  /\ faults' = faults + 1
  /\ line' = "damaged"
  /\ UNCHANGED <<gen, mask, src, sent, parser, info>>

\* The next characters arrive: all, or one of a line that was never
\* damaged (a bound on the pieces).
Receive ==
  /\ ~Idle
  /\ \E n \in {1, Len(stream)} :
       /\ n = Len(stream) \/ faults = 0
       /\ \E r \in ParserParse(stream, 1, n, <<parser, info>>) : parser' = r[1] /\ info' = r[2]
       /\ stream' = SubSeq(stream, n + 1, Len(stream))
  /\ line' = IF line = "fresh" THEN "read" ELSE line
  /\ UNCHANGED <<gen, mask, src, sent, faults, starless>>

Next ==
  \/ \E type \in {"NOISE", "STATIC", "ROTATE", "SAT_ROTATE", "POS_RANDMOVE"} : Create(type)
  \/ GeneratorReset
  \/ GenerateFrom
  \/ SendSanitised
  \/ Damage
  \/ Receive

Spec == Init /\ [][Next]_vars
----------------------------------------------------------------------------
Carried ==
  [GPGGA |-> GGAFields, GPGSA |-> GSAFields, GPGSV |-> {"SATINVIEWCOUNT", "SATINVIEW"},
   GPRMC |-> RMCFields, GPVTG |-> VTGFields]

Known(s) == IF s[1] = 0 THEN NoSat ELSE s

\* The receiver's value v of field f is what the sender meant.
Means(f, v, i) ==
  CASE f \in Dops \cup Angles \cup {"ELV", "HEIGHT", "MAGVAR", "DGPSAGE"} -> Abs(v - i.val[f]) <= 5
    [] f = "SPEED" -> Abs(v - i.val.SPEED) <= 10
    [] OTHER -> v = i.val[f]

Said == Last(sent)

\* GPGSA only tells manual from automatic, and only where nothing else is known.
SignalTold == "GPRMC" \in mask \/ ("GPGGA" \in mask /\ ("GPGSA" \notin mask \/ Said.val.SIG # 0))

\* What is told of the satellites in view needs their number.
ViewTold(i) == {"SATINVIEW", "SATINVIEWCOUNT"} \subseteq i.present

\* A year has two digits: a sentence with 1990, which older dates are sanitised
\* to, is refused, and 2090 is read as 1990.
Dated(i) == "UTCDATE" \in i.present => i.val.UTCDATE[1] \in 1991 .. 2089

\* What the receiver has after an intact report is what was sent, as far as the
\* sentences carry it and print it, in whatever pieces the characters came.
Understood ==
  \A kind \in {k \in mask : k = "GPRMC" => Dated(Said)} :
    /\ \A f \in (Carried[kind] \cap Said.present) \ {"SIG", "SATINUSE", "SATINVIEW", "SATINVIEWCOUNT"} :
         f \in info.present /\ Means(f, info.val[f], Said)
    /\ "SIG" \in Carried[kind] \cap Said.present /\ SignalTold => info.val.SIG = Said.val.SIG
    /\ kind = "GPGSA" /\ "SATINUSE" \in Said.present =>
         LET known == SelectSeq(Said.val.SATINUSE, LAMBDA n : n # 0)
         IN  known # <<>> => SubSeq(info.val.SATINUSE, 1, info.val.SATINUSECOUNT) = known
    /\ kind = "GPGSV" /\ ViewTold(Said) =>
         /\ info.val.SATINVIEWCOUNT = Said.val.SATINVIEWCOUNT /\ ~info.progress
         /\ \A k \in Slots :
              info.val.SATINVIEW[k] =
                IF k <= Said.val.SATINVIEWCOUNT THEN Known(Said.val.SATINVIEW[k]) ELSE NoSat

\* Nothing is made up: whatever the line does, every value that the receiver has
\* was sent.
Sent(f, i) == \E k \in DOMAIN sent : f \in sent[k].present /\ Means(f, i.val[f], sent[k])
NothingMadeUp ==
  /\ \A f \in info.present \ {"SIG", "FIX", "SATINUSE", "SATINUSECOUNT", "SATINVIEW", "SATINVIEWCOUNT"} :
       Sent(f, info)
  /\ info.val.SIG \in {0, 1, 7} \cup {sent[k].val.SIG : k \in DOMAIN sent}
  /\ info.val.FIX = 1 \/ Sent("FIX", info)
  /\ info.val.SATINVIEWCOUNT = 0 \/ Sent("SATINVIEWCOUNT", info)
  /\ \A s \in Slots :
       /\ info.val.SATINUSE[s] = 0 \/ \E k \in DOMAIN sent, r \in Slots : sent[k].val.SATINUSE[r] = info.val.SATINUSE[s]
       /\ info.val.SATINVIEW[s] \in {NoSat} \cup {sent[k].val.SATINVIEW[s] : k \in DOMAIN sent}

\* What is sent is in range: an angle in a turn, a position on the globe.
InRange(i) ==
  /\ Abs(i.val.LAT) <= Quarter /\ Abs(i.val.LON) <= 2 * Quarter /\ i.val.SPEED >= 0
  /\ \A f \in Angles \cup {"MAGVAR"} : i.val[f] \in 0 .. 36000
  /\ \A k \in Slots : ValidSat(i.val.SATINVIEW[k])

\* The checksum is optional: a sentence whose star is lost is taken without.
SentencesTold ==
  /\ Idle /\ sent # <<>> /\ line = "read" => Understood
  /\ ~starless => NothingMadeUp
  /\ sent # <<>> => InRange(Said)
============================================================================
