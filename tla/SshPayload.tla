---------------------------- MODULE SshPayload ----------------------------
(***************************************************************************)
(* The parsers of the session requests' payloads.  A byte has Base values  *)
(* and a uint32 has Width bytes, so that all short payloads can be tried;  *)
(* the program has Base = 256 and Width = 4.  Arithmetic on lengths wraps  *)
(* as it does in the code.                                                 *)
(***************************************************************************)
EXTENDS Naturals, Sequences

CONSTANTS Base, Width

ASSUME SshPayloadAssumption == Base \in Nat \ {0, 1} /\ Width \in Nat \ {0}

Byte == 0 .. (Base - 1)

\* The value of the first Width bytes, the most significant one first.
beUint32(b) ==
  LET value[i \in 0..Width] == IF i = 0 THEN 0 ELSE value[i - 1] * Base + b[i]
  IN  value[Width]

\* Base to the power of i.
Power[i \in 0..Width] == IF i = 0 THEN 1 ELSE Power[i - 1] * Base

Wrap(n) == n % Power[Width]

\* A payload's length fits a uint32, as that of an SSH packet does.
Payload == {b \in Seq(Byte) : Len(b) < Power[Width]}

\* The low half of a number: uint16(n).
Short(n) == n % Power[Width \div 2]

Drop(b, n) == SubSeq(b, n + 1, Len(b))

NotOk == [ok |-> "no"]

\* Faulty variant: a string that ends with the payload is refused.
unmarshalStringStrict(b) ==
  IF Len(b) < Width \/ Wrap(Len(b)) <= Wrap(Width + beUint32(b)) THEN NotOk
  ELSE LET end == Wrap(Width + beUint32(b))
       IN  [ok |-> "yes", s |-> SubSeq(b, Width + 1, end), rest |-> Drop(b, end)]

\* Slicing b[4:end] panics when end, the wrapped sum, is less than 4.
unmarshalString(b) ==
  IF Len(b) < Width THEN NotOk
  ELSE LET end == Wrap(Width + beUint32(b)) IN
       IF Wrap(Len(b)) < end THEN NotOk
       ELSE IF end < Width THEN [ok |-> "panic"]
       ELSE [ok |-> "yes", s |-> SubSeq(b, Width + 1, end), rest |-> Drop(b, end)]

\* The four numbers of a window size.
Size(b) == [cols |-> beUint32(b), rows |-> beUint32(Drop(b, Width)),
            xPx |-> beUint32(Drop(b, 2 * Width)), yPx |-> beUint32(Drop(b, 3 * Width))]

parseWinChReq(p) == IF Len(p) < 4 * Width THEN NotOk ELSE [ok |-> "yes", size |-> Size(p)]

parsePtyReq(p) ==
  LET term == unmarshalString(p) IN
  IF term.ok # "yes" THEN term
  ELSE IF Len(term.rest) < 4 * Width THEN NotOk
  ELSE [ok |-> "yes", term |-> term.s, size |-> Size(term.rest)]

parseEnvReq(p) ==
  LET k == unmarshalString(p) IN
  IF k.ok # "yes" THEN k
  ELSE LET v == unmarshalString(k.rest) IN
       IF v.ok # "yes" THEN v ELSE [ok |-> "yes", key |-> k.s, value |-> v.s]

parseExecReq(p) ==
  LET line == unmarshalString(p) IN
  IF line.ok # "yes" THEN line ELSE [ok |-> "yes", line |-> line.s]

-----------------------------------------------------------------------------
(***************************************************************************)
(* What the wire format says: a string is its length and its bytes.        *)
(***************************************************************************)
IsNumber(b, n) == Len(b) = Width /\ beUint32(b) = n

\* The ways to read b as a string and a rest.
Readings(b) ==
  {<<SubSeq(b, Width + 1, k), Drop(b, k)>> :
     k \in {j \in Width .. Len(b) : IsNumber(SubSeq(b, 1, Width), j - Width)}}

\* The results a parser may give: one string, and two in a row.
LineReadings(p) == {[ok |-> "yes", line |-> r[1]] : r \in Readings(p)}
KeyedReadings(k, p) == {[ok |-> "yes", key |-> k, value |-> r[1]] : r \in Readings(p)}
PairReadings(p) == UNION {KeyedReadings(r[1], r[2]) : r \in Readings(p)}

\* A string with four numbers after it.
PtyReadings(p) == {r \in Readings(p) : Len(r[2]) >= 4 * Width}

SizeFields(s) == <<s.cols, s.rows, s.xPx, s.yPx>>

\* b starts with the four numbers of size.
StartsWithSize(b, size) ==
  /\ Len(b) >= 4 * Width
  /\ \A i \in 1..4 : IsNumber(SubSeq(b, (i - 1) * Width + 1, i * Width), SizeFields(size)[i])

Exact(result, readings) ==
  IF readings = {} THEN result.ok # "yes" ELSE result.ok = "yes" /\ result \in readings

\* The parsers accept p exactly if the wire format has a reading of it, and then
\* return that reading.  unmarshalString's sum of lengths wraps: the panic this
\* can end in is, like an error, not an acceptance.
ParsedExactly(p) ==
  /\ Exact(parseExecReq(p), LineReadings(p))
  /\ Exact(parseEnvReq(p), PairReadings(p))
  /\ LET w == parseWinChReq(p)
     IN  IF w.ok = "yes" THEN StartsWithSize(p, w.size) ELSE Len(p) < 4 * Width
  /\ LET q == parsePtyReq(p)
     IN  IF q.ok = "yes"
         THEN \E r \in PtyReadings(p) : r[1] = q.term /\ StartsWithSize(r[2], q.size)
         ELSE PtyReadings(p) = {}
=============================================================================
