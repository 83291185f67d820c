----------------------------- MODULE Encodings -----------------------------
(***************************************************************************)
(* The conversions of bytes of common/base58.go, common/types.go,          *)
(* common/byte.go and crypto/sign.go.                                      *)
(*                                                                         *)
(* A character of base 58 is its place in the alphabet, NoDigit when it is *)
(* not in it.  Addresses have AddrLen bytes instead of 25.                 *)
(***************************************************************************)
EXTENDS Integers, SequencesExt

CONSTANT AddrLen  \* addrLen

NoDigit == 255

\* The digits of n without leading zeros (big.Int.Bytes in base 256), and back.
RECURSIVE ToDigits(_, _)
ToDigits(n, base) == IF n = 0 THEN << >> ELSE Append(ToDigits(n \div base, base), n % base)
FromDigits(s, base) == FoldLeft(LAMBDA n, d : n * base + d, 0, s)

Zeros(n) == [i \in 1..n |-> 0]

\* The number of zeros that s begins with.
LeadingZeros(s) ==
  LET i == SelectInSeq(s, LAMBDA d : d # 0) IN IF i = 0 THEN Len(s) ELSE i - 1

\* Mutant of B58Encode: leading zeros are lost with the number.
B58EncodeNumber(data) == ToDigits(FromDigits(data, 256), 58)

B58Encode(data) ==
  Zeros(LeadingZeros(data)) \o ToDigits(FromDigits(data, 256), 58)

B58Decode(enc) ==
  IF NoDigit \in ToSet(enc) THEN << >>
  ELSE Zeros(LeadingZeros(enc)) \o ToDigits(FromDigits(enc, 58), 256)

-----------------------------------------------------------------------------
(* Addresses. *)

\* Address.SetBytes on a zero address: the last bytes, to the right.
Bytes2Address(b) ==
  IF Len(b) > AddrLen THEN SubSeq(b, Len(b) - AddrLen + 1, Len(b))
  ELSE Zeros(AddrLen - Len(b)) \o b

\* Address.UnmarshalJSON of what MarshalJSON writes, the text in quotes; 28 is
\* AddrLen + 3.
AddressJSON(a) ==
  IF Len(B58Encode(a)) + 2 < AddrLen + 3 THEN Bytes2Address(<<0>>)
  ELSE Bytes2Address(B58Decode(B58Encode(a)))

-----------------------------------------------------------------------------
(* Signatures. *)

\* BytesMixed, with one byte of length.
BytesMixed(src) == <<Len(src) % 256>> \o src

\* ReadMixedBytes: the field, and what is left in the buffer.  A field that is
\* not all there is padded; it is an error when none of it is there.
ReadMixedBytes(buf) ==
  IF buf = << >> \/ (buf[1] > 0 /\ Len(buf) = 1)
  THEN [ok |-> FALSE, val |-> << >>, rest |-> << >>]
  ELSE LET got == SubSeq(Tail(buf), 1, buf[1])
       IN  [ok |-> TRUE, val |-> got \o Zeros(buf[1] - Len(got)),
            rest |-> SubSeq(buf, Len(got) + 2, Len(buf))]

\* ECDSASign: r, s and the coordinates of the key, in one frame.
SignatureBytes(fields) == BytesMixed(FlattenSeq([i \in DOMAIN fields |-> BytesMixed(fields[i])]))

\* VerifySignature, ParsePubKeyFromSignature: the fields of a signature; the
\* sum totalLen + 1 is a byte.
SignatureFields(sig) ==
  LET body == SubSeq(sig, 2, (sig[1] + 1) % 256)
      r == ReadMixedBytes(body)
      s == ReadMixedBytes(r.rest)
      x == ReadMixedBytes(s.rest)
      y == ReadMixedBytes(x.rest)
  IN  IF r.ok /\ s.ok /\ x.ok /\ y.ok THEN <<r.val, s.val, x.val, y.val>> ELSE << >>
=============================================================================
