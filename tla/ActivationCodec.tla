--------------------------- MODULE ActivationCodec ----------------------------
(***************************************************************************)
(* The codecs that carry activations between stages                        *)
(* (activation/builtin_activation_codecs.cpp).  "f32" sends the floats as  *)
(* they are, "f16" sends them as IEEE half precision numbers.  A float is  *)
(* the record of its three bit fields, a half is its 16 bits as a number.  *)
(***************************************************************************)
EXTENDS Integers, Sequences

Infinity == 31 * 2^10   \* the bits of a half's infinity

IsNaN(float) == float.exponent = 255 /\ float.mantissa # 0

\* value >> shift, rounded to the nearest, ties to even.
ShiftRounded(value, shift) ==
    LET kept == value \div 2^shift
        remainder == value % 2^shift
        halfway == 2^(shift - 1)
    IN IF remainder > halfway \/ (remainder = halfway /\ kept % 2 = 1) THEN kept + 1 ELSE kept

\* A mantissa rounded up to 2^10 carries into the exponent, up to infinity.
float_to_half(float) ==
    LET sign == float.sign * 2^15
        half_exponent == float.exponent - 127 + 15
        payload == float.mantissa \div 2^13
    IN CASE IsNaN(float) ->
              sign + Infinity + (IF payload < 2^9 THEN payload + 2^9 ELSE payload)
         [] ~IsNaN(float) /\ half_exponent >= 31 -> sign + Infinity
         [] half_exponent < -10 -> sign
         [] half_exponent \in -10..0 ->
              sign + ShiftRounded(float.mantissa + 2^23, 14 - half_exponent)
         [] half_exponent \in 1..30 ->
              sign + half_exponent * 2^10 + ShiftRounded(float.mantissa, 13)

half_to_float(value) ==
    LET exponent == (value \div 2^10) % 2^5
        mantissa == value % 2^10
        shift == CHOOSE k \in 1..10 : mantissa * 2^k \in 2^10..(2^11 - 1)
    IN [sign |-> value \div 2^15,
        exponent |-> CASE exponent = 0 /\ mantissa = 0 -> 0
                       [] exponent = 0 /\ mantissa # 0 -> 127 - 14 - shift
                       [] exponent = 31 -> 255
                       [] exponent \in 1..30 -> exponent + 127 - 15,
        mantissa |-> IF exponent = 0 /\ mantissa # 0
                     THEN ((mantissa * 2^shift) % 2^10) * 2^13 ELSE mantissa * 2^13]

-----------------------------------------------------------------------------
(* Payloads: little-endian bytes with the dtype of their elements. *)

ReadFloat(bytes) ==
    [sign |-> bytes[4] \div 2^7,
     exponent |-> (bytes[4] % 2^7) * 2 + bytes[3] \div 2^7,
     mantissa |-> (bytes[3] % 2^7) * 2^16 + bytes[2] * 2^8 + bytes[1]]

FloatByte(float, i) ==
    CASE i = 1 -> float.mantissa % 2^8
      [] i = 2 -> (float.mantissa \div 2^8) % 2^8
      [] i = 3 -> (float.exponent % 2) * 2^7 + float.mantissa \div 2^16
      [] i = 4 -> float.sign * 2^7 + float.exponent \div 2

HalfByte(half, i) == IF i = 1 THEN half % 2^8 ELSE half \div 2^8

\* Element i of a payload whose elements take width bytes.
Element(bytes, width, i) == SubSeq(bytes, (i - 1) * width + 1, i * width)

\* What the stages compute with.
Floats(bytes) == [i \in 1..(Len(bytes) \div 4) |-> ReadFloat(Element(bytes, 4, i))]

FloatBytes(floats) ==
    [b \in 1..(4 * Len(floats)) |-> FloatByte(floats[(b - 1) \div 4 + 1], ((b - 1) % 4) + 1)]

Throws == [ok |-> FALSE]

F32Codec(payload) ==
    IF payload.kind # "activation" \/ payload.dtype # "f32" THEN Throws
    ELSE [ok |-> TRUE, payload |-> payload]

F16Encode(payload) ==
    IF payload.kind # "activation" \/ payload.dtype # "f32" \/ Len(payload.bytes) % 4 # 0
    THEN Throws
    ELSE LET floats == Floats(payload.bytes)
         IN [ok |-> TRUE, payload |->
               [payload EXCEPT !.dtype = "f16",
                  !.bytes = [b \in 1..(2 * Len(floats)) |->
                      HalfByte(float_to_half(floats[(b - 1) \div 2 + 1]), ((b - 1) % 2) + 1)]]]

F16Decode(payload) ==
    IF payload.kind # "activation" \/ payload.dtype # "f16" \/ Len(payload.bytes) % 2 # 0
    THEN Throws
    ELSE LET Half(i) == payload.bytes[2 * i - 1] + payload.bytes[2 * i] * 2^8
         IN [ok |-> TRUE, payload |->
               [payload EXCEPT !.dtype = "f32",
                  !.bytes = FloatBytes([i \in 1..(Len(payload.bytes) \div 2) |->
                                           half_to_float(Half(i))])]]

encode(codec, payload) == IF codec = "f16" THEN F16Encode(payload) ELSE F32Codec(payload)
decode(codec, payload) == IF codec = "f16" THEN F16Decode(payload) ELSE F32Codec(payload)
=============================================================================
