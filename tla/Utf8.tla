--------------------------------- MODULE Utf8 ---------------------------------
(***************************************************************************)
(* The UTF-8 rules of this program.  A text crosses several of them on its *)
(* way: a reading position comes from the reader (reader.cpp), is stored   *)
(* (progress_store.c), uploaded and fetched (kosync.c); a device name is   *)
(* stored (settings_store.c), taken from the profile                       *)
(* (profile_sync_controller.c) and sent (kosync.c); and what is shown is   *)
(* decoded by text.c and encoded again by ui.c.  Each has code of its own. *)
(*                                                                         *)
(* A text grows byte by byte over a set of bytes that holds both ends of   *)
(* every range the code distinguishes; NUL ends a text and is not in one.  *)
(***************************************************************************)
EXTENDS Naturals, Sequences

CONSTANTS
    Bytes,      \* the bytes of a text
    MaxText,    \* bytes of the longest text
    DeviceMax   \* CN_KOSYNC_DEVICE_MAX and CN_SETTINGS_DEVICE_NAME_MAX (255)

BytesAssumption == Bytes \subseteq 1 .. 255
BoundsAssumption == MaxText \in Nat /\ DeviceMax \in Nat

VARIABLE text
vars == text

Continuation(b) == b \in 128 .. 191     \* (b & 0xc0) == 0x80

(* The bytes i to i + n - 1 are there, and all but the first continue it. *)
Continued(t, i, n) ==
    /\ i + n - 1 <= Len(t)
    /\ \A k \in i + 1 .. i + n - 1 : Continuation(t[k])

(* The bits that a sequence of n bytes from i on carries. *)
Payload(t, i, n) ==
    LET low(k) == t[i + k] % 64
    IN CASE n = 1 -> t[i]
         [] n = 2 -> (t[i] % 32) * 64 + low(1)
         [] n = 3 -> (t[i] % 16) * 4096 + low(1) * 64 + low(2)
         [] n = 4 -> (t[i] % 8) * 262144 + low(1) * 4096 + low(2) * 64 + low(3)

Minimum(n) == <<0, 128, 2048, 65536>>[n]

Surrogate(v) == v >= 55296 /\ v <= 57343    \* 0xd800 .. 0xdfff

Scalar(v) == v <= 1114111 /\ ~ Surrogate(v)

(* A validator takes one character after another: took[i] is the number of  *)
(* the bytes of the one at i, or 0, and then the text is refused at i.      *)
AcceptsBy(took) ==
    LET refused[i \in 1 .. Len(took) + 1] ==
            IF i > Len(took) THEN 0
            ELSE IF took[i] = 0 THEN i ELSE refused[i + took[i]]
    IN refused[1] = 0

-----------------------------------------------------------------------------
(* By lead byte ranges and then by value: kosync.c, and once more in        *)
(* sync_controller.c for the device id.                                     *)
LeadLength(b) ==
    CASE b < 128 -> 1
      [] b \in 194 .. 223 -> 2
      [] b \in 224 .. 239 -> 3
      [] b \in 240 .. 244 -> 4
      [] OTHER -> 0

ValueFits(v, n) == Scalar(v) /\ v >= Minimum(n)

TakeByValue(t, i) ==
    LET n == LeadLength(t[i])
    IN IF n > 0 /\ Continued(t, i, n) /\ ValueFits(Payload(t, i, n), n)
       THEN n ELSE 0

utf8_valid(t) == AcceptsBy([i \in DOMAIN t |-> TakeByValue(t, i)])

header_text_ok(t) ==
    Len(t) \in 1 .. DeviceMax /\ \A i \in DOMAIN t : t[i] >= 32 /\ t[i] # 127

(* One loop in the code: the length is checked at every byte. *)
TakeOfId(t, i) ==
    IF i > DeviceMax \/ t[i] < 32 \/ t[i] = 127 \/ i + TakeByValue(t, i) - 1 > DeviceMax
    THEN 0 ELSE TakeByValue(t, i)

cn_sync_valid_device_id(t) ==
    t # << >> /\ AcceptsBy([i \in DOMAIN t |-> TakeOfId(t, i)])

-----------------------------------------------------------------------------
(* By a range for the second byte: progress_store.c and reader.cpp.  *)
(* Mutant: the row of the surrogates is left out.                           *)
SecondRange_surrogates(b) ==
    CASE b = 224 -> 160 .. 191
      [] b = 240 -> 144 .. 191
      [] b = 244 -> 128 .. 143
      [] OTHER -> 128 .. 191

SecondRange(b) ==
    CASE b = 224 -> 160 .. 191
      [] b = 237 -> 128 .. 159
      [] b = 240 -> 144 .. 191
      [] b = 244 -> 128 .. 143
      [] OTHER -> 128 .. 191

TakeBySecond(t, i) ==
    LET n == LeadLength(t[i])
    IN IF \/ n = 1
          \/ n > 1 /\ Continued(t, i, n) /\ t[i + 1] \in SecondRange(t[i])
       THEN n ELSE 0

position_utf8_valid(t) == AcceptsBy([i \in DOMAIN t |-> TakeBySecond(t, i)])

-----------------------------------------------------------------------------
(* By the prefix bits of the lead byte: settings_store.c and                *)
(* profile_sync_controller.c, which refuse control characters as well, and  *)
(* the decoder of text.c.                                                   *)
PrefixLength(b) ==
    CASE b < 128 -> 1
      [] b \in 192 .. 223 -> 2
      [] b \in 224 .. 239 -> 3
      [] b \in 240 .. 247 -> 4
      [] OTHER -> 0

utf8_next(t, i) ==
    LET n == PrefixLength(t[i])
    IN IF n > 0 /\ Continued(t, i, n) /\ ValueFits(Payload(t, i, n), n)
       THEN n ELSE 0

Control(v) == v < 32 \/ v \in 127 .. 159

TakeOfName(t, i) ==
    LET n == utf8_next(t, i)
    IN IF n > 0 /\ ~ Control(Payload(t, i, n)) THEN n ELSE 0

utf8_device_name_valid(t) == AcceptsBy([i \in DOMAIN t |-> TakeOfName(t, i)])

DeviceNameOk(t) == Len(t) \in 1 .. DeviceMax /\ utf8_device_name_valid(t)

Skipped(t, i) == IF utf8_next(t, i) > 0 THEN utf8_next(t, i) ELSE 1

cn_utf8_decode(t) ==
    LET from[i \in 1 .. Len(t) + 1] ==
            IF i > Len(t) THEN << >>
            ELSE (IF utf8_next(t, i) > 0
                  THEN <<Payload(t, i, utf8_next(t, i))>> ELSE << >>)
                 \o from[i + Skipped(t, i)]
    IN from[1]

Bad(t) ==
    LET from[i \in 1 .. Len(t) + 1] ==
            IF i > Len(t) THEN 0
            ELSE (IF utf8_next(t, i) > 0 THEN 0 ELSE 1) + from[i + Skipped(t, i)]
    IN from[1]

-----------------------------------------------------------------------------
(* The encoders: append_codepoint of kosync.c, for \u escapes, and          *)
(* utf8_encode of ui.c, for a shortened title.                              *)

Encoded(v) ==
    CASE v < 128 -> <<v>>
      [] v >= 128 /\ v < 2048 -> <<192 + v \div 64, 128 + (v % 64)>>
      [] v >= 2048 /\ v < 65536 ->
            <<224 + v \div 4096, 128 + ((v \div 64) % 64), 128 + (v % 64)>>
      [] OTHER -> <<240 + v \div 262144, 128 + ((v \div 4096) % 64),
                    128 + ((v \div 64) % 64), 128 + (v % 64)>>

EncodedAll(s) ==
    LET from[i \in 1 .. Len(s) + 1] ==
            IF i > Len(s) THEN << >> ELSE Encoded(s[i]) \o from[i + 1]
    IN from[1]

-----------------------------------------------------------------------------
Init == text = << >>

Next == Len(text) < MaxText /\ \E b \in Bytes : text' = Append(text, b)

Spec == Init /\ [][Next]_vars

-----------------------------------------------------------------------------
(* Every character of the text is what its scalar value is encoded to. *)
Fits(t, i, n) ==
    /\ i + n - 1 <= Len(t)
    /\ Scalar(Payload(t, i, n))
    /\ Encoded(Payload(t, i, n)) = SubSeq(t, i, i + n - 1)

TakeRightly(t, i) ==
    IF \E n \in 1 .. 4 : Fits(t, i, n) THEN CHOOSE n \in 1 .. 4 : Fits(t, i, n) ELSE 0

WellFormed(t) == AcceptsBy([i \in DOMAIN t |-> TakeRightly(t, i)])

(* A reading position is judged alike by the reader, the store and the      *)
(* protocol, and correctly: none of them refuses what another hands it, so  *)
(* a position that was saved can be uploaded and one that was fetched can   *)
(* be saved.                                                                *)
PositionRulesAgree ==
    /\ utf8_valid(text) <=> WellFormed(text)
    /\ position_utf8_valid(text) <=> WellFormed(text)

(* A device name that the settings accept is accepted when it is sent. *)
DeviceNameIsSendable ==
    DeviceNameOk(text) => header_text_ok(text) /\ utf8_valid(text)

(* The device id is checked before any network traffic by the rules that    *)
(* the protocol client applies later ("Match the KOSync device_id header    *)
(* and UTF-8 rules").                                                       *)
DeviceIdRulesAgree ==
    cn_sync_valid_device_id(text) <=> header_text_ok(text) /\ utf8_valid(text)

(* What is shown: well-formed text is decoded to what encodes to the same   *)
(* bytes; in any other text every byte is either part of a character or     *)
(* counted as bad, so that no good character is lost behind a bad byte.     *)
DecoderLosesNothing ==
    /\ WellFormed(text) <=> Bad(text) = 0
    /\ WellFormed(text) => EncodedAll(cn_utf8_decode(text)) = text
    /\ Len(EncodedAll(cn_utf8_decode(text))) + Bad(text) = Len(text)
=============================================================================
