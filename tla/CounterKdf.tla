----------------------------- MODULE CounterKdf -----------------------------
(***************************************************************************)
(* The counter-mode key derivations: cmac_counter_kdf_with                 *)
(* (counter_kdf.rs), scp03_kdf and x963_kdf_sha256 (secure_channel.rs),    *)
(* and x963_kdf and mgf1 (digest.rs).                                      *)
(*                                                                         *)
(* The first walks the caller's fields twice: once to validate them, then  *)
(* once for every block of output, each with a call of a CMAC that may     *)
(* fail.  The others have a fixed layout, written here as fields.  A       *)
(* byte has Width bits, so that counters and lengths reach their limits.   *)
(***************************************************************************)
EXTENDS Integers, Sequences, Powers

CONSTANTS
  Width,          \* bits of a byte: 8
  PrfSize,        \* bytes of one CMAC or hash output
  CounterBits,    \* widest counter: 32
  LengthBits,     \* widest length field: 64
  Fields,         \* the fields callers put together
  MaxFields,      \* bound on their number
  OutputLengths   \* the output lengths to ask for

Radix == TwoTo[Width]

(* The assumptions of the properties: the types of the fields.             *)
WidthsFit ==
  Width \in Nat \ {0} /\ PrfSize \in Nat \ {0} /\ MaxFields \in Nat /\ OutputLengths \subseteq Nat
FormatType == [width_bits : Nat, little_endian : BOOLEAN]
FieldsFit ==
  Fields \subseteq [kind : {"bytes"}, bytes : Seq(0 .. Radix - 1)]
                    \cup [kind : {"counter"}, format : FormatType]
                    \cup [kind : {"length"}, format : FormatType, method : {"Key", "Segments"}]

VARIABLES
  kdf, fields, output_length,  \* the call
  extra_bits,                  \* bits scp03 is asked for beyond whole bytes
  pc, position,                \* where it is, and in which field
  counter, length,             \* whether a counter was seen; the length field
  iteration,                   \* block being derived
  inputs,                      \* the inputs handed to CMAC or the hash
  output,                      \* bytes so far: <<block, byte of the block>>
  result                       \* pending, ok, parameters, too_long or cmac

call == <<kdf, fields, output_length, extra_bits>>
vars == <<call, pc, position, counter, length, iteration, inputs, output, result>>

None == -1
CeilDiv(x, y) == (x + y - 1) \div y
Blocks == CeilDiv(output_length, PrfSize)
KeyBits == Width * output_length
SegmentBits == Width * PrfSize * Blocks

-----------------------------------------------------------------------------
(* IntegerFormat.                                                          *)

Valid(format, max_bits) ==
  /\ format.width_bits # 0 /\ format.width_bits <= max_bits
  /\ format.width_bits % Width = 0

(* Mutant of Fits: off by one.                                             *)
FitsOrEqual(format, value) == value <= TwoTo[format.width_bits]

Fits(format, value) == value < TwoTo[format.width_bits]

(* append: the low bytes of the value, in the order of the format.         *)
Encoded(format, value) ==
  LET width == format.width_bits \div Width
      byte(k) == (value \div TwoTo[Width * k]) % Radix
  IN  [k \in 1 .. width |-> IF format.little_endian THEN byte(k - 1) ELSE byte(width - k)]

(* The layouts of the fixed derivations: constant and zero bytes, length   *)
(* in two bytes, counter in one; secret, counter in four bytes, info; seed *)
(* and counter in four bytes.                                              *)
BytesField(bytes) == [kind |-> "bytes", bytes |-> bytes]
BigEndian(bytes) == [width_bits |-> bytes * Width, little_endian |-> FALSE]
Scp03Fields ==
  <<BytesField(<<0, 1, 0>>),
    [kind |-> "length", format |-> BigEndian(2), method |-> "Key"],
    [kind |-> "counter", format |-> BigEndian(1)],
    BytesField(<<2>>)>>
X963Fields ==
  <<BytesField(<<1>>), [kind |-> "counter", format |-> BigEndian(4)], BytesField(<<2>>)>>
Mgf1Fields == SubSeq(X963Fields, 1, 2)

Init ==
  /\ output_length \in OutputLengths
  /\ \/ /\ kdf = "cmac_counter" /\ extra_bits = 0
        /\ fields \in UNION {[1 .. c -> Fields] : c \in 0 .. MaxFields}
     \/ /\ kdf = "scp03" /\ extra_bits \in 0 .. 1
        /\ KeyBits + extra_bits < TwoTo[Width * 2]      \* a u16
        /\ fields = Scp03Fields
     \/ kdf \in {"x963_sha256", "x963"} /\ extra_bits = 0 /\ fields = X963Fields
     \/ kdf = "mgf1" /\ extra_bits = 0 /\ fields = Mgf1Fields
  /\ pc = "start" /\ position = 1
  /\ counter = FALSE /\ length = None /\ iteration = 1
  /\ inputs = << >> /\ output = << >> /\ result = "pending"

-----------------------------------------------------------------------------
Finish(outcome) ==
  /\ result' = outcome /\ pc' = "done"
  /\ UNCHANGED <<call, position, counter, length, iteration, inputs>>

(* A failure drops what was derived so far.                                *)
Fail(outcome) == Finish(outcome) /\ output' = << >>

(* The checks of the fixed layouts: whole bytes and a one-byte counter, or *)
(* a four-byte counter, which mgf1 starts at 0; x963_kdf asks for no empty *)
(* output.                                                                 *)
WholeBytes == kdf = "scp03" => KeyBits > 0 /\ extra_bits = 0
CounterLimit ==
  CASE kdf = "scp03" -> Radix - 1 [] kdf = "mgf1" -> TwoTo[Width * 4]
    [] OTHER -> TwoTo[Width * 4] - 1
InLimits == Blocks <= CounterLimit /\ (kdf = "x963" => output_length > 0)
CounterOf(block) == IF kdf = "mgf1" THEN block - 1 ELSE block

StartFixed ==
  /\ pc = "start" /\ kdf # "cmac_counter"
  /\ \/ ~WholeBytes /\ Fail("parameters")
     \/ WholeBytes /\ ~InLimits /\ Fail("too_long")
     \/ /\ WholeBytes /\ InLimits
        /\ length' = KeyBits
        /\ pc' = "derive"
        /\ UNCHANGED <<call, position, counter, iteration, inputs, output, result>>

Start ==
  /\ pc = "start" /\ kdf = "cmac_counter"
  /\ \/ output_length = 0 /\ Fail("parameters")
     \/ /\ output_length > 0
        /\ pc' = "validate"
        /\ UNCHANGED <<call, position, counter, length, iteration, inputs, output, result>>

NextField(seen, bits) ==
  /\ position' = position + 1 /\ counter' = seen /\ length' = bits
  /\ UNCHANGED <<call, pc, iteration, inputs, output, result>>

(* The validation loop, one field at a time.                               *)
ValidateBytes ==
  /\ pc = "validate" /\ position <= Len(fields) /\ fields[position].kind = "bytes"
  /\ NextField(counter, length)

ValidateCounter ==
  /\ pc = "validate" /\ position <= Len(fields) /\ fields[position].kind = "counter"
  /\ LET format == fields[position].format
         accepted == Valid(format, CounterBits) /\ ~counter
     IN  \/ ~accepted /\ Fail("parameters")
         \/ accepted /\ ~Fits(format, Blocks) /\ Fail("too_long")
         \/ accepted /\ Fits(format, Blocks) /\ NextField(TRUE, length)

ValidateLength ==
  /\ pc = "validate" /\ position <= Len(fields) /\ fields[position].kind = "length"
  /\ LET format == fields[position].format
         accepted == Valid(format, LengthBits) /\ length = None
         bits == IF fields[position].method = "Key" THEN KeyBits ELSE SegmentBits
     IN  \/ ~accepted /\ Fail("parameters")
         \/ accepted /\ ~Fits(format, bits) /\ Fail("too_long")
         \/ accepted /\ Fits(format, bits) /\ NextField(counter, bits)

EndOfFields ==
  /\ pc = "validate" /\ position > Len(fields)
  /\ \/ ~counter /\ Fail("parameters")
     \/ /\ counter
        /\ pc' = "derive"
        /\ UNCHANGED <<call, position, counter, length, iteration, inputs, output, result>>

(* The input of one block, as the list of its encoded fields.              *)
InputOf(i) ==
  [f \in 1 .. Len(fields) |->
     CASE fields[f].kind = "bytes" -> fields[f].bytes
       [] fields[f].kind = "counter" -> Encoded(fields[f].format, CounterOf(i))
       [] fields[f].kind = "length" -> Encoded(fields[f].format, length)]

Bytes(parts) ==
  LET joined[f \in 0 .. Len(parts)] == IF f = 0 THEN << >> ELSE joined[f - 1] \o parts[f]
  IN  joined[Len(parts)]

(* What a block adds to the output: all of it, where Return truncates.     *)
Remaining == IF output_length - Len(output) < PrfSize /\ kdf \in {"cmac_counter", "x963"}
               THEN output_length - Len(output) ELSE PrfSize

DeriveBlock ==
  /\ pc = "derive" /\ iteration <= Blocks
  /\ inputs' = Append(inputs, Bytes(InputOf(iteration)))
  /\ output' = output \o [k \in 1 .. Remaining |-> <<iteration, k>>]
  /\ iteration' = iteration + 1
  /\ UNCHANGED <<call, pc, position, counter, length, result>>

(* The caller's CMAC fails; a hash cannot.                                 *)
CmacFails ==
  /\ pc = "derive" /\ iteration <= Blocks /\ kdf \in {"cmac_counter", "scp03"}
  /\ Fail("cmac")

(* scp03_kdf, x963_kdf_sha256 and mgf1 truncate what the blocks gave.      *)
Return ==
  /\ pc = "derive" /\ iteration > Blocks
  /\ Finish("ok") /\ output' = SubSeq(output, 1, output_length)

Next ==
  \/ StartFixed \/ Start \/ ValidateBytes \/ ValidateCounter \/ ValidateLength
  \/ EndOfFields \/ DeriveBlock \/ CmacFails \/ Return

Spec == Init /\ [][Next]_vars

-----------------------------------------------------------------------------
Decoded(format, bytes) ==
  LET width == Len(bytes)
      digits == [k \in 1 .. width |->
                   IF format.little_endian THEN bytes[(width + 1) - k] ELSE bytes[k]]
      value[k \in 0 .. width] == IF k = 0 THEN 0 ELSE value[k - 1] * Radix + digits[k]
  IN  value[width]

(* DerivesExactly: whatever the widths, byte orders and places of the      *)
(* fields, a block's input has exactly one counter and all counter and     *)
(* length fields are read back as the number of the block and the announced*)
(* length in bits, so no two blocks of a key have the same input; and a    *)
(* successful derivation returns exactly the requested bytes, the leading  *)
(* ones of the blocks, a failed one none.                                  *)
FieldsAreTrue ==
  /\ \A i \in 1 .. Blocks, f \in 1 .. Len(fields) :
       /\ fields[f].kind = "counter" =>
            Decoded(fields[f].format, InputOf(i)[f]) = CounterOf(i)
       /\ fields[f].kind = "length" =>
            Decoded(fields[f].format, InputOf(i)[f]) =
              IF fields[f].method = "Key" THEN KeyBits ELSE SegmentBits
  /\ \E f \in 1 .. Len(fields) :
       \A g \in 1 .. Len(fields) : fields[g].kind = "counter" <=> g = f
OutputIsExact ==
  output = IF result # "ok" THEN << >>
           ELSE [k \in 1 .. output_length |->
                   <<((k - 1) \div PrfSize) + 1, ((k - 1) % PrfSize) + 1>>]
DerivesExactly ==
  /\ pc = "derive" => FieldsAreTrue
  /\ pc = "done" => OutputIsExact
=============================================================================
