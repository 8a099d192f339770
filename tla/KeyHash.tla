------------------------------ MODULE KeyHash ------------------------------
(***************************************************************************)
(* Flink's assignment of keys to key-groups and subtasks, and the Java     *)
(* hash codes it starts from (src/src/parser/key_group.rs). An i32 is its  *)
(* four bytes, least significant first, so that the wrapping arithmetic    *)
(* keeps its width within TLC's integers.                                  *)
(***************************************************************************)
EXTENDS Integers, Sequences
LOCAL INSTANCE Bitwise

\* Four bytes, computed at once.
Bytes4(b(_)) == <<b(1), b(2), b(3), b(4)>>

\* The four bytes of hi * 2^16 + lo.
Int32(hi, lo) == <<lo % 256, lo \div 256, hi % 256, hi \div 256>>
Zero32 == Int32(0, 0)

Add32(x, y) ==
    LET carry[i \in 0 .. 4] == IF i = 0 THEN 0 ELSE (x[i] + y[i] + carry[i - 1]) \div 256
    IN  Bytes4(LAMBDA i : (x[i] + y[i] + carry[i - 1]) % 256)

\* wrapping_mul.
Mul32(x, y) ==
    LET column(i) == CASE i = 1 -> x[1] * y[1]
                       [] i = 2 -> x[1] * y[2] + x[2] * y[1]
                       [] i = 3 -> x[1] * y[3] + x[2] * y[2] + x[3] * y[1]
                       [] i = 4 -> x[1] * y[4] + x[2] * y[3] + x[3] * y[2] + x[4] * y[1]
        carry[i \in 0 .. 4] == IF i = 0 THEN 0 ELSE (column(i) + carry[i - 1]) \div 256
    IN  Bytes4(LAMBDA i : (column(i) + carry[i - 1]) % 256)

Xor32(x, y) == Bytes4(LAMBDA i : x[i] ^^ y[i])

\* (x as u32) >> n, and x.rotate_left(n).
ByteOr0(x, i) == IF i \in 1 .. 4 THEN x[i] ELSE 0
ShiftRight32(x, n) ==
    LET lo(i) == i + (n \div 8)
        r == n % 8
    IN  Bytes4(LAMBDA i : (ByteOr0(x, lo(i)) \div 2 ^ r + ByteOr0(x, lo(i) + 1) * 2 ^ (8 - r)) % 256)
RotateLeft32(x, n) ==
    LET from(k) == x[((k - 1) % 4) + 1]
        hi(i) == from(i - (n \div 8) + 4)
        r == n % 8
    IN  Bytes4(LAMBDA i : (hi(i) * 2 ^ r + from(i - (n \div 8) + 3) \div 2 ^ (8 - r)) % 256)

IsNegative(x) == x[4] >= 128
MinInt == Int32(32768, 0)
Negate32(x) == Add32(Bytes4(LAMBDA i : 255 - x[i]), Int32(0, 1))

BitMix(x) ==
    LET a == Xor32(x, ShiftRight32(x, 16))
        b == Mul32(a, Int32(34283, 51819))      \* 0x85ebca6b
        c == Xor32(b, ShiftRight32(b, 13))
        d == Mul32(c, Int32(49842, 44597))      \* 0xc2b2ae35
    IN  Xor32(d, ShiftRight32(d, 16))

\* Mutant: i32::MIN is negated like any other negative number.
NegatesMin(x) == IF IsNegative(x) THEN Negate32(x) ELSE x

\* The last step of murmur_hash: never negative.
Absolute(x) ==
    IF ~IsNegative(x) THEN x ELSE IF x # MinInt THEN Negate32(x) ELSE Zero32

MurmurHash(code) ==
    LET a == RotateLeft32(Mul32(code, Int32(52382, 11601)), 15)     \* 0xcc9e2d51
        b == RotateLeft32(Mul32(a, Int32(7047, 13715)), 13)         \* 0x1b873593
        c == Add32(Mul32(b, Int32(0, 5)), Int32(58964, 27492))      \* 0xe6546b64
    IN  Absolute(BitMix(Xor32(c, Int32(0, 4))))

\* x % m for the i32 x, the sign of x kept (m * 256 fits TLC's integers).
Rem32(x, m) ==
    LET abs == IF IsNegative(x) THEN Negate32(x) ELSE x
        rem[i \in 0 .. 4] == IF i = 0 THEN 0 ELSE (rem[i - 1] * 256 + abs[5 - i]) % m
    IN  IF IsNegative(x) THEN -rem[4] ELSE rem[4]

\* key_group_for_hash.
KeyGroupForHash(hash, maxParallelism) == Rem32(MurmurHash(hash), maxParallelism)

\* range_for_subtask, both ends included, and its inverse subtask_for_key_group.
RangeForSubtask(maxParallelism, parallelism, subtask) ==
    (subtask * maxParallelism + parallelism - 1) \div parallelism
      .. ((subtask + 1) * maxParallelism - 1) \div parallelism
SubtaskForKeyGroup(maxParallelism, parallelism, keyGroup) ==
    (keyGroup * parallelism) \div maxParallelism

(***************************************************************************)
(* Hash codes. A long is its high and its low i32.                         *)
(***************************************************************************)

\* 31 * h + f over a sequence of i32: tuples, and strings by their UTF-16 units.
Hash31(hashes) ==
    LET from[i \in 0 .. Len(hashes)] ==
            IF i = 0 THEN Zero32 ELSE Add32(Mul32(from[i - 1], Int32(0, 31)), hashes[i])
    IN  from[Len(hashes)]

JavaUtf16Hash(units) == Hash31([i \in DOMAIN units |-> Int32(0, units[i])])
JavaTupleHash(fieldHashes) == Hash31(fieldHashes)
JavaLongHash(hi, lo) == Xor32(hi, lo)
=============================================================================
