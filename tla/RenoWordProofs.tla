--------------------------- MODULE RenoWordProofs ---------------------------
(***************************************************************************)
(* Theorems of RenoWord: until the locks of a round add up to UintMod, the *)
(* bytes of the word are what RenoIndex takes them to be, for every number *)
(* of slots, every UintMod above twice as many, 2^32 included, and any     *)
(* number of fetch-and-adds between two passes.                            *)
(***************************************************************************)
EXTENDS RenoWord, RenoIndexProofs

---------------------------------------------------------------------------
(* The bytes of a word.                                                    *)

Counts == 0..(UintMod - 1)
Bytes  == 0..255

(* The word with these counts of locks and these bits, whose free count is *)
(* exact.                                                                  *)
Packed(r, l, f, b) == r + UintMod * (l + 256 * f + 65536 * b)

(* A quotient and a remainder, for a divisor that is not known.            *)
LEMMA Quotient ==
  ASSUME NEW u \in Nat \ {0}, NEW h \in Nat, NEW r \in 0..(u - 1)
  PROVE  /\ (r + u * h) % u = r
         /\ (r + u * h) \div u = h
<1> DEFINE n == r + u * h
           q == n \div u
           m == n % u
<1>1. n \in Nat /\ q \in Int /\ m \in 0..(u - 1) /\ n = u * q + m
  OBVIOUS
<1>2. u * (h - q) = m - r
  BY <1>1
<1>3. h = q
  OBVIOUS
<1> QED BY <1>1, <1>3

LEMMA Below ==
  ASSUME NEW u \in Nat \ {0}, NEW k \in Nat \ {0}, NEW r \in 0..(u - 1), NEW l \in 0..(k - 1)
  PROVE  r + u * l \in 0..(u * k - 1)
<1>1. u * l \in Nat /\ u * (k - 1 - l) \in Nat
  OBVIOUS
<1>2. u * (k - 1 - l) = u * k - u - u * l
  OBVIOUS
<1> QED BY <1>1, <1>2

(* What the fields of a word are. *)
LEMMA Fields ==
  ASSUME NEW r \in Counts, NEW l \in Bytes, NEW f \in Bytes, NEW b \in Bytes
  PROVE  /\ Rlock(Packed(r, l, f, b)) = r /\ Llock(Packed(r, l, f, b)) = l
         /\ Freecount(Packed(r, l, f, b)) = f /\ Bitmap(Packed(r, l, f, b)) = b
         /\ Packed(r, l, f, b) \div FreeUnit = f + 256 * b
<1> DEFINE w == Packed(r, l, f, b)
<1>0. /\ UintMod \in Nat \ {0}
      /\ r \in 0..(UintMod - 1) /\ l \in 0..255 /\ f \in 0..255 /\ b \in 0..255
  BY UintModAssumption DEF Counts, Bytes
<1>1. Rlock(w) = r /\ w \div UintMod = l + 256 * f + 65536 * b
  <2> DEFINE h == l + 256 * f + 65536 * b
  <2>1. h \in Nat /\ w = r + UintMod * h
    BY <1>0 DEF Packed
  <2> HIDE DEF h, w
  <2>2. (r + UintMod * h) % UintMod = r /\ (r + UintMod * h) \div UintMod = h
    BY <1>0, <2>1, Quotient
  <2> QED BY <2>1, <2>2 DEF Rlock, h
<1>2. w \div FreeUnit = f + 256 * b
  <2>1. r + UintMod * l \in 0..(UintMod * 256 - 1)
    BY <1>0, Below
  <2>2. w = (r + UintMod * l) + (UintMod * 256) * (f + 256 * b)
    BY <1>0 DEF Packed
  <2>3. UintMod * 256 \in Nat \ {0} /\ f + 256 * b \in Nat
    BY <1>0
  <2> HIDE DEF w
  <2> QED BY <2>1, <2>2, <2>3, Quotient DEF FreeUnit
<1>3. w \div BitmapUnit = b
  <2>1. r + UintMod * (l + 256 * f) \in 0..(UintMod * 65536 - 1)
    BY <1>0, Below
  <2>2. w = (r + UintMod * (l + 256 * f)) + (UintMod * 65536) * b
    BY <1>0 DEF Packed
  <2>3. UintMod * 65536 \in Nat \ {0} /\ b \in Nat
    BY <1>0
  <2> HIDE DEF w
  <2> QED BY <2>1, <2>2, <2>3, Quotient DEF BitmapUnit
<1> HIDE DEF w
<1>4. Llock(w) = l
  BY <1>0, <1>1 DEF Llock, LlockUnit
<1>5. Freecount(w) = f
  BY <1>0, <1>2 DEF Freecount
<1>6. Bitmap(w) = b
  BY <1>0, <1>3 DEF Bitmap
<1> QED BY <1>1, <1>2, <1>4, <1>5, <1>6 DEF w

(* A fetch-and-add that does not make rlock wrap.                          *)
LEMMA AddsOne ==
  ASSUME NEW r \in Counts, NEW l \in Bytes, NEW f \in Bytes, NEW b \in Bytes,
         r + 1 < UintMod
  PROVE  Added(Packed(r, l, f, b)) = Packed(r + 1, l, f, b)
<1>0. /\ UintMod \in Nat \ {0}
      /\ r \in 0..(UintMod - 1) /\ l \in 0..255 /\ f \in 0..255 /\ b \in 0..255
  BY UintModAssumption DEF Counts, Bytes
<1> DEFINE w == Packed(r + 1, l, f, b)
<1>1. w = Packed(r, l, f, b) + 1 /\ w \in Nat
  BY <1>0 DEF Packed
<1>2. w \in 0..(UintMod * (256 * 65536) - 1)
  <2> DEFINE h == l + 256 * f + 65536 * b
             k == 256 * 65536
  <2> HIDE DEF w
  <2>1. h \in 0..(k - 1) /\ k \in Nat \ {0}
    <3>1. h \in Nat /\ h <= 255 + 256 * 255 + 65536 * 255
      BY <1>0
    <3>2. k \in Nat \ {0} /\ 255 + 256 * 255 + 65536 * 255 <= k - 1
      OBVIOUS
    <3> HIDE DEF h, k
    <3> QED BY <3>1, <3>2
  <2>2. w = (r + 1) + UintMod * h
    BY DEF w, Packed
  <2> HIDE DEF h, k
  <2>3. (r + 1) + UintMod * h \in 0..(UintMod * k - 1)
    BY <1>0, <2>1, Below
  <2> QED BY <2>2, <2>3 DEF k
<1>3. BitmapUnit * 256 = UintMod * (256 * 65536)
  BY <1>0 DEF BitmapUnit
<1> HIDE DEF w
<1>4. w % (UintMod * (256 * 65536)) = w
  BY <1>0, <1>2
<1> QED BY <1>1, <1>3, <1>4 DEF Added, w

(* A store of one byte leaves the other fields alone.                      *)
LEMMA PutByte ==
  ASSUME NEW r \in Counts, NEW l \in Bytes, NEW f \in Bytes, NEW b \in Bytes,
         NEW x \in Bytes
  PROVE  /\ Put(Packed(r, l, f, b), LlockUnit, x) = Packed(r, x, f, b)
         /\ Put(Packed(r, l, f, b), FreeUnit, x) = Packed(r, l, x, b)
         /\ Put(Packed(r, l, f, b), BitmapUnit, x) = Packed(r, l, f, x)
<1>0. /\ UintMod \in Nat \ {0}
      /\ r \in 0..(UintMod - 1) /\ l \in 0..255 /\ f \in 0..255 /\ b \in 0..255
  BY UintModAssumption DEF Counts, Bytes
<1> DEFINE w == Packed(r, l, f, b)
<1> HIDE DEF w
<1>1. Llock(w) = l /\ Freecount(w) = f /\ Bitmap(w) = b
  <2>1. /\ Rlock(Packed(r, l, f, b)) = r /\ Llock(Packed(r, l, f, b)) = l
        /\ Freecount(Packed(r, l, f, b)) = f /\ Bitmap(Packed(r, l, f, b)) = b
        /\ Packed(r, l, f, b) \div FreeUnit = f + 256 * b
    BY Fields
  <2> QED BY <2>1 DEF w
<1>2. w \in Int
  BY <1>0 DEF Packed, w
<1>3. /\ Put(w, LlockUnit, x) = w + (x - l) * UintMod
      /\ Put(w, FreeUnit, x) = w + (x - f) * (UintMod * 256)
      /\ Put(w, BitmapUnit, x) = w + (x - b) * (UintMod * 65536)
  BY <1>1 DEF Put, Llock, Freecount, Bitmap, LlockUnit, FreeUnit, BitmapUnit
<1>4. /\ w + (x - l) * UintMod = Packed(r, x, f, b)
      /\ w + (x - f) * (UintMod * 256) = Packed(r, l, x, b)
      /\ w + (x - b) * (UintMod * 65536) = Packed(r, l, f, x)
  BY <1>0 DEF w, Packed
<1> QED BY <1>3, <1>4 DEF w

---------------------------------------------------------------------------
LEMMA Flags ==
  /\ BitFlag(0) = 128 /\ BitFlag(1) = 64 /\ BitFlag(2) = 32 /\ BitFlag(3) = 16
  /\ BitFlag(4) = 8 /\ BitFlag(5) = 4 /\ BitFlag(6) = 2 /\ BitFlag(7) = 1
  BY DEF BitFlag, ShiftRight

LEMMA Masks ==
  /\ KeepMask(0) = 127 /\ KeepMask(1) = 191 /\ KeepMask(2) = 223 /\ KeepMask(3) = 239
  /\ KeepMask(4) = 247 /\ KeepMask(5) = 251 /\ KeepMask(6) = 253 /\ KeepMask(7) = 254
<1>1. PICK n \in Int : n = -129 /\ n + 129 = 0
  OBVIOUS
<1>2. /\ KeepMask(0) = (n \div 1) % 256 /\ KeepMask(1) = (n \div 2) % 256
      /\ KeepMask(2) = (n \div 4) % 256 /\ KeepMask(3) = (n \div 8) % 256
      /\ KeepMask(4) = (n \div 16) % 256 /\ KeepMask(5) = (n \div 32) % 256
      /\ KeepMask(6) = (n \div 64) % 256 /\ KeepMask(7) = (n \div 128) % 256
  BY <1>1 DEF KeepMask, ShiftRight
<1>3. n + 129 = 0
  BY <1>1
<1>4. /\ (n \div 1) % 256 = 127 /\ (n \div 2) % 256 = 191
      /\ (n \div 4) % 256 = 223 /\ (n \div 8) % 256 = 239
      /\ (n \div 16) % 256 = 247 /\ (n \div 32) % 256 = 251
      /\ (n \div 64) % 256 = 253 /\ (n \div 128) % 256 = 254
  BY <1>3
<1> QED BY <1>2, <1>4

(* A byte is the number of its bits, and the bits of that number are they. *)
LEMMA BitsOfNum ==
  ASSUME NEW bits \in SUBSET (0..7)
  PROVE  Num(bits) \in 0..255 /\ Bits(Num(bits)) = bits
<1> DEFINE x(i) == IF i \in bits THEN 1 ELSE 0
           n == 128 * x(0) + 64 * x(1) + 32 * x(2) + 16 * x(3)
                  + 8 * x(4) + 4 * x(5) + 2 * x(6) + x(7)
<1>1. Num(bits) = n
  BY Flags DEF Num
<1>2. /\ (n \div 128) % 2 = x(0) /\ (n \div 64) % 2 = x(1) /\ (n \div 32) % 2 = x(2)
      /\ (n \div 16) % 2 = x(3) /\ (n \div 8) % 2 = x(4) /\ (n \div 4) % 2 = x(5)
      /\ (n \div 2) % 2 = x(6) /\ (n \div 1) % 2 = x(7)
  OBVIOUS
<1>3. n \in 0..255
  OBVIOUS
<1>4. \A i \in 0..7 : (n \div BitFlag(i)) % 2 = x(i)
  <2> HIDE DEF n
  <2> QED BY <1>2, Flags
<1> HIDE DEF n
<1>5. \A i \in 0..7 : i \in Bits(n) <=> i \in bits
  BY <1>4 DEF Bits
<1>6. Bits(n) \in SUBSET (0..7)
  BY DEF Bits
<1>7. Bits(n) = bits
  BY <1>5, <1>6
<1> QED BY <1>1, <1>3, <1>7

(* The masks of the pass set one bit of a byte, and clear one.             *)
LEMMA SetBit ==
  ASSUME NEW bits \in SUBSET (0..7), NEW i \in 0..7
  PROVE  Or(Num(bits), BitFlag(i)) = Num(bits \cup {i})
<1>1. BitFlag(i) = Num({i})
  BY Flags DEF Num
<1>2. Bits(Num(bits)) = bits /\ Bits(Num({i})) = {i}
  BY BitsOfNum
<1> QED BY <1>1, <1>2 DEF Or

LEMMA ClearBit ==
  ASSUME NEW bits \in SUBSET (0..7), NEW i \in 0..7
  PROVE  And(Num(bits), KeepMask(i)) = Num(bits \ {i})
<1>1. KeepMask(i) = Num((0..7) \ {i})
  BY Flags, Masks DEF Num
<1>2. Bits(Num(bits)) = bits /\ Bits(Num((0..7) \ {i})) = (0..7) \ {i}
  BY BitsOfNum
<1>3. bits \cap ((0..7) \ {i}) = bits \ {i}
  OBVIOUS
<1> QED BY <1>1, <1>2, <1>3 DEF And

---------------------------------------------------------------------------
(* The word with these counts of locks and these bits, whose free count is *)
(* exact.                                                                  *)
Word(r, l, bits) == Packed(r, l, Cardinality(Free(bits)), Num(bits))

LEMMA WordTypes ==
  ASSUME NEW bits \in SUBSET Slots
  PROVE  /\ Cardinality(Free(bits)) \in Bytes /\ Cardinality(Free(bits)) \in 0..LineNum
         /\ Num(bits) \in Bytes /\ Bits(Num(bits)) = bits
<1>1. bits \in SUBSET (0..7)
  BY LineNumAssumption DEF Slots
<1>2. Cardinality(Free(bits)) \in 0..LineNum
  BY FreeCounts
<1> QED BY <1>1, <1>2, BitsOfNum, LineNumAssumption DEF Bytes

LEMMA WordFields ==
  ASSUME NEW r \in Counts, NEW l \in Bytes, NEW bits \in SUBSET Slots
  PROVE  /\ Rlock(Word(r, l, bits)) = r /\ Llock(Word(r, l, bits)) = l
         /\ Freecount(Word(r, l, bits)) = Cardinality(Free(bits))
         /\ Bitmap(Word(r, l, bits)) = Num(bits)
         /\ Bits(Bitmap(Word(r, l, bits))) = bits
<1>1. /\ Cardinality(Free(bits)) \in Bytes
      /\ Num(bits) \in Bytes /\ Bits(Num(bits)) = bits
  BY WordTypes
<1>2. PICK f \in Bytes, b \in Bytes : f = Cardinality(Free(bits)) /\ b = Num(bits)
  BY <1>1
<1>3. /\ Rlock(Packed(r, l, f, b)) = r /\ Llock(Packed(r, l, f, b)) = l
      /\ Freecount(Packed(r, l, f, b)) = f /\ Bitmap(Packed(r, l, f, b)) = b
      /\ Packed(r, l, f, b) \div FreeUnit = f + 256 * b
  BY Fields
<1> QED BY <1>1, <1>2, <1>3 DEF Word

LEMMA CommitOne ==
  ASSUME NEW r \in Counts, NEW l \in Bytes, NEW bits \in SUBSET Slots, NEW s \in Slots,
         s \notin bits
  PROVE  Commit(Word(r, l, bits), s) = Word(r, l, bits \cup {s})
<1>1. PICK f \in Bytes, b \in Bytes, g \in Bytes, c \in Bytes :
        /\ f = Cardinality(Free(bits)) /\ b = Num(bits)
        /\ g = Cardinality(Free(bits \cup {s})) /\ c = Num(bits \cup {s})
  BY WordTypes
<1>2. Byte(f - 1) = g
  BY <1>1, CountedCopy
<1>3. Or(b, BitFlag(s)) = c
  <2>1. bits \in SUBSET (0..7) /\ s \in 0..7
    BY LineNumAssumption DEF Slots
  <2> QED BY <1>1, <2>1, SetBit
<1>4. Bitmap(Word(r, l, bits)) = b /\ Freecount(Word(r, l, bits)) = f
  BY <1>1, WordFields
<1>5. /\ Put(Packed(r, l, f, b), BitmapUnit, c) = Packed(r, l, f, c)
      /\ Put(Packed(r, l, f, c), FreeUnit, g) = Packed(r, l, g, c)
  BY PutByte
<1> QED BY <1>1, <1>2, <1>3, <1>4, <1>5 DEF Commit, Word

LEMMA ClearOne ==
  ASSUME NEW r \in Counts, NEW l \in Bytes, NEW bits \in SUBSET Slots, NEW s \in bits
  PROVE  Clear(Word(r, l, bits), s) = Word(r, l, bits \ {s})
<1>0. s \in Slots /\ bits \ {s} \in SUBSET Slots
  OBVIOUS
<1>1. PICK f \in Bytes, b \in Bytes, g \in Bytes, c \in Bytes :
        /\ f = Cardinality(Free(bits)) /\ b = Num(bits)
        /\ g = Cardinality(Free(bits \ {s})) /\ c = Num(bits \ {s})
  BY <1>0, WordTypes
<1>2. Byte(f + 1) = g
  BY <1>0, <1>1, CountedCopy
<1>3. And(b, KeepMask(s)) = c
  <2>1. bits \in SUBSET (0..7) /\ s \in 0..7
    BY LineNumAssumption DEF Slots
  <2> QED BY <1>1, <2>1, ClearBit
<1>4. Bitmap(Word(r, l, bits)) = b /\ Freecount(Word(r, l, bits)) = f
  BY <1>1, WordFields
<1>5. /\ Put(Packed(r, l, f, b), BitmapUnit, c) = Packed(r, l, f, c)
      /\ Put(Packed(r, l, f, c), FreeUnit, g) = Packed(r, l, g, c)
  BY PutByte
<1> QED BY <1>1, <1>2, <1>3, <1>4, <1>5 DEF Clear, Word

---------------------------------------------------------------------------
(* The loops of the pass: over the slots, each of them storing its bit.    *)
LEMMA CommitsAll ==
  ASSUME NEW r \in Counts, NEW l \in Bytes, NEW bits \in SUBSET Slots,
         NEW slots \in SUBSET (Slots \ bits)
  PROVE  CommitAll(Word(r, l, bits), slots) = Word(r, l, bits \cup slots)
<1> DEFINE w == Word(r, l, bits)
           upto(n) == Word(r, l, bits \cup (slots \cap 0..(n - 1)))
           IsScan(f) == f = [n \in 0..LineNum |->
                               IF n = 0 THEN w
                               ELSE IF n - 1 \in slots THEN Commit(f[n - 1], n - 1)
                               ELSE f[n - 1]]
           scan == CHOOSE f : IsScan(f)
<1>1. \A n \in 0..LineNum :
        upto(n) = IF n = 0 THEN w
                  ELSE IF n - 1 \in slots THEN Commit(upto(n - 1), n - 1) ELSE upto(n - 1)
  <2>1. upto(0) = w
    <3>1. bits \cup (slots \cap 0..(0 - 1)) = bits
      OBVIOUS
    <3> QED BY <3>1
  <2>2. ASSUME NEW n \in 0..LineNum, n # 0, n - 1 \in slots
        PROVE  upto(n) = Commit(upto(n - 1), n - 1)
    <3> DEFINE seen == bits \cup (slots \cap 0..((n - 1) - 1))
    <3>1. seen \in SUBSET Slots /\ n - 1 \in Slots /\ n - 1 \notin seen
      BY <2>2
    <3>2. bits \cup (slots \cap 0..(n - 1)) = seen \cup {n - 1}
      BY <2>2
    <3> HIDE DEF seen
    <3>3. Commit(Word(r, l, seen), n - 1) = Word(r, l, seen \cup {n - 1})
      BY <3>1, CommitOne
    <3> QED BY <3>2, <3>3 DEF seen
  <2>3. ASSUME NEW n \in 0..LineNum, n # 0, n - 1 \notin slots
        PROVE  upto(n) = upto(n - 1)
    <3>1. \A s \in slots : s \in 0..(n - 1) <=> s \in 0..((n - 1) - 1)
      <4> SUFFICES ASSUME NEW s \in slots PROVE s \in 0..(n - 1) <=> s \in 0..((n - 1) - 1)
        OBVIOUS
      <4>1. s \in Int /\ s # n - 1 /\ n \in Int
        BY <2>3 DEF Slots
      <4> QED BY <4>1
    <3> QED BY <3>1
  <2> HIDE DEF upto, w
  <2> QED BY <2>1, <2>2, <2>3
<1>2. IsScan([n \in 0..LineNum |-> upto(n)])
  <2>1. \A n \in 0..LineNum : n # 0 => n - 1 \in 0..LineNum
    BY LineNumAssumption
  <2> HIDE DEF upto, w
  <2> QED BY <1>1, <2>1
<1>3. IsScan(scan)
  BY <1>2
<1>4. CommitAll(w, slots) = scan[LineNum]
  BY DEF CommitAll
<1> DEFINE wrong == {n \in 0..LineNum : scan[n] # upto(n)}
<1>5. wrong = {}
  <2> HIDE DEF upto, w, scan
  <2>1. SUFFICES ASSUME wrong # {} PROVE FALSE
    OBVIOUS
  <2>2. PICK n \in wrong : \A m \in wrong : n <= m
    <3>1. wrong \in SUBSET Nat
      OBVIOUS
    <3> QED BY <2>1, <3>1, NatMin
  <2>3. n \in 0..LineNum /\ (n # 0 => n - 1 \in 0..LineNum /\ n - 1 \notin wrong)
    <3>1. n \in 0..LineNum
      BY <2>2
    <3>2. n # 0 => n - 1 \in 0..LineNum /\ ~(n <= n - 1)
      BY <3>1, LineNumAssumption
    <3> HIDE DEF wrong
    <3> QED BY <2>2, <3>1, <3>2
  <2>4. n # 0 => scan[n - 1] = upto(n - 1)
    BY <2>3
  <2> QED BY <1>1, <1>3, <2>2, <2>3, <2>4
<1>6. bits \cup (slots \cap 0..(LineNum - 1)) = bits \cup slots
  BY DEF Slots
<1>7. LineNum \in 0..LineNum
  BY LineNumAssumption
<1>8. scan[LineNum] = upto(LineNum)
  <2> HIDE DEF upto, scan
  <2> QED BY <1>5, <1>7
<1> HIDE DEF scan
<1> QED BY <1>4, <1>6, <1>8

LEMMA ClearsAll ==
  ASSUME NEW r \in Counts, NEW l \in Bytes, NEW bits \in SUBSET Slots,
         NEW slots \in SUBSET bits
  PROVE  ClearAll(Word(r, l, bits), slots) = Word(r, l, bits \ slots)
<1> DEFINE w == Word(r, l, bits)
           upto(n) == Word(r, l, bits \ (slots \cap 0..(n - 1)))
           IsScan(f) == f = [n \in 0..LineNum |->
                               IF n = 0 THEN w
                               ELSE IF n - 1 \in slots THEN Clear(f[n - 1], n - 1)
                               ELSE f[n - 1]]
           scan == CHOOSE f : IsScan(f)
<1>1. \A n \in 0..LineNum :
        upto(n) = IF n = 0 THEN w
                  ELSE IF n - 1 \in slots THEN Clear(upto(n - 1), n - 1) ELSE upto(n - 1)
  <2>1. upto(0) = w
    <3>1. bits \ (slots \cap 0..(0 - 1)) = bits
      OBVIOUS
    <3> QED BY <3>1
  <2>2. ASSUME NEW n \in 0..LineNum, n # 0, n - 1 \in slots
        PROVE  upto(n) = Clear(upto(n - 1), n - 1)
    <3> DEFINE seen == bits \ (slots \cap 0..((n - 1) - 1))
    <3>1. seen \in SUBSET Slots /\ n - 1 \in Slots /\ n - 1 \in seen
      BY <2>2
    <3>2. bits \ (slots \cap 0..(n - 1)) = seen \ {n - 1}
      BY <2>2
    <3> HIDE DEF seen
    <3>3. Clear(Word(r, l, seen), n - 1) = Word(r, l, seen \ {n - 1})
      BY <3>1, ClearOne
    <3> QED BY <3>2, <3>3 DEF seen
  <2>3. ASSUME NEW n \in 0..LineNum, n # 0, n - 1 \notin slots
        PROVE  upto(n) = upto(n - 1)
    <3>1. \A s \in slots : s \in 0..(n - 1) <=> s \in 0..((n - 1) - 1)
      <4> SUFFICES ASSUME NEW s \in slots PROVE s \in 0..(n - 1) <=> s \in 0..((n - 1) - 1)
        OBVIOUS
      <4>1. s \in Int /\ s # n - 1 /\ n \in Int
        BY <2>3 DEF Slots
      <4> QED BY <4>1
    <3> QED BY <3>1
  <2> HIDE DEF upto, w
  <2> QED BY <2>1, <2>2, <2>3
<1>2. IsScan([n \in 0..LineNum |-> upto(n)])
  <2>1. \A n \in 0..LineNum : n # 0 => n - 1 \in 0..LineNum
    BY LineNumAssumption
  <2> HIDE DEF upto, w
  <2> QED BY <1>1, <2>1
<1>3. IsScan(scan)
  BY <1>2
<1>4. ClearAll(w, slots) = scan[LineNum]
  BY DEF ClearAll
<1> DEFINE wrong == {n \in 0..LineNum : scan[n] # upto(n)}
<1>5. wrong = {}
  <2> HIDE DEF upto, w, scan
  <2>1. SUFFICES ASSUME wrong # {} PROVE FALSE
    OBVIOUS
  <2>2. PICK n \in wrong : \A m \in wrong : n <= m
    <3>1. wrong \in SUBSET Nat
      OBVIOUS
    <3> QED BY <2>1, <3>1, NatMin
  <2>3. n \in 0..LineNum /\ (n # 0 => n - 1 \in 0..LineNum /\ n - 1 \notin wrong)
    <3>1. n \in 0..LineNum
      BY <2>2
    <3>2. n # 0 => n - 1 \in 0..LineNum /\ ~(n <= n - 1)
      BY <3>1, LineNumAssumption
    <3> HIDE DEF wrong
    <3> QED BY <2>2, <3>1, <3>2
  <2>4. n # 0 => scan[n - 1] = upto(n - 1)
    BY <2>3
  <2> QED BY <1>1, <1>3, <2>2, <2>3, <2>4
<1>6. bits \ (slots \cap 0..(LineNum - 1)) = bits \ slots
  BY DEF Slots
<1>7. LineNum \in 0..LineNum
  BY LineNumAssumption
<1>8. scan[LineNum] = upto(LineNum)
  <2> HIDE DEF upto, scan
  <2> QED BY <1>5, <1>7
<1> HIDE DEF scan
<1> QED BY <1>4, <1>6, <1>8

---------------------------------------------------------------------------
(* Until the locks of a round add up to UintMod: rlock and llock are what  *)
(* was added to them.                                                      *)
RoundOpen == locks \in Nat /\ llocks \in Nat /\ locks + llocks < UintMod

(* The local locks have a free slot each, but for the one that relocate is *)
(* about to give back.                                                     *)
LocksPlaced(bits) ==
  IF srv = "undo" THEN llocks \in 1..(Cardinality(Free(bits)) + 1)
                  ELSE llocks <= Cardinality(Free(bits))

(* A slot that was granted is free and of a rank that was given away.      *)
TakenRanks(bits) ==
  \A s \in taken : s \in Free(bits) /\ Cardinality(FreeBefore(bits, s)) < locks

(* The upper bytes of the copy that the pass is about to store.            *)
TmpExact ==
  \E bits \in SUBSET Slots : tmp \div FreeUnit = Cardinality(Free(bits)) + 256 * Num(bits)

WordExact ==
  /\ RoundOpen /\ regrant = FALSE
  /\ \E bits \in SUBSET Slots :
       word = Word(locks, llocks, bits) /\ LocksPlaced(bits) /\ TakenRanks(bits)
  /\ srv = "store" => TmpExact

WordInv == ~wrapped => WordExact

LEMMA WordInit == Init => WordInv
<1> SUFFICES ASSUME Init PROVE WordExact
  BY DEF WordInv
<1>1. LineNum \in 1..8 /\ UintMod \in Nat \ {0}
  BY LineNumAssumption, UintModAssumption
<1>2. Cardinality(Free({})) = LineNum
  BY FS_Interval, <1>1 DEF Free, Slots
<1>3. Num({}) = 0
  BY DEF Num
<1>4. word = Word(0, 0, {})
  BY <1>1, <1>2, <1>3 DEF Init, FreeUnit, Word, Packed
<1>5. RoundOpen /\ regrant = FALSE /\ srv # "store"
  BY <1>1 DEF Init, RoundOpen
<1>6. word = Word(locks, llocks, {}) /\ LocksPlaced({}) /\ TakenRanks({})
  BY <1>1, <1>2, <1>4 DEF Init, LocksPlaced, TakenRanks
<1> QED BY <1>5, <1>6 DEF WordExact

(* What is known of a word with these bits.                                *)
LEMMA ExactFields ==
  ASSUME RoundOpen, NEW bits \in SUBSET Slots, word = Word(locks, llocks, bits),
         LocksPlaced(bits)
  PROVE  /\ locks \in Counts /\ llocks \in Bytes /\ llocks + 1 \in Bytes
         /\ Rlock(word) = locks /\ Llock(word) = llocks
         /\ Freecount(word) = Cardinality(Free(bits))
         /\ Bitmap(word) = Num(bits) /\ Bits(Bitmap(word)) = bits
         /\ Cardinality(Free(bits)) \in 0..LineNum
<1>1. LineNum \in 1..8 /\ UintMod \in Nat \ {0}
  BY LineNumAssumption, UintModAssumption
<1>2. Cardinality(Free(bits)) \in 0..LineNum
  BY WordTypes
<1>3. locks \in Counts
  BY <1>1 DEF RoundOpen, Counts
<1>4. llocks \in Bytes /\ llocks + 1 \in Bytes
  BY <1>1, <1>2 DEF RoundOpen, LocksPlaced, Bytes
<1> QED BY <1>2, <1>3, <1>4, WordFields

(* A fetch-and-add is one lock more in the word, and leaves the rest.      *)
LEMMA OneLockMore ==
  ASSUME RoundOpen, NEW bits \in SUBSET Slots, word = Word(locks, llocks, bits),
         LocksPlaced(bits), FetchAndAdd, ~wrapped', llocks' = llocks
  PROVE  RoundOpen' /\ word' = Word(locks + 1, llocks, bits) /\ locks' = locks + 1
<1>1. UintMod \in Nat \ {0} /\ locks + llocks + 1 < UintMod
  <2>1. locks + llocks + 1 \in Int /\ UintMod \in Nat \ {0}
    BY UintModAssumption DEF RoundOpen
  <2>2. ~(locks + llocks + 1 >= UintMod)
    BY DEF FetchAndAdd, Counted
  <2> QED BY <2>1, <2>2
<1>2. RoundOpen' /\ locks' = locks + 1 /\ locks + 1 < UintMod
  BY <1>1 DEF RoundOpen, FetchAndAdd
<1>3. PICK f \in Bytes, b \in Bytes : f = Cardinality(Free(bits)) /\ b = Num(bits)
  BY WordTypes
<1>4. locks \in Counts /\ llocks \in Bytes
  BY ExactFields
<1>5. Added(Packed(locks, llocks, f, b)) = Packed(locks + 1, llocks, f, b)
  BY <1>2, <1>4, AddsOne
<1> QED BY <1>2, <1>3, <1>5 DEF FetchAndAdd, Word

LEMMA PutLlock ==
  ASSUME NEW r \in Counts, NEW l \in Bytes, NEW bits \in SUBSET Slots, NEW x \in Bytes
  PROVE  Put(Word(r, l, bits), LlockUnit, x) = Word(r, x, bits)
<1>1. PICK f \in Bytes, b \in Bytes : f = Cardinality(Free(bits)) /\ b = Num(bits)
  BY WordTypes
<1>2. /\ Put(Packed(r, l, f, b), LlockUnit, x) = Packed(r, x, f, b)
      /\ Put(Packed(r, l, f, b), FreeUnit, x) = Packed(r, l, x, b)
      /\ Put(Packed(r, l, f, b), BitmapUnit, x) = Packed(r, l, f, x)
  BY PutByte
<1> QED BY <1>1, <1>2 DEF Word

(* A grant has the rank that its lock is the first to give away.           *)
LEMMA GrantIsNew ==
  ASSUME RoundOpen, NEW bits \in SUBSET Slots, word = Word(locks, llocks, bits),
         LocksPlaced(bits), TakenRanks(bits), LockGranted, locks + llocks < UintMod
  PROVE  /\ Target(word) \in Free(bits) /\ Target(word) \notin taken
         /\ Cardinality(FreeBefore(bits, Target(word))) = locks
<1>1. /\ Rlock(word) = locks /\ Llock(word) = llocks
      /\ Freecount(word) = Cardinality(Free(bits)) /\ Bits(Bitmap(word)) = bits
      /\ Cardinality(Free(bits)) \in 0..LineNum
  BY ExactFields
<1>2. locks < UintMod \div 2
  <2>1. UintMod \in Nat \ {0} /\ UintMod > 2 * LineNum /\ LineNum \in 1..8
    BY UintModAssumption, WordAssumption, LineNumAssumption
  <2>2. locks \in Nat /\ llocks \in Nat
    BY DEF RoundOpen
  <2>3. (llocks + locks) % UintMod = llocks + locks
    BY <2>1, <2>2
  <2>4. locks < LineNum
    BY <1>1, <2>2, <2>3, <2>1 DEF LockGranted, HasFree
  <2> QED BY <2>1, <2>2, <2>4
<1>3. SkipCount(word) = locks
  BY <1>1, <1>2 DEF SkipCount
<1>4. Target(word) = FromLeft(bits, locks)
  BY <1>1, <1>3 DEF Target
<1>5. FromLeft(bits, locks) # NoSlot
  BY <1>4 DEF LockGranted
<1>6. /\ Target(word) \in Free(bits)
      /\ Cardinality(FreeBefore(bits, Target(word))) = locks
  BY <1>4, <1>5, FromLeftRank
<1>7. locks \in Nat
  BY DEF RoundOpen
<1> QED BY <1>6, <1>7 DEF TakenRanks

(* A slot is within the reach of remote locks or of local ones, never of   *)
(* both.                                                                   *)
LEMMA ReachesApart ==
  ASSUME RoundOpen, NEW bits \in SUBSET Slots, word = Word(locks, llocks, bits),
         LocksPlaced(bits), srv # "undo"
  PROVE  /\ RemoteSlots(word) \in SUBSET (Slots \ bits)
         /\ LocalSlots(word) \in SUBSET (Slots \ bits)
         /\ RemoteSlots(word) \cap LocalSlots(word) = {}
<1> DEFINE c == Cardinality(Free(bits))
           reach == RemoteLocks(c, llocks, locks)
<1>1. /\ Rlock(word) = locks /\ Llock(word) = llocks /\ Freecount(word) = c
      /\ Bits(Bitmap(word)) = bits /\ c \in 0..LineNum
  BY ExactFields
<1>2. /\ RemoteSlots(word) = {s \in Slots \ bits : Cardinality(FreeBefore(bits, s)) < reach}
      /\ LocalSlots(word) = {s \in Slots \ bits : Cardinality(FreeAfter(bits, s)) < llocks}
  BY <1>1 DEF RemoteSlots, LocalSlots
<1>3. reach \in Nat /\ reach + llocks <= c
  <2>1. locks \in Nat /\ llocks \in Nat /\ llocks <= c /\ c \in Nat
    BY <1>1 DEF RoundOpen, LocksPlaced
  <2>2. UintMod > c
    BY <1>1, WordAssumption, UintModAssumption, LineNumAssumption
  <2> HIDE DEF c
  <2>3. reach <= c - llocks
    BY <2>1, <2>2, RemoteLocksBound
  <2>4. reach \in 0..locks
    <3>1. c \in Int /\ llocks \in Int /\ locks \in Nat
      BY <2>1
    <3> QED BY <3>1, RemoteLocksType
  <2> HIDE DEF reach
  <2> QED BY <2>1, <2>3, <2>4
<1>4. ASSUME NEW s \in Slots \ bits
      PROVE  Cardinality(FreeBefore(bits, s)) + Cardinality(FreeAfter(bits, s)) = c - 1
  <2>1. s \in Slots /\ s \in Int /\ s \notin bits
    BY DEF Slots
  <2>2. Cardinality(FreeBefore(bits, s)) + Cardinality(FreeAfter(bits, s - 1)) = c
    BY <2>1, FreeSplit
  <2>3. Cardinality(FreeAfter(bits, s - 1)) = Cardinality(FreeAfter(bits, s)) + 1
    BY <2>1, FreeAfterStep
  <2>4. /\ Cardinality(FreeAfter(bits, s)) \in Nat
        /\ Cardinality(FreeBefore(bits, s)) \in Nat
    <3>1. Cardinality(FreeAfter(bits, s)) \in Nat
      BY FreeAfterBound
    <3>2. s \in Free(bits)
      BY <2>1 DEF Free
    <3> QED BY <3>1, <3>2, RankBound, LineNumAssumption
  <2> HIDE DEF c
  <2> QED BY <1>1, <2>2, <2>3, <2>4
<1>5. ASSUME NEW s \in RemoteSlots(word) \cap LocalSlots(word) PROVE FALSE
  <2>1. /\ s \in Slots \ bits /\ Cardinality(FreeBefore(bits, s)) < reach
        /\ Cardinality(FreeAfter(bits, s)) < llocks
    BY <1>2
  <2>2. /\ Cardinality(FreeAfter(bits, s)) \in Nat
        /\ Cardinality(FreeBefore(bits, s)) \in Nat
    <3>1. Cardinality(FreeAfter(bits, s)) \in Nat
      BY FreeAfterBound
    <3>2. s \in Free(bits)
      BY <2>1 DEF Free
    <3> QED BY <3>1, <3>2, RankBound, LineNumAssumption
  <2>3. Cardinality(FreeBefore(bits, s)) + Cardinality(FreeAfter(bits, s)) = c - 1
    BY <1>4, <2>1
  <2>4. c \in Nat /\ llocks \in Nat
    BY <1>1 DEF RoundOpen
  <2> HIDE DEF c, reach
  <2> QED BY <1>3, <2>1, <2>2, <2>3, <2>4
<1> QED BY <1>2, <1>5

(* The copy of a pass counts its bits, whatever the pass found.            *)
LEMMA DealCounts ==
  ASSUME WordExact, DealPending PROVE TmpExact'
<1>1. PICK bits \in SUBSET Slots :
        word = Word(locks, llocks, bits) /\ LocksPlaced(bits) /\ TakenRanks(bits)
  BY DEF WordExact
<1>2. RoundOpen /\ srv # "undo"
  BY DEF WordExact, DealPending
<1>3. locks \in Counts /\ llocks \in Bytes /\ Bits(Bitmap(word)) = bits
  BY <1>1, <1>2, ExactFields
<1>4. PICK pending \in SUBSET (RemoteSlots(word) \cap taken),
           valid \in SUBSET (placed \cup Bits(Bitmap(word))) :
        LET local == LocalSlots(word) \cap (valid \cup pending)
            dead  == Bits(Bitmap(word)) \ valid
            dealt == ClearAll(CommitAll(CommitAll(word, pending), local), dead)
        IN  \E moved \in SUBSET Bits(Bitmap(dealt)) : tmp' = ClearAll(dealt, moved)
  BY DEF DealPending
<1> DEFINE local == LocalSlots(word) \cap (valid \cup pending)
           dead == bits \ valid
           one == bits \cup pending
           two == one \cup local
           three == two \ dead
<1>5. pending \in SUBSET (Slots \ bits) /\ local \in SUBSET (Slots \ one)
  BY <1>1, <1>2, ReachesApart
<1>6. /\ one \in SUBSET Slots /\ two \in SUBSET Slots /\ three \in SUBSET Slots
      /\ dead \in SUBSET two
  BY <1>5
<1>7. PICK moved \in SUBSET Bits(Bitmap(ClearAll(CommitAll(CommitAll(word, pending), local), dead))) :
        tmp' = ClearAll(ClearAll(CommitAll(CommitAll(word, pending), local), dead), moved)
  BY <1>3, <1>4
<1> HIDE DEF local, dead, one, two, three
<1>8. CommitAll(word, pending) = Word(locks, llocks, one)
  <2>1. CommitAll(Word(locks, llocks, bits), pending) = Word(locks, llocks, bits \cup pending)
    BY <1>3, <1>5, CommitsAll
  <2> QED BY <1>1, <2>1 DEF one
<1>9. CommitAll(Word(locks, llocks, one), local) = Word(locks, llocks, two)
  <2>1. CommitAll(Word(locks, llocks, one), local) = Word(locks, llocks, one \cup local)
    BY <1>3, <1>5, <1>6, CommitsAll
  <2> QED BY <2>1 DEF two
<1>10. ClearAll(Word(locks, llocks, two), dead) = Word(locks, llocks, three)
  <2>1. ClearAll(Word(locks, llocks, two), dead) = Word(locks, llocks, two \ dead)
    BY <1>3, <1>6, ClearsAll
  <2> QED BY <2>1 DEF three
<1>11. Bits(Bitmap(Word(locks, llocks, three))) = three
  BY <1>3, <1>6, WordFields
<1>12. moved \in SUBSET three /\ tmp' = ClearAll(Word(locks, llocks, three), moved)
  BY <1>7, <1>8, <1>9, <1>10, <1>11
<1>13. tmp' = Word(locks, llocks, three \ moved)
  BY <1>3, <1>6, <1>12, ClearsAll
<1>14. PICK last \in SUBSET Slots : last = three \ moved
  BY <1>6
<1>15. PICK f \in Bytes, b \in Bytes : f = Cardinality(Free(last)) /\ b = Num(last)
  BY WordTypes
<1>16. /\ Rlock(Packed(locks, llocks, f, b)) = locks /\ Llock(Packed(locks, llocks, f, b)) = llocks
       /\ Freecount(Packed(locks, llocks, f, b)) = f /\ Bitmap(Packed(locks, llocks, f, b)) = b
       /\ Packed(locks, llocks, f, b) \div FreeUnit = f + 256 * b
  BY <1>3, Fields
<1>17. tmp' \div FreeUnit = Cardinality(Free(last)) + 256 * Num(last)
  BY <1>13, <1>14, <1>15, <1>16 DEF Word
<1> QED BY <1>17 DEF TmpExact

LEMMA WordNext == WordInv /\ [Next]_vars => WordInv'
<1> SUFFICES ASSUME WordInv, [Next]_vars, ~wrapped' PROVE WordExact'
  BY DEF WordInv
<1>0. ~wrapped
  BY DEF Next, vars, history, LockRefused, LockGranted, FetchAndAdd, Counted, Probe,
         LocalLock, Undo, DealPending, IndexStore
<1>1. WordExact
  BY <1>0 DEF WordInv
<1>2. PICK bits \in SUBSET Slots :
        word = Word(locks, llocks, bits) /\ LocksPlaced(bits) /\ TakenRanks(bits)
  BY <1>1 DEF WordExact
<1>3. RoundOpen /\ regrant = FALSE /\ (srv = "store" => TmpExact)
  BY <1>1 DEF WordExact
<1>4. /\ locks \in Counts /\ llocks \in Bytes /\ llocks + 1 \in Bytes
      /\ Llock(word) = llocks /\ Bits(Bitmap(word)) = bits
      /\ Cardinality(Free(bits)) \in 0..LineNum
  BY <1>2, <1>3, ExactFields
<1>5. locks \in Nat /\ llocks \in Nat /\ locks + llocks < UintMod
      /\ UintMod \in Nat \ {0} /\ LineNum \in 1..8
  BY <1>3, UintModAssumption, LineNumAssumption DEF RoundOpen
<1>6. CASE LockRefused
  <2>1. RoundOpen' /\ word' = Word(locks + 1, llocks, bits) /\ locks' = locks + 1
    BY <1>2, <1>3, <1>6, OneLockMore DEF LockRefused
  <2>2. UNCHANGED <<srv, tmp, llocks, taken, regrant>>
    BY <1>6 DEF LockRefused
  <2>3. LocksPlaced(bits)'
    BY <1>2, <2>2 DEF LocksPlaced
  <2>4. TakenRanks(bits)'
    <3>1. \A s \in taken : Cardinality(FreeBefore(bits, s)) \in Nat
      BY <1>2, RankBound, LineNumAssumption DEF TakenRanks
    <3> QED BY <1>2, <1>5, <2>1, <2>2, <3>1 DEF TakenRanks
  <2>5. (srv = "store" => TmpExact)'
    BY <1>3, <2>2 DEF TmpExact
  <2> QED BY <1>3, <2>1, <2>2, <2>3, <2>4, <2>5 DEF WordExact
<1>7. CASE LockGranted
  <2>1. RoundOpen' /\ word' = Word(locks + 1, llocks, bits) /\ locks' = locks + 1
    BY <1>2, <1>3, <1>7, OneLockMore DEF LockGranted
  <2>2. UNCHANGED <<srv, tmp, llocks>> /\ taken' = taken \cup {Target(word)}
    BY <1>7 DEF LockGranted
  <2>3. /\ Target(word) \in Free(bits) /\ Target(word) \notin taken
        /\ Cardinality(FreeBefore(bits, Target(word))) = locks
    BY <1>2, <1>3, <1>5, <1>7, GrantIsNew
  <2>4. regrant' = FALSE
    BY <1>3, <1>7, <2>3 DEF LockGranted
  <2>5. LocksPlaced(bits)'
    BY <1>2, <2>2 DEF LocksPlaced
  <2>6. TakenRanks(bits)'
    <3>1. \A s \in taken : Cardinality(FreeBefore(bits, s)) \in Nat
      BY <1>2, RankBound, LineNumAssumption DEF TakenRanks
    <3> QED BY <1>2, <1>5, <2>1, <2>2, <2>3, <3>1 DEF TakenRanks
  <2>7. (srv = "store" => TmpExact)'
    BY <1>3, <2>2 DEF TmpExact
  <2> QED BY <2>1, <2>2, <2>4, <2>5, <2>6, <2>7 DEF WordExact
<1>8. CASE Probe
  <2>1. UNCHANGED <<word, locks, llocks, taken, regrant>> /\ srv = "idle" /\ srv' = "probed"
    BY <1>8 DEF Probe, history
  <2>2. RoundOpen' /\ LocksPlaced(bits)' /\ TakenRanks(bits)'
    BY <1>2, <1>3, <2>1 DEF RoundOpen, LocksPlaced, TakenRanks
  <2> QED BY <1>2, <1>3, <2>1, <2>2 DEF WordExact
<1>9. CASE LocalLock
  <2>1. Byte(Llock(word) + 1) = llocks + 1
    BY <1>4, <1>5 DEF Byte, Bytes
  <2>2. /\ word' = Put(word, LlockUnit, llocks + 1)
        /\ srv' = IF FromRight(bits, llocks + 1) = NoSlot THEN "undo" ELSE "idle"
        /\ llocks' = llocks + 1 /\ srv = "probed"
        /\ UNCHANGED <<locks, taken, regrant>>
    BY <1>4, <1>9, <2>1 DEF LocalLock
  <2>3. word' = Word(locks, llocks + 1, bits)
    BY <1>2, <1>4, <2>2, PutLlock
  <2>4. llocks <= Cardinality(Free(bits))
    BY <1>2, <2>2 DEF LocksPlaced
  <2>5. LocksPlaced(bits)'
    <3>1. IF llocks < Cardinality(Free(bits))
            THEN FromRight(bits, llocks + 1) # NoSlot
            ELSE FromRight(bits, llocks + 1) = NoSlot
      BY <1>5, FromRightFinds
    <3>2. CASE llocks < Cardinality(Free(bits))
      BY <1>4, <1>5, <2>2, <3>1, <3>2 DEF LocksPlaced
    <3>3. CASE ~(llocks < Cardinality(Free(bits)))
      BY <1>4, <1>5, <2>2, <2>4, <3>1, <3>3 DEF LocksPlaced
    <3> QED BY <3>2, <3>3
  <2>6. RoundOpen'
    <3>1. ~(locks + llocks + 1 >= UintMod)
      BY <1>9 DEF LocalLock, Counted
    <3> QED BY <1>5, <2>2, <3>1 DEF RoundOpen
  <2>7. TakenRanks(bits)' /\ srv' # "store"
    BY <1>2, <2>2 DEF TakenRanks
  <2> QED BY <1>3, <2>2, <2>3, <2>5, <2>6, <2>7 DEF WordExact
<1>10. CASE Undo
  <2>1. /\ llocks \in 1..(Cardinality(Free(bits)) + 1)
        /\ llocks' = llocks - 1 /\ srv' = "idle" /\ UNCHANGED <<locks, taken, regrant>>
    BY <1>2, <1>10 DEF Undo, LocksPlaced
  <2>2. llocks - 1 \in Bytes /\ Byte(Llock(word) - 1) = llocks - 1
    BY <1>4, <2>1 DEF Byte, Bytes
  <2>3. word' = Word(locks, llocks - 1, bits)
    BY <1>2, <1>4, <1>10, <2>2, PutLlock DEF Undo
  <2>4. RoundOpen' /\ LocksPlaced(bits)'
    BY <1>4, <1>5, <2>1 DEF RoundOpen, LocksPlaced
  <2>5. TakenRanks(bits)'
    BY <1>2, <2>1 DEF TakenRanks
  <2> QED BY <1>3, <2>1, <2>3, <2>4, <2>5 DEF WordExact
<1>11. CASE DealPending
  <2>1. UNCHANGED <<word, locks, llocks, taken, regrant>> /\ srv = "idle" /\ srv' = "store"
    BY <1>11 DEF DealPending, history
  <2>2. RoundOpen' /\ LocksPlaced(bits)' /\ TakenRanks(bits)'
    BY <1>2, <1>3, <2>1 DEF RoundOpen, LocksPlaced, TakenRanks
  <2>3. TmpExact'
    BY <1>1, <1>11, DealCounts
  <2> QED BY <1>2, <1>3, <2>1, <2>2, <2>3 DEF WordExact
<1>12. CASE IndexStore
  <2>1. PICK last \in SUBSET Slots : tmp \div FreeUnit = Cardinality(Free(last)) + 256 * Num(last)
    BY <1>3, <1>12 DEF IndexStore, TmpExact
  <2>2. /\ word' = (tmp \div FreeUnit) * FreeUnit
        /\ locks' = 0 /\ llocks' = 0 /\ taken' = {} /\ regrant' = FALSE /\ srv' = "idle"
    BY <1>12 DEF IndexStore
  <2>3. PICK f \in Bytes, b \in Bytes : f = Cardinality(Free(last)) /\ b = Num(last)
    BY WordTypes
  <2>4. word' = Word(0, 0, last)
    <3>1. (f + 256 * b) * FreeUnit = Packed(0, 0, f, b)
      BY <1>5, <2>3 DEF Bytes, FreeUnit, Packed
    <3> QED BY <2>1, <2>2, <2>3, <3>1 DEF Word
  <2>5. RoundOpen' /\ TakenRanks(last)'
    BY <1>5, <2>2 DEF RoundOpen, TakenRanks
  <2>6. LocksPlaced(last)'
    BY <2>2, <2>3 DEF LocksPlaced, Bytes
  <2> QED BY <2>2, <2>4, <2>5, <2>6 DEF WordExact
<1>13. CASE UNCHANGED vars
  BY <1>1, <1>13 DEF WordExact, RoundOpen, LocksPlaced, TakenRanks, TmpExact, vars, history
<1> QED BY <1>6, <1>7, <1>8, <1>9, <1>10, <1>11, <1>12, <1>13 DEF Next

(* Until then the word is exact: what its history counts is in its fields. *)
LEMMA InvApart == WordInv => FieldsApart /\ GrantsApart /\ FreeCountExact
<1> SUFFICES ASSUME WordExact, ~wrapped
             PROVE  /\ Llock(word) = llocks /\ Rlock(word) = locks /\ ~regrant
                    /\ Freecount(word) = LineNum - Cardinality(Bits(Bitmap(word)))
  BY DEF WordInv, FieldsApart, GrantsApart, FreeCountExact
<1>1. PICK bits \in SUBSET Slots :
        word = Word(locks, llocks, bits) /\ LocksPlaced(bits) /\ TakenRanks(bits)
  BY DEF WordExact
<1>2. RoundOpen /\ regrant = FALSE
  BY DEF WordExact
<1>3. /\ Rlock(word) = locks /\ Llock(word) = llocks
      /\ Freecount(word) = Cardinality(Free(bits)) /\ Bits(Bitmap(word)) = bits
  BY <1>1, <1>2, ExactFields
<1>4. Cardinality(Free(bits)) = LineNum - Cardinality(bits)
  <2>1. IsFiniteSet(Slots) /\ Cardinality(Slots) = LineNum
    BY FS_Interval, LineNumAssumption DEF Slots
  <2>2. Slots \cap bits = bits
    OBVIOUS
  <2> QED BY <2>1, <2>2, FS_Difference DEF Free
<1> QED BY <1>2, <1>3, <1>4

LEMMA WordInvariant == Spec => []WordInv
<1> QED BY WordInit, WordNext, PTL DEF Spec

(* No carry joins rlock and llock: fetch-and-adds on the whole word        *)
(* (ib.cpp:335) and the server's stores of single bytes (api.cpp:308-314,  *)
(* 467-471) leave each count what its side has added to it.                *)
THEOREM WordFieldsApart == Spec => []FieldsApart
<1> QED BY WordInvariant, InvApart, PTL

(* No slot is granted twice between two passes (api.cpp:589-604), however  *)
(* many calls were refused and whatever relocate locked.                   *)
THEOREM WordGrantsApart == Spec => []GrantsApart
<1> QED BY WordInvariant, InvApart, PTL

(* Every pass, with the masks of the code and whatever it finds in the     *)
(* lines, leaves the free count the number of clear bits (api.cpp:343-471).*)
THEOREM WordCountExact == Spec => []FreeCountExact
<1> QED BY WordInvariant, InvApart, PTL
=============================================================================
