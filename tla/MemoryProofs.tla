---------------------------- MODULE MemoryProofs ----------------------------
(***************************************************************************)
(* Proofs about the arithmetic of module Alu and the memory of module      *)
(* MemoryStore, for every width of a byte and every size of the memory.    *)
(***************************************************************************)
EXTENDS MemoryStore, Induction

-----------------------------------------------------------------------------
LEMMA WordFacts ==
  /\ HalfSize \in Nat /\ HalfSize % 2 = 0 /\ HalfSize >= 4
  /\ WordSize \in Nat /\ WordSize > 4 /\ HalfSize < WordSize
  /\ SignedMax \in Nat /\ WordSize = 2 * SignedMax
  /\ HalfSize <= SignedMax
<1>1. PICK h \in Nat : ByteSize = 2 * h /\ h >= 1
  BY AluAssumption
<1>2. HalfSize = 4 * (h * h) /\ h * h \in Nat /\ h * h >= 1
  BY <1>1 DEF HalfSize
<1> DEFINE k == h * h
<1>3. WordSize = 16 * (k * k) /\ k * k \in Nat /\ k * k >= k
  BY <1>2 DEF WordSize
<1> HIDE DEF k
<1> QED BY <1>2, <1>3 DEF SignedMax, k

\* Wrapping gives a word, and changes a number by at most one turn where it is applied to
\* the sum or the difference of two words.
LEMMA WrapFacts ==
  /\ \A n \in Int : Wrap(n) \in Value
  /\ \A n \in Int : n >= 0 /\ n < WordSize => Wrap(n) = n
  /\ \A n \in Int : n >= WordSize /\ n < 2 * WordSize => Wrap(n) = n - WordSize
  /\ \A n \in Int : n < 0 /\ n >= -WordSize => Wrap(n) = n + WordSize
<1> USE WordFacts
<1>1. ASSUME NEW n \in Int
      PROVE  Wrap(n) \in Value
  BY DEF Wrap, Value
<1>2. ASSUME NEW n \in Int, n >= 0, n < WordSize
      PROVE  Wrap(n) = n
  BY <1>2 DEF Wrap
<1>3. ASSUME NEW n \in Int, n >= WordSize, n < 2 * WordSize
      PROVE  Wrap(n) = n - WordSize
  BY <1>3, Division DEF Wrap
<1>4. ASSUME NEW n \in Int, n < 0, n >= -WordSize
      PROVE  Wrap(n) = n + WordSize
  BY <1>4, Division DEF Wrap
<1> QED BY <1>1, <1>2, <1>3, <1>4

LEMMA ValueIsInt == \A x \in Value : x \in Int /\ x >= 0 /\ x < WordSize
BY WordFacts DEF Value

LEMMA SignExtIsValue == \A imm \in 0..HalfSize - 1 : SignExt(imm) \in Value
BY WordFacts DEF SignExt, Value

-----------------------------------------------------------------------------
LEMMA Element ==
  ASSUME NEW S, NEW s \in Seq(S), NEW n \in 1..Len(s)
  PROVE  s[n] \in S
OBVIOUS

\* The memory.
LEMMA PlaceFacts ==
  ASSUME NEW size \in Sizes, NEW i \in 0..size - 1
  PROVE  Place(i, size) \in Nat \ {0}
<1>1. ByteSize \in Nat \ {0} /\ ByteSize * ByteSize \in Nat \ {0}
  BY AluAssumption
<1>2. ByteSize * ByteSize * ByteSize \in Nat \ {0}
  BY <1>1
<1>3. size - 1 - i \in 0..3
  BY DEF Sizes
<1> QED BY <1>1, <1>2, <1>3, AluAssumption DEF Place

\* A store writes bytes.
LEMMA SetIsMemory ==
  ASSUME NEW m \in Memory, NEW address \in Int, NEW value \in Int, NEW size \in Sizes
  PROVE  SetMemValue(m, address, value, size) \in Memory
<1>1. ASSUME NEW i \in 0..size - 1
      PROVE  (value \div Place(i, size)) % ByteSize \in Byte
  <2>1. value \div Place(i, size) \in Int
    BY <1>1, PlaceFacts
  <2> QED BY <2>1, AluAssumption DEF Byte
<1>2. Reached(address, size) \subseteq 0..size - 1
  BY DEF Reached
<1>3. DOMAIN m = 0..MemorySize - 1 /\ \A b \in 0..MemorySize - 1 : m[b] \in Byte
  BY DEF Memory
<1> QED BY <1>1, <1>2, <1>3 DEF SetMemValue, Memory

\* A load reads a word.
LEMMA GetIsValue ==
  ASSUME NEW m \in Memory, NEW address \in Int, NEW size \in Sizes
  PROVE  GetMemValue(m, address, size) \in Value
<1> DEFINE part(i) == IF i \in Reached(address, size)
                      THEN m[AddressOf(address, i)] * Place(i, size) ELSE 0
           top == ByteSize - 1
<1>1. ByteSize \in Nat \ {0} /\ top \in Nat
  BY AluAssumption
<1>2. ASSUME NEW i \in 0..size - 1
      PROVE  part(i) \in Nat /\ part(i) <= top * Place(i, size)
  <2>1. Place(i, size) \in Nat
    BY PlaceFacts
  <2>2. CASE i \in Reached(address, size)
    <3>1. AddressOf(address, i) \in 0..MemorySize - 1
      <4>1. AddressOf(address, i) < MemorySize
        BY <2>2 DEF Reached
      <4>2. AddressOf(address, i) \in Value
        BY WrapFacts DEF AddressOf
      <4> QED BY <4>1, <4>2, MemoryAssumption, ValueIsInt
    <3>2. m[AddressOf(address, i)] \in 0..top
      BY <3>1 DEF Memory, Byte
    <3> HIDE DEF top
    <3>3. \A x \in 0..top : x * Place(i, size) <= top * Place(i, size) /\ x * Place(i, size) \in Nat
      BY <1>1, <2>1, Products
    <3> QED BY <2>2, <3>2, <3>3
  <2>3. CASE i \notin Reached(address, size)
    BY <1>1, <2>1, <2>3
  <2> QED BY <2>2, <2>3
<1>3. \A i : i \notin 0..size - 1 => part(i) = 0
  BY DEF Reached
<1>4. GetMemValue(m, address, size) = part(0) + part(1) + part(2) + part(3)
  BY DEF GetMemValue
<1> DEFINE B == ByteSize
<1> HIDE DEF part
<1>5. WordSize = B * B * B * B /\ B <= WordSize /\ B * B <= WordSize
  <2>1. B \in Nat /\ B >= 1 /\ B * B \in Nat /\ B * B >= B
    BY <1>1
  <2>2. (B * B) * (B * B) >= B * B
    BY <2>1
  <2> QED BY <2>1, <2>2 DEF WordSize, HalfSize
<1>6. WordSize \in Nat
  BY WordFacts
<1>7. CASE size = 4
  <2>1. /\ Place(0, 4) = B * B * B /\ Place(1, 4) = B * B
        /\ Place(2, 4) = B /\ Place(3, 4) = 1
    BY DEF Place
  <2>2. /\ part(0) \in Nat /\ part(0) <= top * (B * B * B)
        /\ part(1) \in Nat /\ part(1) <= top * (B * B)
        /\ part(2) \in Nat /\ part(2) <= top * B
        /\ part(3) \in Nat /\ part(3) <= top
    BY <1>1, <1>2, <1>7, <2>1
  <2>3. top * (B * B * B) = B * B * B * B - B * B * B /\ top * (B * B) = B * B * B - B * B
        /\ top * B = B * B - B
    BY <1>1
  <2> HIDE DEF B
  <2> QED BY <1>1, <1>4, <1>5, <1>6, <2>2, <2>3 DEF Value, B
<1>8. CASE size = 2
  <2>1. Place(0, 2) = B /\ Place(1, 2) = 1
    BY DEF Place
  <2>2. /\ part(0) \in Nat /\ part(0) <= top * B
        /\ part(1) \in Nat /\ part(1) <= top
        /\ part(2) = 0 /\ part(3) = 0
    BY <1>1, <1>2, <1>3, <1>8, <2>1
  <2>3. top * B = B * B - B
    BY <1>1
  <2> QED BY <1>1, <1>4, <1>5, <1>6, <2>2, <2>3 DEF Value
<1>9. CASE size = 1
  <2>1. Place(0, 1) = 1
    BY DEF Place
  <2>2. /\ part(0) \in Nat /\ part(0) <= top
        /\ part(1) = 0 /\ part(2) = 0 /\ part(3) = 0
    BY <1>1, <1>2, <1>3, <1>9, <2>1
  <2> QED BY <1>1, <1>4, <1>5, <1>6, <2>2 DEF Value
<1> QED BY <1>7, <1>8, <1>9 DEF Sizes

\* Both loops of the construction store into a memory, step by step.
LEMMA ImageIsWritten ==
  ASSUME NEW image \in Seq([address : Value, value : Value]), NEW n \in 1..Len(image)
  PROVE  image[n].address \in Value /\ image[n].value \in Value
<1>1. image[n] \in [address : Value, value : Value]
  BY Element
<1> QED BY <1>1

LEMMA PreparedInSteps ==
  ASSUME NEW m \in Memory, NEW image \in Seq([address : Value, value : Value])
  PROVE  \E after :
           /\ after[0] = m
           /\ \A n \in 1..Len(image) :
                after[n] = SetMemValue(after[n - 1], image[n].address, image[n].value, 4)
           /\ PrepareMemory(m, image) = SetMemValue(after[Len(image)], 0, 0, 4)
<1> DEFINE Last == Len(image)
           Write(x, n) == SetMemValue(x, image[n].address, image[n].value, 4)
           Written == [n \in 1..Last |-> [x \in Memory |-> Write(x, n)]]
           after == CHOOSE f : f = [n \in 0..Last |-> IF n = 0 THEN m ELSE Write(f[n - 1], n)]
<1>0. Last \in Nat
  OBVIOUS
<1>1. ASSUME NEW x \in Memory, NEW n \in 1..Last
      PROVE  Write(x, n) \in Memory
  BY ImageIsWritten, ValueIsInt, SetIsMemory DEF Sizes
<1>9. PrepareMemory(m, image) = SetMemValue(after[Last], 0, 0, 4)
  BY DEF PrepareMemory
<1> HIDE DEF Write, Last
<1>2. Written \in [1..Last -> [Memory -> Memory]]
  BY <1>1
<1>3. \A x \in Memory, n \in 1..Last : Written[n][x] = Write(x, n)
  OBVIOUS
<1> HIDE DEF Written
<1> HIDE DEF Memory
<1>4. PICK f \in [0..Last -> Memory] : IsCourse(f, Last, m, Written)
  <2>1. m \in Memory
    OBVIOUS
  <2> QED BY <1>0, <1>2, <2>1, CourseExists
<1>5. f = [n \in 0..Last |-> IF n = 0 THEN m ELSE Write(f[n - 1], n)]
  <2>1. ASSUME NEW n \in 0..Last
        PROVE  f[n] = IF n = 0 THEN m ELSE Write(f[n - 1], n)
    <3>1. n # 0 => n \in 1..Last /\ n - 1 \in 0..Last
      BY <1>0
    <3> QED BY <1>3, <1>4, <3>1 DEF IsCourse
  <2> QED BY <1>4, <2>1
<1>6. after = [n \in 0..Last |-> IF n = 0 THEN m ELSE Write(after[n - 1], n)]
  BY <1>5
<1> HIDE DEF after
<1>7. after[0] = m /\ \A n \in 1..Last : after[n] = Write(after[n - 1], n)
  BY <1>0, <1>6
<1> QED BY <1>7, <1>9 DEF Write, Last

LEMMA LoadedInSteps ==
  ASSUME NEW m \in Memory, NEW file \in Seq(Byte)
  PROVE  \E after :
           /\ after[0] = m
           /\ \A n \in 1..Len(file) : after[n] = SetMemValue(after[n - 1], n - 1, file[n], 1)
           /\ LoadFromFile(m, file) = after[Len(file)]
<1> DEFINE Last == Len(file)
           Write(x, n) == SetMemValue(x, n - 1, file[n], 1)
           Written == [n \in 1..Last |-> [x \in Memory |-> Write(x, n)]]
           after == CHOOSE f : f = [n \in 0..Last |-> IF n = 0 THEN m ELSE Write(f[n - 1], n)]
<1>0. Last \in Nat
  OBVIOUS
<1>1. ASSUME NEW x \in Memory, NEW n \in 1..Last
      PROVE  Write(x, n) \in Memory
  <2>1. file[n] \in Byte
    BY Element
  <2>2. file[n] \in Int /\ n - 1 \in Int
    BY <2>1, AluAssumption DEF Byte
  <2> QED BY <2>2, SetIsMemory DEF Sizes
<1>9. LoadFromFile(m, file) = after[Last]
  BY DEF LoadFromFile
<1> HIDE DEF Write, Last
<1>2. Written \in [1..Last -> [Memory -> Memory]]
  BY <1>1
<1>3. \A x \in Memory, n \in 1..Last : Written[n][x] = Write(x, n)
  OBVIOUS
<1> HIDE DEF Written
<1> HIDE DEF Memory
<1>4. PICK f \in [0..Last -> Memory] : IsCourse(f, Last, m, Written)
  <2>1. m \in Memory
    OBVIOUS
  <2> QED BY <1>0, <1>2, <2>1, CourseExists
<1>5. f = [n \in 0..Last |-> IF n = 0 THEN m ELSE Write(f[n - 1], n)]
  <2>1. ASSUME NEW n \in 0..Last
        PROVE  f[n] = IF n = 0 THEN m ELSE Write(f[n - 1], n)
    <3>1. n # 0 => n \in 1..Last /\ n - 1 \in 0..Last
      BY <1>0
    <3> QED BY <1>3, <1>4, <3>1 DEF IsCourse
  <2> QED BY <1>4, <2>1
<1>6. after = [n \in 0..Last |-> IF n = 0 THEN m ELSE Write(after[n - 1], n)]
  BY <1>5
<1> HIDE DEF after
<1>7. after[0] = m /\ \A n \in 1..Last : after[n] = Write(after[n - 1], n)
  BY <1>0, <1>6
<1> QED BY <1>7, <1>9 DEF Write, Last

LEMMA PreparedIsMemory ==
  ASSUME NEW m \in Memory, NEW image \in Seq([address : Value, value : Value])
  PROVE  PrepareMemory(m, image) \in Memory
<1>1. PICK after :
        /\ after[0] = m
        /\ \A n \in 1..Len(image) :
             after[n] = SetMemValue(after[n - 1], image[n].address, image[n].value, 4)
        /\ PrepareMemory(m, image) = SetMemValue(after[Len(image)], 0, 0, 4)
  BY PreparedInSteps
<1>2. ASSUME NEW n \in 1..Len(image), after[n - 1] \in Memory
      PROVE  after[n] \in Memory
  <2>1. image[n].address \in Int /\ image[n].value \in Int
    BY ImageIsWritten, ValueIsInt
  <2> QED BY <1>1, <1>2, <2>1, SetIsMemory DEF Sizes
<1>3. Len(image) \in Nat
  OBVIOUS
<1>4. after[Len(image)] \in Memory
  <2> HIDE DEF Memory
  <2> QED BY <1>1, <1>2, <1>3, Stays
<1> QED BY <1>1, <1>4, SetIsMemory DEF Sizes

LEMMA LoadedIsMemory ==
  ASSUME NEW m \in Memory, NEW file \in Seq(Byte)
  PROVE  LoadFromFile(m, file) \in Memory
<1>1. PICK after :
        /\ after[0] = m
        /\ \A n \in 1..Len(file) : after[n] = SetMemValue(after[n - 1], n - 1, file[n], 1)
        /\ LoadFromFile(m, file) = after[Len(file)]
  BY LoadedInSteps
<1>2. ASSUME NEW n \in 1..Len(file), after[n - 1] \in Memory
      PROVE  after[n] \in Memory
  <2>1. file[n] \in Byte
    BY Element
  <2>2. file[n] \in Int /\ n - 1 \in Int
    BY <2>1, AluAssumption DEF Byte
  <2> QED BY <1>1, <1>2, <2>2, SetIsMemory DEF Sizes
<1>3. Len(file) \in Nat
  OBVIOUS
<1>4. after[Len(file)] \in Memory
  <2> HIDE DEF Memory
  <2> QED BY <1>1, <1>2, <1>3, Stays
<1> QED BY <1>1, <1>4

LEMMA ConstructedIsMemory ==
  ASSUME NEW image \in Seq([address : Value, value : Value]), NEW file \in Seq(Byte)
  PROVE  Constructed(image, file) \in Memory
<1>1. Zeros \in Memory
  BY AluAssumption DEF Zeros, Memory, Byte
<1> QED BY <1>1, PreparedIsMemory, LoadedIsMemory DEF Constructed

-----------------------------------------------------------------------------
(***************************************************************************)
(* What an access reaches.                                                 *)
(***************************************************************************)
\* An access that stays in the memory reaches the bytes that follow each other there: it
\* does not wrap around the addresses, because the last of them is outside.
LEMMA Inside ==
  ASSUME NEW address \in Value, NEW size \in 1..4, ~IsAccessViolation(address, size)
  PROVE  /\ address + size <= MemorySize
         /\ Reached(address, size) = 0..size - 1
         /\ \A i \in 0..size - 1 : AddressOf(address, i) = address + i
<1>1. Reached(address, size) = 0..size - 1
  BY DEF IsAccessViolation
<1>2. address \in Nat /\ address < WordSize /\ MemorySize \in Nat /\ MemorySize < WordSize
      /\ WordSize \in Nat
  BY ValueIsInt, MemoryAssumption, WordFacts
<1>3. \A j \in 0..size - 1 : Wrap(address + j) < MemorySize
  <2>1. size - 1 \in 0..size - 1
    OBVIOUS
  <2>2. size - 1 \in Reached(address, size)
    BY <1>1, <2>1
  <2> QED BY <2>2 DEF Reached, AddressOf
<1>4. address + size <= MemorySize
  <2> SUFFICES ASSUME MemorySize < address + size PROVE FALSE
    BY <1>2
  <2>1. CASE address <= MemorySize
    <3>1. MemorySize - address \in 0..size - 1 /\ address + (MemorySize - address) = MemorySize
      BY <1>2, <2>1
    <3>2. Wrap(MemorySize) = MemorySize
      BY <1>2, WrapFacts
    <3> QED BY <1>2, <1>3, <3>1, <3>2
  <2>2. CASE address > MemorySize
    <3>1. 0 \in 0..size - 1 /\ address + 0 = address
      BY <1>2
    <3>2. Wrap(address) = address
      BY <1>2, WrapFacts
    <3> QED BY <1>2, <1>3, <2>2, <3>1, <3>2
  <2> QED BY <1>2, <2>1, <2>2
<1>5. ASSUME NEW i \in 0..size - 1
      PROVE  AddressOf(address, i) = address + i
  <2>1. address + i \in Int /\ address + i >= 0 /\ address + i < WordSize
    BY <1>2, <1>4
  <2> QED BY <2>1, WrapFacts DEF AddressOf
<1> QED BY <1>1, <1>4, <1>5

\* The byte at b is byte i of an access that reaches it, and of no other.
LEMMA ReachedBytes ==
  ASSUME NEW address \in Value, NEW size \in 1..4, NEW b \in 0..MemorySize - 1
  PROVE  /\ \A i \in Reached(address, size) : AddressOf(address, i) = address + i
         /\ Wrap(b - address) \in Reached(address, size) =>
              /\ b = address + Wrap(b - address)
              /\ b \in address..address + size - 1
<1>1. address \in Nat /\ address < WordSize /\ MemorySize \in Nat /\ MemorySize < WordSize
      /\ WordSize \in Nat /\ b \in Nat /\ b < WordSize
  BY ValueIsInt, MemoryAssumption, WordFacts
<1>2. ASSUME NEW i \in Reached(address, size)
      PROVE  address + i < WordSize
  <2>1. i \in 0..size - 1 /\ \A j \in 0..i : AddressOf(address, j) < MemorySize
    BY DEF Reached
  <2> SUFFICES ASSUME WordSize <= address + i PROVE FALSE
    BY <1>1, <2>1
  <2> DEFINE j == WordSize - 1 - address
  <2>2. j \in 0..i /\ address + j = WordSize - 1
    BY <1>1, <2>1
  <2>3. Wrap(WordSize - 1) = WordSize - 1
    BY <1>1, WrapFacts
  <2>4. AddressOf(address, j) = WordSize - 1
    BY <2>2, <2>3 DEF AddressOf
  <2> QED BY <1>1, <2>1, <2>2, <2>4
<1>3. ASSUME NEW i \in Reached(address, size)
      PROVE  AddressOf(address, i) = address + i
  <2>1. i \in 0..size - 1
    BY DEF Reached
  <2>2. address + i \in Int /\ address + i >= 0 /\ address + i < WordSize
    BY <1>1, <1>2, <2>1
  <2> QED BY <2>2, WrapFacts DEF AddressOf
<1>4. ASSUME Wrap(b - address) \in Reached(address, size)
      PROVE  /\ b = address + Wrap(b - address)
             /\ b \in address..address + size - 1
  <2>1. Wrap(b - address) \in 0..size - 1 /\ address + Wrap(b - address) < WordSize
    BY <1>2, <1>4 DEF Reached
  <2>2. b - address \in Int /\ (b - address >= 0 => Wrap(b - address) = b - address)
        /\ (b - address < 0 => Wrap(b - address) = b - address + WordSize)
    BY <1>1, WrapFacts
  <2> QED BY <1>1, <2>1, <2>2
<1> QED BY <1>3, <1>4

\* A store leaves the bytes it does not reach, and those it reaches get their part of the
\* value.
HasBytes(m) == DOMAIN m = 0..MemorySize - 1

Covers(address, size, b) == b \in address..address + size - 1

LEMMA KeptByte ==
  ASSUME NEW m, HasBytes(m), NEW address \in Value, NEW value,
         NEW size \in 1..4, NEW b \in 0..MemorySize - 1, ~Covers(address, size, b)
  PROVE  SetMemValue(m, address, value, size)[b] = m[b]
BY ReachedBytes DEF SetMemValue, HasBytes, Covers

LEMMA StoredByte ==
  ASSUME NEW m, HasBytes(m), NEW address \in Value, NEW value,
         NEW size \in 1..4, NEW b \in 0..MemorySize - 1,
         NEW i \in Reached(address, size), b = address + i
  PROVE  SetMemValue(m, address, value, size)[b] = (value \div Place(i, size)) % ByteSize
<1>1. i \in 0..size - 1 /\ address \in Int /\ WordSize > 4 /\ WordSize \in Nat
  BY ValueIsInt, WordFacts DEF Reached
<1>2. i \in Int /\ i >= 0 /\ i < WordSize /\ b - address = i
  BY <1>1
<1>3. Wrap(b - address) = i
  BY <1>2, WrapFacts
<1> QED BY <1>3 DEF SetMemValue, HasBytes
=============================================================================
