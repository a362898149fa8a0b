---------------------------- MODULE MemoryStore ----------------------------
(***************************************************************************)
(* Class MemoryStore: an array of bytes, read and written by the byte, the *)
(* half word and the word, the most significant byte first.  Both          *)
(* simulators construct it at address 0.                                   *)
(*                                                                         *)
(* A memory is a function from the addresses below MemorySize to bytes.    *)
(***************************************************************************)
EXTENDS Alu, Sequences

CONSTANT MemorySize   \* MEMORY_SIZE

ASSUME MemoryAssumption == MemorySize \in Nat /\ MemorySize >= 4 /\ MemorySize < WordSize

Byte   == 0..ByteSize - 1
Memory == [0..MemorySize - 1 -> Byte]
Sizes  == {1, 2, 4}   \* MemEntrySize

-----------------------------------------------------------------------------
(***************************************************************************)
(* getOrSetValue goes from byte to byte until memArr.at throws: an access  *)
(* that crosses the end has reached the bytes before it.                   *)
(***************************************************************************)
AddressOf(address, i) == Wrap(address + i)

Reached(address, size) ==
  {i \in 0..size - 1 : \A j \in 0..i : AddressOf(address, j) < MemorySize}

IsAccessViolation(address, size) == Reached(address, size) # 0..size - 1

\* The place value of byte i of an access.
PlaceMutant(i, size) ==
  CASE i = 0 -> 1
    [] i = 1 -> ByteSize
    [] i = 2 -> ByteSize * ByteSize
    [] i = 3 -> ByteSize * ByteSize * ByteSize
Place(i, size) ==
  CASE size - 1 - i = 0 -> 1
    [] size - 1 - i = 1 -> ByteSize
    [] size - 1 - i = 2 -> ByteSize * ByteSize
    [] size - 1 - i = 3 -> ByteSize * ByteSize * ByteSize

\* getMemValue
GetMemValue(m, address, size) ==
  LET part(i) == IF i \in Reached(address, size)
                 THEN m[AddressOf(address, i)] * Place(i, size) ELSE 0
  IN  part(0) + part(1) + part(2) + part(3)

\* setMemValue
SetMemValue(m, address, value, size) ==
  [b \in DOMAIN m |->
     LET i == Wrap(b - address)
     IN  IF i \in Reached(address, size) THEN (value \div Place(i, size)) % ByteSize ELSE m[b]]

-----------------------------------------------------------------------------
(***************************************************************************)
(* Construction.  The memory is zero; prepareMemory writes the words of    *)
(* init_mem_image, a list of addresses and values, and goes through its    *)
(* loop once more at the end of the file, with address 0 and value 0;      *)
(* loadFromFile writes the program from address 0.                         *)
(***************************************************************************)
Zeros == [b \in 0..MemorySize - 1 |-> 0]

PrepareMemory(m, image) ==
  LET after[n \in 0..Len(image)] ==
        IF n = 0 THEN m ELSE SetMemValue(after[n - 1], image[n].address, image[n].value, 4)
  IN  SetMemValue(after[Len(image)], 0, 0, 4)

LoadFromFile(m, file) ==
  LET after[n \in 0..Len(file)] ==
        IF n = 0 THEN m ELSE SetMemValue(after[n - 1], n - 1, file[n], 1)
  IN  after[Len(file)]

ConstructedMutant(image, file) == PrepareMemory(LoadFromFile(Zeros, file), image)
Constructed(image, file) == LoadFromFile(PrepareMemory(Zeros, image), file)
=============================================================================
