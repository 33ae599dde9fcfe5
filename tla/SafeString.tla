----------------------------- MODULE SafeString -----------------------------
(***************************************************************************)
(* The string and memory functions (safe_string.c) on one small memory, in *)
(* which the buffers of a call may overlap.  Loops are folds over the      *)
(* bytes in the order of the code, so that what a copy overwrites before   *)
(* it reads it is seen.  A source string ends inside the memory.           *)
(***************************************************************************)
EXTENDS Integers, Sequences

CONSTANTS
  MemorySize,   \* bytes of memory
  Byte,         \* values of a byte; 0 ends a string
  MaxNumber     \* largest number converted, INT32_MAX in the code

ASSUME StringAssumption ==
  /\ MemorySize \in Nat \ {0}
  /\ MaxNumber \in Nat
  /\ {0, 1} \subseteq Byte /\ Byte \subseteq Nat

VARIABLES
  stMemory,   \* the memory
  stBefore,   \* history: the memory before the call
  stCall,     \* history: the call: function, dest, size, src, count
  stResult    \* history: what it returned: code and length

stVars == <<stMemory, stBefore, stCall, stResult>>

Address == 0..(MemorySize - 1)
Memory == [Address -> Byte]
Ends(mem, s) == \E i \in s..(MemorySize - 1) : mem[i] = 0
LengthOf(mem, s) == CHOOSE n \in 0..(MemorySize - s) :
  mem[s + n] = 0 /\ \A i \in 0..(n - 1) : mem[s + i] # 0
Least(a, b) == IF a < b THEN a ELSE b

Refused(mem) == [memory |-> mem, code |-> "PARAM", length |-> 0]
Done(mem, code, length) == [memory |-> mem, code |-> code, length |-> length]

-----------------------------------------------------------------------------
(* The copying loop of the three string functions: at most n characters    *)
(* from s to d, and then a terminator.                                     *)
Copied(mem, d, s, n) ==
  LET run[i \in 0..n] ==
        IF i = 0 THEN [memory |-> mem, count |-> 0]
        ELSE LET r == run[i - 1]
             IN  IF r.count < i - 1 \/ r.memory[s + i - 1] = 0 THEN r
                 ELSE [memory |-> [r.memory EXCEPT ![d + i - 1] = r.memory[s + i - 1]],
                       count |-> i]
  IN  [run[n] EXCEPT !.memory = [@ EXCEPT ![d + run[n].count] = 0]]

Truncation(mem, s, count) == IF mem[s + count] # 0 THEN "TRUNCATED" ELSE "OK"

Strcpy(mem, d, size, s) ==
  IF size = 0 THEN Refused(mem)
  ELSE LET r == Copied(mem, d, s, size - 1)
       IN  Done(r.memory, Truncation(r.memory, s, r.count), r.count)

(* Does not report a truncation. *)
Strncpy(mem, d, size, s, max) ==
  IF size = 0 THEN Refused(mem)
  ELSE LET r == Copied(mem, d, s, Least(size - 1, max))
       IN  Done(r.memory, "OK", r.count)

Strcat(mem, d, size, s) ==
  IF \A i \in 0..(size - 1) : mem[d + i] # 0 THEN Refused(mem)
  ELSE LET length == LengthOf(mem, d)
           r == Copied(mem, d + length, s, size - length - 1)
       IN  Done(r.memory, Truncation(r.memory, s, r.count), length + r.count)

(* A string whose terminator is the byte past max_length counts as cut. *)
Strlen(mem, s, max) ==
  LET ended == {n \in 0..(max - 1) : mem[s + n] = 0}
      length == IF ended = {} THEN max ELSE LengthOf(mem, s)
  IN  Done(mem, IF length = max THEN "TRUNCATED" ELSE "OK", length)

(* safe_strcmp and safe_strncmp: the sign of the first difference, or 0;   *)
(* only the first reports that it came to the end of the n characters.     *)
Strcmp(mem, a, b, n, reports) ==
  LET stops == {i \in 0..(n - 1) : mem[a + i] # mem[b + i] \/ mem[a + i] = 0}
      first == CHOOSE i \in stops : \A j \in stops : i <= j
  IN  IF stops = {} THEN Done(mem, IF reports THEN "TRUNCATED" ELSE "OK", 0)
      ELSE IF mem[a + first] = mem[b + first] THEN Done(mem, "OK", 0)
      ELSE Done(mem, "OK", IF mem[a + first] < mem[b + first] THEN -1 ELSE 1)

Moved(mem, d, s, count) ==
  [i \in Address |-> IF i \in d..(d + count - 1) THEN mem[s + i - d] ELSE mem[i]]

Overlap(d, s, count) == (d >= s /\ d < s + count) \/ (s >= d /\ s < d + count)

Memcpy(mem, d, size, s, count) ==
  IF count > size \/ Overlap(d, s, count) THEN Refused(mem)
  ELSE Done(Moved(mem, d, s, count), "OK", count)

(* One byte after the other, from the first or from the last. *)
InOrder(mem, d, s, count, forward) ==
  LET At(k) == IF forward THEN k - 1 ELSE count - k
      run[k \in 0..count] ==
        IF k = 0 THEN mem
        ELSE [run[k - 1] EXCEPT ![d + At(k)] = run[k - 1][s + At(k)]]
  IN  run[count]

Memmove(mem, d, size, s, count) ==
  IF count > size THEN Refused(mem)
  ELSE Done(IF d = s THEN mem ELSE InOrder(mem, d, s, count, d < s), "OK", count)

Memset(mem, d, size, value, count) ==
  IF count > size THEN Refused(mem)
  ELSE Done([i \in Address |-> IF i \in d..(d + count - 1) THEN value ELSE mem[i]],
            "OK", count)

(* safe_memcmp; the regions are not bounded by a size. *)
Memcmp(mem, a, b, count) ==
  LET diff == {i \in 0..(count - 1) : mem[a + i] # mem[b + i]}
      first == CHOOSE i \in diff : \A j \in diff : i <= j
  IN  Done(mem, "OK", IF diff = {} THEN 0
                      ELSE IF mem[a + first] < mem[b + first] THEN -1 ELSE 1)

(* safe_itoa and safe_utoa: the digits of the magnitude, last first, then  *)
(* the sign, reversed into a buffer that must have room for a terminator.  *)
(* The magnitude of the smallest number is taken without overflow.         *)
Text(value) ==
  LET magnitude == IF value < 0 THEN -(value + 1) + 1 ELSE value
      digits[n \in Nat] == IF n < 10 THEN <<n>> ELSE Append(digits[n \div 10], n % 10)
  IN  [minus |-> value < 0, digits |-> digits[magnitude]]

Characters(text) == Len(text.digits) + (IF text.minus THEN 1 ELSE 0)

NoText == [minus |-> FALSE, digits |-> <<>>]

Itoa(value, size) ==
  IF size < 2 THEN [code |-> "PARAM", text |-> NoText]
  ELSE IF Characters(Text(value)) >= size THEN [code |-> "TRUNCATED", text |-> NoText]
  ELSE [code |-> "OK", text |-> Text(value)]

-----------------------------------------------------------------------------
NoCall == [function |-> "none", dest |-> 0, size |-> 0, src |-> 0, count |-> 0]

StInit ==
  /\ stMemory \in Memory
  /\ stBefore = stMemory
  /\ stCall = NoCall
  /\ stResult = [code |-> "OK", length |-> 0]

(* A call, with the buffer and the source inside the memory; one call at a *)
(* time.                                                                   *)
Call(function, d, size, s, count) ==
  LET out == CASE function = "strcpy" -> Strcpy(stMemory, d, size, s)
               [] function = "strncpy" -> Strncpy(stMemory, d, size, s, count)
               [] function = "strcat" -> Strcat(stMemory, d, size, s)
               [] function = "strlen" -> Strlen(stMemory, s, count)
               [] function = "strcmp" -> Strcmp(stMemory, d, s, count, TRUE)
               [] function = "strncmp" -> Strcmp(stMemory, d, s, count, FALSE)
               [] function = "memcpy" -> Memcpy(stMemory, d, size, s, count)
               [] function = "memmove" -> Memmove(stMemory, d, size, s, count)
               [] function = "memset" -> Memset(stMemory, d, size, 1, count)
               [] function = "memcmp" -> Memcmp(stMemory, d, s, count)
  IN  /\ d + size <= MemorySize
      /\ function \in {"strcpy", "strncpy", "strcat"} => Ends(stMemory, s)
      /\ function \notin {"strcpy", "strncpy", "strcat"} => s + count <= MemorySize
      /\ function \in {"strcmp", "strncmp", "memcmp"} => size = count
      /\ function = "strlen" => d = 0 /\ size = 0
      /\ stMemory' = out.memory
      /\ stResult' = [code |-> out.code, length |-> out.length]
      /\ stCall' = [function |-> function, dest |-> d, size |-> size,
                    src |-> s, count |-> count]
      /\ stBefore' = stMemory

Return ==
  /\ stCall # NoCall
  /\ stCall' = NoCall
  /\ stResult' = [code |-> "OK", length |-> 0]
  /\ stBefore' = stMemory
  /\ UNCHANGED stMemory

StNext ==
  \/ /\ stCall = NoCall
     /\ \E function \in {"strcpy", "strncpy", "strcat", "strlen", "strcmp", "strncmp",
                         "memcpy", "memmove", "memset", "memcmp"},
           d, s \in Address, size, count \in 0..MemorySize :
          Call(function, d, size, s, count)
  \/ Return

-----------------------------------------------------------------------------
StTypeOK ==
  /\ stMemory \in Memory
  /\ stBefore \in Memory
  /\ stResult.code \in {"OK", "PARAM", "TRUNCATED"}
  /\ stResult.length \in -1..MemorySize

Region(mem, s, n) == [i \in 0..(n - 1) |-> mem[s + i]]
Apart(d, size, s, n) == d + size <= s \/ s + n <= d

(* A string function that does not refuse leaves a terminated string in    *)
(* the buffer; unless the buffers overlap, strcpy leaves the source or, if *)
(* it says so, as much of it as fits.                                      *)
StringsTerminated ==
  LET c == stCall
      length == LengthOf(stBefore, c.src)
  IN  c.function \in {"strcpy", "strncpy", "strcat"} /\ stResult.code # "PARAM" =>
        /\ \E i \in 0..(c.size - 1) : stMemory[c.dest + i] = 0
        /\ c.function = "strcpy" /\ Apart(c.dest, c.size, c.src, length + 1) =>
             /\ Region(stMemory, c.dest, stResult.length)
                  = Region(stBefore, c.src, stResult.length)
             /\ stResult.length = Least(length, c.size - 1)
             /\ (stResult.code = "TRUNCATED") <=> (stResult.length < length)

(* memmove copies as if through a second buffer. *)
MoveIsCopy ==
  stCall.function = "memmove" /\ stResult.code = "OK" =>
    stMemory = Moved(stBefore, stCall.dest, stCall.src, stCall.count)

(* The number that a text shows. *)
Value(text) ==
  LET value[i \in 0..Len(text.digits)] ==
        IF i = 0 THEN 0 ELSE 10 * value[i - 1] + text.digits[i]
      magnitude == value[Len(text.digits)]
  IN  IF text.minus THEN -magnitude ELSE magnitude

NumbersReadBack ==
  \A value \in (-MaxNumber - 1)..MaxNumber, size \in 0..5 :
    LET out == Itoa(value, size)
    IN  out.code = "OK" => Characters(out.text) < size /\ Value(out.text) = value

(***************************************************************************)
(* Nothing outside the buffer is written, and nothing at all by a call     *)
(* that refuses; strings end inside their buffers; overlapping moves come  *)
(* out right; numbers read back.                                           *)
(***************************************************************************)
StringsBounded ==
  /\ \A i \in Address : stMemory[i] # stBefore[i] =>
       /\ i \in stCall.dest..(stCall.dest + stCall.size - 1)
       /\ stResult.code # "PARAM"
  /\ StringsTerminated
  /\ MoveIsCopy
  /\ (stCall = NoCall /\ \A a \in Address : stMemory[a] = 0) => NumbersReadBack
=============================================================================
