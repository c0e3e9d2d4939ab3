------------------------ MODULE GenericLoopbackProofs ------------------------
(***************************************************************************)
(* Proofs about the linked generic devices, for any number of bytes, kills *)
(* and steps of the other emulator.                                        *)
(***************************************************************************)
EXTENDS GenericLoopback, SequenceTheorems, TLAPS

Types ==
    /\ file \in Seq(Int) /\ tmpFile \in Seq(Int)
    /\ rest \in Seq(Int) /\ hStart \in Seq(Int) /\ hNext \in Nat
    /\ pc \in {"idle", "dead"} \cup Steps

\* What a read_dev that took a prefix leaves: the last bytes of the file.
Left == SubSeq(hStart, Len(hStart) - Len(rest) + 1, Len(hStart))

\* The inductive invariant: at every step of read_dev one place holds what is
\* to stay.  Outside read_dev there is nothing to keep, and nothing went wrong.
Restful == rest = Left /\ Len(rest) <= Len(hStart)
NothingTaken == pc = "idle" => hStart = <<>> /\ rest = <<>> /\ hNow = {}
Untouched == pc \in {"prefix", "copied"} => file = hStart
InScratch == exists /\ tmpFile = rest
Saved ==
    /\ pc \in {"copied", "truncated"} /\ hNow \cap {"copy", "scratch", "crossed"} = {} => InScratch
    /\ pc = "restored" /\ hNow \cap Unsaving = {} => InScratch
Survives ==
    pc = "dead" /\ hNow \cap Unsaving = {} => IsPrefix(hStart, file) \/ file = rest \/ InScratch

IInv == /\ Types
        /\ Restful
        /\ NothingTaken
        /\ Untouched
        /\ Saved
        /\ Survives

\* A file is a prefix of itself; the empty one is a prefix of all.
LEMMA PrefixFacts ==
    ASSUME NEW s \in Seq(Int)
    PROVE  IsPrefix(s, s) /\ IsPrefix(<<>>, s)
  BY DEF IsPrefix

\* A prefix of a file has bytes of that file, and its prefixes are the file's.
LEMMA PrefixType ==
    ASSUME NEW s \in Seq(Int), NEW p \in Prefixes(s)
    PROVE  p \in Seq(Int) /\ Prefixes(p) \subseteq Prefixes(s)
  <1>1. PICK l \in 0..Len(s) : p = SubSeq(s, 1, l)
    BY DEF Prefixes
  <1>2. p \in Seq(Int) /\ Len(p) = l /\ p = [i \in 1..l |-> s[i]]
    BY <1>1
  <1>3. ASSUME NEW k \in 0..l PROVE SubSeq(p, 1, k) = SubSeq(s, 1, k)
    BY <1>2, <1>3
  <1>4. 0..l \subseteq 0..Len(s)
    BY <1>1
  <1> QED BY <1>2, <1>3, <1>4 DEF Prefixes

\* Nothing, the file itself, and what a failing write leaves of it are prefixes.
LEMMA SomePrefixes ==
    ASSUME NEW s \in Seq(Int)
    PROVE  <<>> \in Prefixes(s) /\ s \in Prefixes(s) /\ Shorter(s) \subseteq Prefixes(s)
  <1>1. 0 \in 0..Len(s) /\ <<>> = SubSeq(s, 1, 0)
    OBVIOUS
  <1>2. Len(s) \in 0..Len(s) /\ s = SubSeq(s, 1, Len(s))
    OBVIOUS
  <1> QED BY <1>1, <1>2 DEF Prefixes, Shorter

\* The scratch file, where there is none to open, is empty.
LEMMA ScratchType == ASSUME Types PROVE Scratch \in Seq(Int)
  BY DEF Types, Scratch

\* Nothing was taken, nothing is left.
LEMMA NothingLeft == ASSUME hStart = <<>>, rest = <<>> PROVE Restful
  BY DEF Restful, Left

\* What read() leaves of the file is its end.
LEMMA SplitLeaves ==
    ASSUME file \in Seq(Int), NEW n \in Nat
    PROVE  LET left == Split(n).left
           IN  /\ left \in Seq(Int) /\ Len(left) <= Len(file)
               /\ left = SubSeq(file, Len(file) - Len(left) + 1, Len(file))
  <1> DEFINE t == IF n < Len(file) THEN n ELSE Len(file)
             left == SubSeq(file, t + 1, Len(file))
  <1>1. t \in Nat /\ t <= Len(file) /\ Len(file) \in Nat
    OBVIOUS
  <1>2. Split(n).left = left
    BY DEF Split
  <1> HIDE DEF t
  <1>3. \A i \in (t + 1)..Len(file) : file[i] \in Int
    BY <1>1
  <1>4. /\ left \in Seq(Int)
        /\ Len(left) = IF t + 1 <= Len(file) THEN Len(file) - (t + 1) + 1 ELSE 0
    BY <1>1, <1>3, SubSeqProperties
  <1> DEFINE k == t + 1
  <1>5. left = SubSeq(file, k, Len(file))
    OBVIOUS
  <1> HIDE DEF left
  <1>6. Len(left) <= Len(file) /\ Len(file) - Len(left) + 1 = k
    <2>1. ASSUME NEW n1 \in Nat, NEW n2 \in Nat, n1 <= n2,
                 NEW l, l = IF n1 + 1 <= n2 THEN n2 - (n1 + 1) + 1 ELSE 0
          PROVE  l <= n2 /\ n2 - l + 1 = n1 + 1
      BY <2>1
    <2> QED BY <1>1, <1>4, <2>1
  <1> HIDE DEF k
  <1>7. left = SubSeq(file, Len(file) - Len(left) + 1, Len(file))
    BY <1>5, <1>6
  <1> QED BY <1>2, <1>4, <1>6, <1>7

\* At first there is nothing.
LEMMA InitIInv == Init => IInv
  <1> SUFFICES ASSUME Init PROVE IInv
    OBVIOUS
  <1>1. Restful
    BY NothingLeft DEF Init
  <1>2. Types
    BY DEF Init, Types
  <1> QED BY <1>1, <1>2 DEF Init, IInv, NothingTaken, Untouched, Saved, Survives, Steps

\* A command of the TX device adds some first bytes of those it was given.
LEMMA SomeWritten ==
    ASSUME IInv, NEW n \in 1..MaxChunk, write_dev(n) \/ KilledWriting(n)
    PROVE  /\ n \in Nat /\ Numbers(n) \in Seq(Int) /\ hNext' = hNext + n
           /\ pc = "idle" /\ pc' \in {"idle", "dead"} /\ hNow' = {}
           /\ UNCHANGED <<exists, tmpFile, reading, hAnswered>>
           /\ \E written \in Prefixes(Numbers(n)) :
                 file' = file \o written
                 /\ (hEver' \cap {"write", "late"} = {} => written = Numbers(n))
  <1>1. n \in Nat
    BY LoopbackAssumption DEF LoopbackAssumption
  <1>2. Numbers(n) \in Seq(Int)
    BY <1>1 DEF Numbers, IInv, Types
  <1>3. CASE write_dev(n)
    <2>1. hNow' = {}
      BY <1>3 DEF write_dev, Fine, Fault, Wrong, wrongs, NothingTaken, IInv
    <2>2. CASE file' = file \o Numbers(n)
      BY <1>1, <1>2, <1>3, <2>1, <2>2, SomePrefixes DEF write_dev
    <2>3. ASSUME NEW written \in Shorter(Numbers(n)), file' = file \o written, Fault({"write"})
          PROVE  "write" \in hEver' /\ written \in Prefixes(Numbers(n))
      BY <1>2, <2>3, SomePrefixes DEF Fault, Wrong
    <2> QED BY <1>1, <1>2, <1>3, <2>1, <2>2, <2>3 DEF write_dev
  <1>4. CASE KilledWriting(n)
    <2>1. PICK written \in Prefixes(Numbers(n)) :
             file' = file \o written /\ Kill(written # Numbers(n))
      BY <1>4 DEF KilledWriting
    <2>2. hNow' = {} /\ pc' = "dead" /\ (written # Numbers(n) => "late" \in hEver')
      BY <1>4, <2>1 DEF KilledWriting, Kill, Wrong
    <2> QED BY <1>1, <1>2, <1>4, <2>1, <2>2 DEF KilledWriting
  <1> QED BY <1>3, <1>4

\* Every step preserves the inductive invariant.
LEMMA NextIInv == IInv /\ [Next]_vars => IInv'
  <1> SUFFICES ASSUME IInv, [Next]_vars PROVE IInv'
    OBVIOUS
  <1> USE DEF IInv
  <1>0. ASSUME UNCHANGED <<rest, hStart>> PROVE Restful'
    BY <1>0 DEF Restful, Left
  <1>1. ASSUME NEW n \in 1..MaxChunk, write_dev(n) \/ KilledWriting(n) PROVE IInv'
    <2>1. /\ n \in Nat /\ Numbers(n) \in Seq(Int) /\ hNext' = hNext + n
          /\ pc = "idle" /\ pc' \in {"idle", "dead"} /\ hNow' = {}
          /\ UNCHANGED <<exists, tmpFile, rest, hStart>>
      BY <1>1, SomeWritten DEF reading
    <2>2. PICK written \in Prefixes(Numbers(n)) : file' = file \o written
      BY <1>1, SomeWritten
    <2>3. written \in Seq(Int)
      BY <2>1, <2>2, PrefixType
    <2>4. Types'
      BY <2>1, <2>2, <2>3 DEF Types
    <2>5. Survives'
      BY <2>1, <2>4, PrefixFacts DEF Survives, NothingTaken, Types
    <2> QED BY <1>0, <2>1, <2>4, <2>5 DEF NothingTaken, Untouched, Saved
  <1>2. ASSUME NEW n \in 1..MaxRead, ReadPrefix(n) PROVE IInv'
    <2>1. n \in Nat
      BY LoopbackAssumption DEF LoopbackAssumption
    <2>2. /\ rest' = Split(n).left /\ hStart' = file /\ pc' = "prefix"
          /\ UNCHANGED <<file, exists, tmpFile, hNext>>
      BY <1>2 DEF ReadPrefix, disk
    <2>3. rest' \in Seq(Int) /\ Restful'
      BY <2>1, <2>2, SplitLeaves DEF Types, Restful, Left
    <2>4. Types'
      BY <2>2, <2>3 DEF Types, Steps
    <2> QED BY <2>2, <2>3, <2>4 DEF NothingTaken, Untouched, Saved, Survives
  <1>3. CASE CopyOut
    <2>1. pc = "prefix" /\ pc' = "copied" /\ UNCHANGED <<file, rest, hStart, hNext>>
      BY <1>3 DEF CopyOut, reading
    <2>2. \/ exists' = TRUE /\ tmpFile' = rest
          \/ tmpFile' \in Shorter(rest) /\ "copy" \in hNow'
          \/ tmpFile' = tmpFile /\ "scratch" \in hNow'
      BY <1>3 DEF CopyOut, Fault, Wrong
    <2>3. Types'
      <3>1. rest \in Seq(Int) /\ tmpFile \in Seq(Int)
        BY DEF Types
      <3>2. Shorter(rest) \subseteq Prefixes(rest)
        BY <3>1, SomePrefixes
      <3>3. \A p \in Prefixes(rest) : p \in Seq(Int)
        BY <3>1, PrefixType
      <3>4. tmpFile' \in Seq(Int)
        BY <2>2, <3>1, <3>2, <3>3
      <3> QED BY <2>1, <3>4 DEF Types, Steps
    <2>4. Saved'
      BY <2>1, <2>2 DEF Saved, InScratch
    <2> QED BY <1>0, <2>1, <2>3, <2>4 DEF NothingTaken, Untouched, Survives
  <1>4. CASE Truncate
    <2>1. /\ pc = "copied" /\ pc' = "truncated" /\ (file' = <<>> \/ file' = file)
          /\ hNow \subseteq hNow'
          /\ UNCHANGED <<exists, tmpFile, rest, hStart, hNext>>
      BY <1>4 DEF Truncate, reading, Fine, Fault, Wrong, wrongs
    <2>2. Types'
      <3>1. <<>> \in Seq(Int) /\ file \in Seq(Int)
        BY DEF Types
      <3>2. file' \in Seq(Int)
        BY <2>1, <3>1
      <3> QED BY <2>1, <3>2 DEF Types, Steps
    <2>3. Saved'
      BY <2>1 DEF Saved, InScratch
    <2> QED BY <1>0, <2>1, <2>2, <2>3 DEF NothingTaken, Untouched, Survives
  <1>5. CASE CopyBack
    <2>1. /\ pc = "truncated" /\ pc' = "restored" /\ hNow \subseteq hNow'
          /\ UNCHANGED <<exists, tmpFile, rest, hStart, hNext>>
      BY <1>5 DEF CopyBack, reading, Fine, Fault, Wrong, wrongs
    <2>2. file' = Scratch \/ file' \in Shorter(Scratch) \/ file' = file
      BY <1>5 DEF CopyBack
    <2>3. file' \in Seq(Int)
      <3>1. Scratch \in Seq(Int) /\ file \in Seq(Int)
        BY ScratchType DEF Types
      <3>2. Shorter(Scratch) \subseteq Prefixes(Scratch)
        BY <3>1, SomePrefixes
      <3>3. \A p \in Prefixes(Scratch) : p \in Seq(Int)
        BY <3>1, PrefixType
      <3> QED BY <2>2, <3>1, <3>2, <3>3
    <2>4. Types'
      BY <2>1, <2>3 DEF Types, Steps
    <2>5. Saved'
      BY <2>1 DEF Saved, InScratch, Unsaving
    <2> QED BY <1>0, <2>1, <2>4, <2>5 DEF NothingTaken, Untouched, Survives
  <1>6. CASE Answer
    <2>1. /\ pc' = "idle" /\ rest' = <<>> /\ hStart' = <<>> /\ hNow' = {}
          /\ (tmpFile' = <<>> \/ tmpFile' = tmpFile) /\ UNCHANGED <<file, hNext>>
      BY <1>6 DEF Answer
    <2>2. Restful'
      BY <2>1 DEF Restful, Left
    <2>3. Types'
      <3>1. <<>> \in Seq(Int) /\ tmpFile \in Seq(Int)
        BY DEF Types
      <3>2. tmpFile' \in Seq(Int)
        BY <2>1, <3>1
      <3> QED BY <2>1, <3>2 DEF Types
    <2> QED BY <2>1, <2>2, <2>3 DEF NothingTaken, Untouched, Saved, Survives
  <1>7. CASE KilledReading
    <2>1. /\ pc \in Steps /\ pc' = "dead" /\ hNow \subseteq hNow'
          /\ UNCHANGED <<rest, hStart, hNext>>
      BY <1>7 DEF KilledReading, Kill, Wrong, reading, Steps
    <2>2. CASE UNCHANGED <<file, exists, tmpFile>>
      <3>1. Types'
        BY <2>1, <2>2 DEF Types
      <3>2. Survives'
        BY <2>1, <2>2, PrefixFacts DEF Survives, Untouched, Saved, InScratch, Unsaving, Steps, Types
      <3> QED BY <1>0, <2>1, <3>1, <3>2 DEF NothingTaken, Untouched, Saved
    <2>3. CASE pc = "prefix" /\ tmpFile' \in Prefixes(rest) /\ UNCHANGED file
      <3>1. Types'
        BY <2>1, <2>3, PrefixType DEF Types
      <3>2. Survives'
        BY <2>1, <2>3, PrefixFacts DEF Survives, Untouched, Types
      <3> QED BY <1>0, <2>1, <3>1, <3>2 DEF NothingTaken, Untouched, Saved
    <2>4. CASE pc = "truncated" /\ file' \in Prefixes(Scratch) /\ UNCHANGED <<exists, tmpFile>>
      <3>1. Types'
        BY <2>1, <2>4, PrefixType, ScratchType DEF Types
      <3>2. Survives'
        BY <2>1, <2>4 DEF Survives, Saved, InScratch, Unsaving
      <3> QED BY <1>0, <2>1, <3>1, <3>2 DEF NothingTaken, Untouched, Saved
    <2> QED BY <1>7, <2>2, <2>3, <2>4 DEF KilledReading
  <1>8. CASE Restart
    <2>1. /\ pc' = "idle" /\ rest' = <<>> /\ hStart' = <<>> /\ hNow' = {}
          /\ UNCHANGED <<file, exists, tmpFile, hNext>>
      BY <1>8 DEF Restart, disk
    <2>2. Restful'
      BY <2>1 DEF Restful, Left
    <2>3. Types'
      BY <2>1 DEF Types
    <2> QED BY <2>1, <2>2, <2>3 DEF NothingTaken, Untouched, Saved, Survives
  <1>9. CASE OtherEmulator
    <2>1. UNCHANGED <<file, pc, rest, hStart, hNext>>
      BY <1>9 DEF OtherEmulator, reading
    <2>2. tmpFile' \in Seq(Int)
      <3>1. tmpFile' \in {<<>>, <<Foreign>>}
        BY <1>9 DEF OtherEmulator
      <3>2. Foreign \in Int
        BY DEF Foreign
      <3>3. <<>> \in Seq(Int) /\ <<Foreign>> \in Seq(Int)
        BY <3>2
      <3> QED BY <3>1, <3>3
    <2>3. /\ pc = "idle" => hNow' = {}
          /\ pc \in {"copied", "truncated"} => "crossed" \in hNow'
          /\ pc \in {"restored", "dead"} => "overwritten" \in hNow'
      BY <1>9 DEF OtherEmulator, Wrong
    <2>4. Types'
      BY <2>1, <2>2 DEF Types
    <2> QED BY <1>0, <2>1, <2>3, <2>4 DEF NothingTaken, Untouched, Saved, Survives, Unsaving
  <1>10. CASE UNCHANGED vars
    BY <1>0, <1>10 DEF vars, disk, reading, wrongs, Types, NothingTaken, Untouched, Saved,
       InScratch, Survives
  <1> QED
    BY <1>1, <1>2, <1>3, <1>4, <1>5, <1>6, <1>7, <1>8, <1>9, <1>10 DEF Next

\* At every instant of a read_dev, and after a kill at that instant, the bytes it
\* was to leave are all in the data file or all in the scratch file, once they
\* were copied there in full and as long as no other emulator replaces them,
\* whatever else fails.
THEOREM NothingLostOnDisk == Spec => []UnreadBytesOnDisk
  <1>1. IInv => UnreadBytesOnDisk
    <2> SUFFICES ASSUME IInv, pc \in Steps \cup {"dead"}, hNow \cap Unsaving = {}
                 PROVE  \/ IsPrefix(hStart, file)
                        \/ file = Left
                        \/ exists /\ tmpFile = Left
      <3>1. Len(hStart) \in Nat /\ Len(rest) \in Nat
        BY DEF IInv, Types
      <3> QED BY <3>1 DEF UnreadBytesOnDisk, Left
    <2>1. hNow \cap {"copy", "scratch", "crossed"} = {}
      BY DEF Unsaving
    <2> QED
      BY <2>1, PrefixFacts DEF IInv, Types, Restful, Untouched, Saved, InScratch, Survives, Steps
  <1> QED BY <1>1, InitIInv, NextIInv, PTL DEF Spec

-----------------------------------------------------------------------------
(* What the clients see.  The inductive invariant for it is about the stream: *)
(* what was answered followed by what is still to be read, which during a     *)
(* read_dev is the data file as it was when the read began.                   *)

BytesBefore(n) == [i \in 1..(n - 1) |-> i]
Stream == hAnswered \o (IF pc \in Steps THEN hStart ELSE file)

\* The bytes of a sequence were all written before byte n, and stand in the order
\* of the writes.
InOrder(s, n) ==
    /\ \A i, j \in DOMAIN s : i < j => s[i] < s[j]
    /\ \A i \in DOMAIN s : s[i] \in 1..(n - 1)

StreamTypes == /\ hAnswered \in Seq(Int) /\ pbuf.bytes \in Seq(Int)
               /\ hNext >= 1
Past == hNow \subseteq hEver
Taken == pc \in Steps => hStart = pbuf.bytes \o rest
Emptied == pc = "truncated" => file = <<>> \/ (file = hStart /\ "truncate" \in hNow)
Scratched ==
    pc \in {"copied", "truncated"} /\ hNow \cap {"stale", "crossed"} = {} =>
        ~exists \/ tmpFile \in Prefixes(rest)
Returned ==
    pc = "restored" => /\ hNow \cap Repeating = {} => file \in Prefixes(rest)
                       /\ hNow \cap Lossy = {} => file = rest
Ordered == hEver \cap Repeating = {} => InOrder(Stream, hNext)
Complete == hEver \cap Lossy = {} => Stream = BytesBefore(hNext)

StreamInv == /\ StreamTypes
             /\ Past
             /\ Taken
             /\ Emptied
             /\ Scratched
             /\ Returned
             /\ Ordered
             /\ Complete

\* Where the elements of a concatenation come from.
LEMMA ConcatAt ==
    ASSUME NEW s \in Seq(Int), NEW t \in Seq(Int)
    PROVE  /\ Len(s) \in Nat /\ Len(t) \in Nat
           /\ s \o t \in Seq(Int) /\ DOMAIN (s \o t) = 1..(Len(s) + Len(t))
           /\ \A i \in 1..Len(s) : (s \o t)[i] = s[i]
           /\ \A j \in 1..Len(t) : (s \o t)[Len(s) + j] = t[j]
           /\ \A i \in 1..(Len(s) + Len(t)) :
                 i \in 1..Len(s) \/ \E j \in 1..Len(t) : i = Len(s) + j
  <1>1. /\ Len(s) \in Nat /\ Len(t) \in Nat
        /\ s \o t \in Seq(Int) /\ DOMAIN (s \o t) = 1..(Len(s) + Len(t))
    OBVIOUS
  <1>2. \A i \in 1..Len(s) : (s \o t)[i] = s[i]
    OBVIOUS
  <1>3. \A j \in 1..Len(t) : (s \o t)[Len(s) + j] = t[j]
    OBVIOUS
  <1>4. ASSUME NEW i \in 1..(Len(s) + Len(t)), i \notin 1..Len(s)
        PROVE  \E j \in 1..Len(t) : i = Len(s) + j
    <2>1. i - Len(s) \in 1..Len(t) /\ i = Len(s) + (i - Len(s))
      BY <1>1, <1>4
    <2> QED BY <2>1
  <1> QED BY <1>1, <1>2, <1>3, <1>4

\* Concatenation may be done in either order.
LEMMA Regroup ==
    ASSUME NEW s \in Seq(Int), NEW t \in Seq(Int), NEW u \in Seq(Int)
    PROVE  (s \o t) \o u = s \o (t \o u) /\ s \o t \in Seq(Int)
  <1>1. (s \o t) \o u = s \o (t \o u)
    BY ConcatAssociative, SMTT(30)
  <1> QED BY <1>1

\* Appending the next bytes written, or some first ones of them, keeps the order.
LEMMA MoreInOrder ==
    ASSUME NEW s \in Seq(Int), NEW m \in Nat, m >= 1, InOrder(s, m), NEW n \in Nat,
           NEW p \in Seq(Int), Len(p) <= n, \A i \in 1..Len(p) : p[i] = m + i - 1
    PROVE  InOrder(s \o p, m + n)
  <1> DEFINE t == s \o p
  <1>1. /\ Len(s) \in Nat /\ Len(p) \in Nat
        /\ DOMAIN t = 1..(Len(s) + Len(p))
        /\ \A i \in DOMAIN t : i \in 1..Len(s) \/ \E j \in 1..Len(p) : i = Len(s) + j
    BY ConcatAt
  <1>2. \A i \in 1..Len(s) : t[i] = s[i] /\ i \in DOMAIN s
    BY ConcatAt
  <1>3. \A j \in 1..Len(p) : t[Len(s) + j] = m + j - 1
    BY ConcatAt
  <1> HIDE DEF t
  <1>4. \A i \in 1..Len(s) : t[i] \in 1..(m - 1)
    BY <1>2 DEF InOrder
  <1>5. ASSUME NEW i \in DOMAIN t PROVE t[i] \in 1..(m + n - 1)
    <2>1. CASE i \in 1..Len(s)
      BY <1>4, <2>1
    <2>2. ASSUME NEW k \in 1..Len(p), i = Len(s) + k PROVE t[i] \in 1..(m + n - 1)
      <3>1. t[i] = m + k - 1
        BY <1>3, <2>2
      <3> QED BY <1>1, <3>1
    <2> QED BY <1>1, <2>1, <2>2
  <1>6. ASSUME NEW i \in DOMAIN t, NEW j \in DOMAIN t, i < j PROVE t[i] < t[j]
    <2>1. CASE i \in 1..Len(s) /\ j \in 1..Len(s)
      BY <1>2, <1>6, <2>1 DEF InOrder
    <2>2. ASSUME i \in 1..Len(s), NEW k \in 1..Len(p), j = Len(s) + k PROVE t[i] < t[j]
      <3>1. t[i] \in 1..(m - 1) /\ t[j] = m + k - 1
        BY <1>3, <1>4, <2>2
      <3> QED BY <1>1, <3>1
    <2>3. ASSUME NEW h \in 1..Len(p), i = Len(s) + h, NEW k \in 1..Len(p), j = Len(s) + k
          PROVE  t[i] < t[j]
      <3>1. t[i] = m + h - 1 /\ t[j] = m + k - 1
        BY <1>3, <2>3
      <3>2. h < k
        BY <1>1, <1>6, <2>3
      <3> QED BY <1>1, <3>1, <3>2
    <2>4. ASSUME NEW h \in 1..Len(p), i = Len(s) + h, j \in 1..Len(s) PROVE FALSE
      BY <1>1, <1>6, <2>4
    <2> QED BY <1>1, <2>1, <2>2, <2>3, <2>4
  <1>7. InOrder(t, m + n)
    BY <1>5, <1>6 DEF InOrder
  <1> QED BY <1>7 DEF t

\* Losing bytes of the end of a stream, and the first ones of that end, keeps the
\* order.
LEMMA LessInOrder ==
    ASSUME NEW s \in Seq(Int), NEW h \in Seq(Int), NEW f \in Seq(Int), NEW n \in Nat,
           InOrder(s \o h, n), NEW k \in Nat, Len(f) + k <= Len(h),
           \A i \in 1..Len(f) : f[i] = h[i + k]
    PROVE  InOrder(s \o f, n)
  <1> DEFINE t == s \o f
             u == s \o h
             at(i) == IF i <= Len(s) THEN i ELSE i + k
  <1>1. Len(s) \in Nat /\ Len(f) \in Nat /\ Len(h) \in Nat
    OBVIOUS
  <1>2. /\ DOMAIN t = 1..(Len(s) + Len(f)) /\ DOMAIN u = 1..(Len(s) + Len(h))
        /\ \A i \in DOMAIN t : i \in 1..Len(s) \/ \E j \in 1..Len(f) : i = Len(s) + j
    BY ConcatAt
  <1>3. /\ \A i \in 1..Len(s) : t[i] = s[i] /\ u[i] = s[i]
        /\ \A j \in 1..Len(f) : t[Len(s) + j] = f[j]
        /\ \A j \in 1..Len(h) : u[Len(s) + j] = h[j]
    BY ConcatAt
  <1>4. InOrder(u, n)
    OBVIOUS
  <1> HIDE DEF t, u
  <1>5. ASSUME NEW i \in DOMAIN t PROVE at(i) \in DOMAIN u /\ t[i] = u[at(i)]
    <2>1. CASE i \in 1..Len(s)
      <3>1. at(i) = i /\ i \in 1..(Len(s) + Len(h))
        BY <1>1, <2>1
      <3> QED BY <1>2, <1>3, <2>1, <3>1
    <2>2. ASSUME NEW j \in 1..Len(f), i = Len(s) + j PROVE at(i) \in DOMAIN u /\ t[i] = u[at(i)]
      <3>4. j \in Nat /\ 1 <= j /\ j <= Len(f) /\ ~(i <= Len(s))
        BY <1>1, <2>2
      <3>5. at(i) = Len(s) + (j + k)
        BY <1>1, <2>2, <3>4
      <3>1. j + k \in 1..Len(h) /\ at(i) = Len(s) + (j + k)
        BY <1>1, <3>4, <3>5
      <3>2. t[i] = h[j + k] /\ u[Len(s) + (j + k)] = h[j + k]
        BY <1>3, <2>2, <3>1
      <3>3. Len(s) + (j + k) \in 1..(Len(s) + Len(h))
        BY <1>1, <3>1
      <3> QED BY <1>2, <3>1, <3>2, <3>3
    <2> QED BY <1>2, <2>1, <2>2
  <1>6. \A i, j \in DOMAIN t : i < j => at(i) < at(j)
    <2>1. \A i \in DOMAIN t : i \in Nat
      BY <1>1, <1>2
    <2>2. \A i, j \in Nat : i < j => at(i) < at(j)
      BY <1>1
    <2> QED BY <2>1, <2>2
  <1> HIDE DEF at
  <1>7. InOrder(t, n)
    BY <1>4, <1>5, <1>6 DEF InOrder
  <1> QED BY <1>7 DEF t

\* A prefix of the bytes of one write.
LEMMA PrefixOfNumbers ==
    ASSUME hNext \in Nat, NEW n \in Nat, NEW p \in Prefixes(Numbers(n))
    PROVE  /\ p \in Seq(Int) /\ Len(p) <= n
           /\ \A i \in 1..Len(p) : p[i] = hNext + i - 1
  <1>1. Numbers(n) \in Seq(Int) /\ Len(Numbers(n)) = n
    BY DEF Numbers
  <1>2. PICK l \in 0..Len(Numbers(n)) : p = SubSeq(Numbers(n), 1, l)
    BY DEF Prefixes
  <1>3. p = [i \in 1..l |-> Numbers(n)[i]] /\ l \in 0..n
    BY <1>1, <1>2
  <1>4. p = [i \in 1..l |-> hNext + i - 1]
    BY <1>3 DEF Numbers
  <1> QED BY <1>3, <1>4

\* All the bytes before the next one, and one more write.
LEMMA MoreComplete ==
    ASSUME hNext \in Nat, hNext >= 1, NEW n \in Nat
    PROVE  BytesBefore(hNext) \o Numbers(n) = BytesBefore(hNext + n)
  BY DEF Numbers, BytesBefore

\* The end of a sequence that is the concatenation of two.
LEMMA ConcatEnd ==
    ASSUME NEW s \in Seq(Int), NEW t \in Seq(Int), NEW f \in Prefixes(t)
    PROVE  /\ f \in Seq(Int) /\ Len(s) \in Nat /\ Len(f) + Len(s) <= Len(s \o t)
           /\ \A i \in 1..Len(f) : f[i] = (s \o t)[i + Len(s)]
  <1>1. PICK l \in 0..Len(t) : f = SubSeq(t, 1, l)
    BY DEF Prefixes
  <1>2. f \in Seq(Int) /\ Len(f) = l /\ \A i \in 1..l : f[i] = t[i]
    <2>1. f = [i \in 1..l |-> t[i]] /\ l \in Nat
      BY <1>1
    <2>2. \A i \in 1..l : t[i] \in Int
      BY <1>1
    <2> QED BY <2>1, <2>2
  <1>3. /\ Len(s) \in Nat /\ Len(t) \in Nat /\ Len(s \o t) = Len(s) + Len(t)
    OBVIOUS
  <1>4. \A i \in 1..Len(t) : (s \o t)[Len(s) + i] = t[i]
    BY ConcatAt
  <1>5. ASSUME NEW i \in 1..l PROVE f[i] = (s \o t)[i + Len(s)]
    <2>1. i \in 1..Len(t) /\ Len(s) + i = i + Len(s)
      BY <1>3
    <2> QED BY <1>2, <1>4, <2>1
  <1>6. Len(f) + Len(s) <= Len(s \o t)
    BY <1>2, <1>3
  <1> QED BY <1>2, <1>3, <1>5, <1>6

\* What read() takes of the file and what it leaves are the file.
LEMMA SplitWhole ==
    ASSUME file \in Seq(Int), NEW n \in Nat
    PROVE  /\ Split(n).taken \in Seq(Int)
           /\ file = Split(n).taken \o Split(n).left
  <1> DEFINE t == IF n < Len(file) THEN n ELSE Len(file)
  <1>1. t \in 0..Len(file) /\ Len(file) \in Nat
    OBVIOUS
  <1>2. Split(n).taken = SubSeq(file, 1, t) /\ Split(n).left = SubSeq(file, t + 1, Len(file))
    BY DEF Split
  <1> HIDE DEF t
  <1>3. SubSeq(file, 1, t) \in Seq(Int)
    BY <1>1
  <1>4. SubSeq(file, 1, t) \o SubSeq(file, t + 1, Len(file)) = SubSeq(file, 1, Len(file))
    <2>1. 1 \in 1..(Len(file) + 1) /\ t \in (1 - 1)..Len(file) /\ Len(file) \in t..Len(file)
      BY <1>1
    <2> QED BY <2>1, ConcatAdjacentSubSeq
  <1>5. SubSeq(file, 1, Len(file)) = file
    OBVIOUS
  <1> QED BY <1>2, <1>3, <1>4, <1>5

\* At first nothing was written, and nothing read.
LEMMA InitStream == Init => StreamInv
  <1> SUFFICES ASSUME Init PROVE StreamInv
    OBVIOUS
  <1>1. Stream = <<>>
    BY DEF Init, Stream, Steps
  <1>2. BytesBefore(hNext) = <<>>
    BY DEF Init, BytesBefore
  <1> QED BY <1>1, <1>2 DEF Init, StreamInv, StreamTypes, Past, Taken, Emptied, Scratched,
             Returned, Ordered, Complete, InOrder, NoAnswer, Steps

\* The scratch file, nothing if it is not there, has first bytes of the rest, and
\* so has what a failing copy leaves of them.
LEMMA ScratchIsPrefix ==
    ASSUME rest \in Seq(Int), ~exists \/ tmpFile \in Prefixes(rest)
    PROVE  Scratch \in Prefixes(rest) /\ Prefixes(Scratch) \subseteq Prefixes(rest)
  <1>1. Scratch \in Prefixes(rest)
    BY SomePrefixes DEF Scratch
  <1> QED BY <1>1, PrefixType

\* An answered read whose file has first bytes of the rest keeps the order.
LEMMA StillInOrder ==
    ASSUME IInv, StreamInv, pc \in Steps, NEW f \in Prefixes(rest), InOrder(Stream, hNext)
    PROVE  InOrder(hAnswered \o f, hNext) /\ InOrder((hAnswered \o pbuf.bytes) \o f, hNext)
  <1>1. /\ hNext \in Nat /\ hAnswered \in Seq(Int) /\ hStart \in Seq(Int)
        /\ rest \in Seq(Int) /\ pbuf.bytes \in Seq(Int) /\ hStart = pbuf.bytes \o rest
    BY DEF IInv, StreamInv, Types, StreamTypes, Taken
  <1>2. Stream = hAnswered \o hStart
    BY DEF Stream
  <1>3. InOrder(hAnswered \o f, hNext)
    <2>1. /\ f \in Seq(Int) /\ Len(pbuf.bytes) \in Nat /\ Len(f) + Len(pbuf.bytes) <= Len(hStart)
          /\ \A i \in 1..Len(f) : f[i] = hStart[i + Len(pbuf.bytes)]
      BY <1>1, ConcatEnd
    <2> QED BY <1>1, <1>2, <2>1, LessInOrder
  <1>4. InOrder((hAnswered \o pbuf.bytes) \o f, hNext)
    <2> DEFINE s == hAnswered \o pbuf.bytes
    <2>1. s \in Seq(Int)
      BY <1>1
    <2>5. hAnswered \in Seq(Int) /\ pbuf.bytes \in Seq(Int) /\ rest \in Seq(Int)
      BY <1>1
    <2>7. s \o rest = hAnswered \o (pbuf.bytes \o rest)
      BY <2>5, Regroup, ZenonT(30)
    <2>6. s \o rest = Stream
      BY <1>1, <1>2, <2>7
    <2> HIDE DEF s
    <2>2. f \in Seq(Int)
      BY <1>1, PrefixType
    <2>3. Len(f) + 0 <= Len(rest) /\ \A i \in 1..Len(f) : f[i] = rest[i + 0]
      <3>1. PICK l \in 0..Len(rest) : f = SubSeq(rest, 1, l)
        BY DEF Prefixes
      <3>2. f = [i \in 1..l |-> rest[i]] /\ Len(rest) \in Nat
        BY <1>1, <3>1
      <3> QED BY <3>1, <3>2
    <2>4. InOrder(s \o f, hNext)
      BY <1>1, <2>1, <2>6, <2>2, <2>3, LessInOrder
    <2> QED BY <2>4 DEF s
  <1> QED BY <1>3, <1>4

\* A kill during read_dev leaves the answered bytes, then a part of those the
\* read began with.
LEMMA KilledStream ==
    ASSUME IInv, StreamInv, KilledReading
    PROVE  (Ordered /\ Complete)'
  <1> USE DEF IInv, StreamInv
  <1>1. /\ pc \in Steps /\ pc' = "dead" /\ hEver \subseteq hEver'
        /\ (file' # hStart => "late" \in hEver')
        /\ UNCHANGED <<rest, hStart, pbuf, hNext, hAnswered>>
    BY DEF KilledReading, Kill, Wrong, reading, Steps
  <1>2. Stream = hAnswered \o hStart /\ Stream' = hAnswered \o file'
    BY <1>1 DEF Stream, Steps
  <1>3. rest \in Seq(Int)
    BY DEF Types
  <1>4. ASSUME hEver \cap Repeating = {} PROVE file' = hStart \/ file' \in Prefixes(rest)
    <2>1. hNow \cap Repeating = {} /\ hNow \cap {"stale", "crossed"} = {}
      BY <1>4 DEF Past, Repeating
    <2>2. CASE pc \in {"prefix", "copied"}
      BY <2>2 DEF KilledReading, Untouched
    <2>3. CASE pc = "truncated"
      <3>1. file' = file \/ file' \in Prefixes(Scratch)
        BY <2>3 DEF KilledReading
      <3>2. Prefixes(Scratch) \subseteq Prefixes(rest)
        BY <1>3, <2>1, <2>3, ScratchIsPrefix DEF Scratched
      <3> QED BY <1>3, <2>3, <3>1, <3>2, SomePrefixes DEF Emptied
    <2>4. CASE pc = "restored"
      BY <2>1, <2>4 DEF KilledReading, Returned
    <2> QED BY <1>1, <2>2, <2>3, <2>4 DEF Steps
  <1>5. Ordered'
    <2> SUFFICES ASSUME hEver' \cap Repeating = {} PROVE InOrder(Stream', hNext')
      BY DEF Ordered
    <2>1. hEver \cap Repeating = {}
      BY <1>1
    <2>2. InOrder(Stream, hNext)
      BY <2>1 DEF Ordered
    <2>3. CASE file' = hStart
      BY <1>1, <1>2, <2>2, <2>3
    <2>4. CASE file' \in Prefixes(rest)
      <3> DEFINE f == file'
      <3>1. f \in Prefixes(rest)
        BY <2>4
      <3> HIDE DEF f
      <3>2. InOrder(hAnswered \o f, hNext)
        BY <1>1, <2>2, <3>1, StillInOrder
      <3> QED BY <1>1, <1>2, <3>2 DEF f
    <2> QED BY <1>4, <2>1, <2>3, <2>4
  <1>6. Complete'
    <2> SUFFICES ASSUME hEver' \cap Lossy = {} PROVE Stream' = BytesBefore(hNext')
      BY DEF Complete
    <2>1. hEver \cap Lossy = {} /\ file' = hStart
      BY <1>1 DEF Lossy
    <2>2. Stream = BytesBefore(hNext)
      BY <2>1 DEF Complete
    <2> QED BY <1>1, <1>2, <2>1, <2>2 DEF BytesBefore
  <1> QED BY <1>5, <1>6

\* The steps of read_dev between the first and the last move bytes, but the
\* stream is that of the beginning.
LEMMA MovedStream ==
    ASSUME IInv, StreamInv, CopyOut \/ Truncate \/ CopyBack
    PROVE  StreamInv'
  <1> USE DEF IInv, StreamInv
  <1>1. /\ pc \in Steps /\ pc' \in Steps /\ pc # "idle"
        /\ UNCHANGED <<rest, hStart, pbuf, hNext, hAnswered>>
    BY DEF CopyOut, Truncate, CopyBack, reading, Steps
  <1>2. \/ hNow' = hNow /\ hEver' = hEver
        \/ \E events : hNow' = hNow \cup events /\ hEver' = hEver \cup events
    BY <1>1 DEF CopyOut, Truncate, CopyBack, Fine, Fault, Wrong, wrongs
  <1>3. Past' /\ hNow \subseteq hNow' /\ hEver \subseteq hEver'
    BY <1>2 DEF Past
  <1>4. Stream' = Stream
    BY <1>1 DEF Stream
  <1>5. (Ordered /\ Complete)'
    BY <1>1, <1>3, <1>4 DEF Ordered, Complete, BytesBefore
  <1>6. StreamTypes' /\ Taken'
    BY <1>1 DEF StreamTypes, Taken
  <1>7. rest \in Seq(Int)
    BY DEF Types
  <1>8. (Emptied /\ Scratched /\ Returned)'
    <2>1. CASE CopyOut
      <3>1. pc' = "copied"
        BY <2>1 DEF CopyOut
      <3>2. \/ tmpFile' \in Prefixes(rest)
            \/ UNCHANGED exists /\ (exists => "stale" \in hNow')
        BY <1>7, <2>1, SomePrefixes DEF CopyOut, Fault, Wrong
      <3> QED BY <1>1, <3>1, <3>2 DEF Emptied, Scratched, Returned
    <2>2. CASE Truncate
      <3>1. /\ pc = "copied" /\ pc' = "truncated" /\ UNCHANGED <<exists, tmpFile>>
            /\ file' = <<>> \/ (file' = file /\ "truncate" \in hNow')
        BY <2>2 DEF Truncate, Fault, Wrong
      <3>2. Scratched'
        BY <1>1, <1>3, <3>1 DEF Scratched
      <3> QED BY <1>1, <3>1, <3>2 DEF Emptied, Returned, Untouched
    <2>3. CASE CopyBack
      <3>1. pc = "truncated" /\ pc' = "restored"
        BY <2>3 DEF CopyBack
      <3>2. \/ file' = Scratch
            \/ file' \in Shorter(Scratch) /\ "restore" \in hNow'
            \/ /\ file' = file /\ "target" \in hNow'
               /\ ("truncate" \in hNow => "whole" \in hNow')
        BY <2>3, <3>1 DEF CopyBack, Fault, Wrong
      <3>3. ASSUME hNow' \cap Repeating = {} PROVE file' \in Prefixes(rest)
        <4>1. hNow \cap {"stale", "crossed"} = {} /\ "whole" \notin hNow'
          BY <1>3, <3>3 DEF Repeating
        <4>2. Scratch \in Prefixes(rest) /\ Prefixes(Scratch) \subseteq Prefixes(rest)
          BY <1>7, <3>1, <4>1, ScratchIsPrefix DEF Scratched
        <4>3. Shorter(Scratch) \subseteq Prefixes(Scratch) /\ <<>> \in Prefixes(rest)
          BY <1>7, ScratchType, SomePrefixes
        <4> QED BY <3>1, <3>2, <4>1, <4>2, <4>3 DEF Emptied
      <3>4. ASSUME hNow' \cap Lossy = {} PROVE file' = rest
        <4>1. hNow \cap {"copy", "scratch", "crossed"} = {}
          BY <1>3, <3>4 DEF Lossy
        <4>2. file' = Scratch
          BY <3>2, <3>4 DEF Lossy
        <4> QED BY <3>1, <4>1, <4>2 DEF Saved, InScratch, Scratch
      <3> QED BY <1>1, <3>1, <3>3, <3>4 DEF Emptied, Scratched, Returned
    <2> QED BY <2>1, <2>2, <2>3
  <1> QED BY <1>3, <1>5, <1>6, <1>8

\* The answer moves the bytes taken from the read to those answered.
LEMMA AnsweredStream ==
    ASSUME IInv, StreamInv, Answer
    PROVE  StreamInv'
  <1> USE DEF IInv, StreamInv
  <1>1. /\ pc = "restored" /\ pc' = "idle" /\ hAnswered' = hAnswered \o pbuf.bytes
        /\ pbuf'.bytes = <<>> /\ hNow' = {}
        /\ UNCHANGED <<file, hNext, hEver>>
    BY DEF Answer, NoAnswer
  <1>2. /\ hAnswered \in Seq(Int) /\ pbuf.bytes \in Seq(Int) /\ rest \in Seq(Int)
        /\ hStart = pbuf.bytes \o rest /\ pc \in Steps
    BY <1>1 DEF Types, StreamTypes, Taken, Steps
  <1>3. Stream' = (hAnswered \o pbuf.bytes) \o file /\ Stream = hAnswered \o (pbuf.bytes \o rest)
    BY <1>1, <1>2 DEF Stream, Steps
  <1>4. Ordered'
    <2> SUFFICES ASSUME hEver \cap Repeating = {} PROVE InOrder(Stream', hNext')
      BY <1>1 DEF Ordered
    <2>1. file \in Prefixes(rest)
      BY <1>1 DEF Returned, Past
    <2>2. InOrder(Stream, hNext)
      BY DEF Ordered
    <2>3. InOrder((hAnswered \o pbuf.bytes) \o file, hNext)
      BY <1>2, <2>1, <2>2, StillInOrder
    <2> QED BY <1>1, <1>3, <2>3
  <1>5. Complete'
    <2> SUFFICES ASSUME hEver \cap Lossy = {} PROVE Stream' = BytesBefore(hNext')
      BY <1>1 DEF Complete
    <2>1. file = rest
      BY <1>1 DEF Returned, Past
    <2>2. Stream = BytesBefore(hNext)
      BY DEF Complete
    <2>3. (hAnswered \o pbuf.bytes) \o rest = hAnswered \o (pbuf.bytes \o rest)
      BY <1>2, Regroup, ZenonT(30)
    <2>4. Stream' = Stream
      BY <1>3, <2>1, <2>3
    <2> QED BY <1>1, <2>2, <2>4 DEF BytesBefore
  <1>6. hAnswered' \in Seq(Int)
    BY <1>1, <1>2
  <1> QED BY <1>1, <1>4, <1>5, <1>6 DEF StreamTypes, Past, Taken, Emptied, Scratched, Returned, Steps

\* A write adds the next bytes, or some first ones of them.
LEMMA WrittenStream ==
    ASSUME IInv, StreamInv, NEW n \in 1..MaxChunk, write_dev(n) \/ KilledWriting(n)
    PROVE  StreamInv'
  <1> USE DEF IInv, StreamInv
  <1>1. /\ n \in Nat /\ Numbers(n) \in Seq(Int) /\ hNext' = hNext + n
        /\ pc = "idle" /\ pc' \in {"idle", "dead"} /\ hNow' = {}
        /\ UNCHANGED <<rest, hStart, pbuf, hAnswered>>
    BY SomeWritten DEF reading
  <1>2. PICK written \in Prefixes(Numbers(n)) :
           file' = file \o written
           /\ (hEver' \cap {"write", "late"} = {} => written = Numbers(n))
    BY SomeWritten
  <1>3. hEver \subseteq hEver'
    BY DEF write_dev, KilledWriting, Kill, Fine, Fault, Wrong, wrongs
  <1>4. hNext \in Nat /\ hNext >= 1 /\ hNext' >= 1
    BY <1>1 DEF Types, StreamTypes
  <1>5. /\ written \in Seq(Int) /\ Len(written) <= n
        /\ \A i \in 1..Len(written) : written[i] = hNext + i - 1
    BY <1>1, <1>4, PrefixOfNumbers
  <1>6. Stream \in Seq(Int) /\ Stream' = Stream \o written
    <2>1. Stream = hAnswered \o file /\ Stream' = hAnswered \o (file \o written)
      BY <1>1, <1>2 DEF Stream, Steps
    <2>2. hAnswered \in Seq(Int) /\ file \in Seq(Int)
      BY DEF Types, StreamTypes
    <2>3. /\ hAnswered \o file \in Seq(Int)
          /\ (hAnswered \o file) \o written = hAnswered \o (file \o written)
      BY <1>5, <2>2, Regroup
    <2> QED BY <2>1, <2>3
  <1>7. Ordered'
    <2> SUFFICES ASSUME hEver' \cap Repeating = {} PROVE InOrder(Stream', hNext')
      BY DEF Ordered
    <2>1. InOrder(Stream, hNext)
      BY <1>3 DEF Ordered
    <2>2. InOrder(Stream \o written, hNext + n)
      BY <1>1, <1>4, <1>5, <1>6, <2>1, MoreInOrder
    <2> QED BY <1>1, <1>6, <2>2
  <1>8. Complete'
    <2> SUFFICES ASSUME hEver' \cap Lossy = {} PROVE Stream' = BytesBefore(hNext')
      BY DEF Complete
    <2>1. hEver \cap Lossy = {} /\ hEver' \cap {"write", "late"} = {}
      BY <1>3 DEF Lossy
    <2>2. Stream = BytesBefore(hNext) /\ written = Numbers(n)
      BY <1>2, <2>1 DEF Complete
    <2>3. BytesBefore(hNext) \o Numbers(n) = BytesBefore(hNext + n)
      BY <1>1, <1>4, MoreComplete
    <2> QED BY <1>1, <1>6, <2>2, <2>3
  <1> QED BY <1>1, <1>4, <1>7, <1>8 DEF StreamTypes, Past, Taken, Emptied, Scratched, Returned, Steps

\* Every step preserves what the clients see.
LEMMA NextStream == IInv /\ StreamInv /\ [Next]_vars => StreamInv'
  <1> SUFFICES ASSUME IInv, StreamInv, [Next]_vars PROVE StreamInv'
    OBVIOUS
  <1> USE DEF IInv, StreamInv
  <1>0. ASSUME Stream' = Stream, hNext' = hNext, hEver \subseteq hEver'
        PROVE  (Ordered /\ Complete)'
    BY <1>0 DEF Ordered, Complete, BytesBefore
  <1>1. ASSUME NEW n \in 1..MaxChunk, write_dev(n) \/ KilledWriting(n) PROVE StreamInv'
    BY <1>1, WrittenStream
  <1>2. ASSUME NEW n \in 1..MaxRead, ReadPrefix(n) PROVE StreamInv'
    <2>1. n \in Nat
      BY LoopbackAssumption DEF LoopbackAssumption
    <2>2. /\ rest' = Split(n).left /\ pbuf'.bytes = Split(n).taken
          /\ hStart' = file /\ pc = "idle" /\ pc' = "prefix"
          /\ UNCHANGED <<file, hNext, hAnswered, hNow, hEver>>
      BY <1>2 DEF ReadPrefix, disk, Fine, wrongs
    <2>3. pbuf'.bytes \in Seq(Int) /\ file = pbuf'.bytes \o rest'
      BY <2>1, <2>2, SplitWhole DEF Types
    <2>4. Stream' = Stream
      BY <2>2 DEF Stream, Steps
    <2>5. (Ordered /\ Complete)'
      BY <1>0, <2>2, <2>4
    <2> QED BY <2>2, <2>3, <2>5 DEF StreamTypes, Past, Taken, Emptied, Scratched, Returned, Types
  <1>3. ASSUME CopyOut \/ Truncate \/ CopyBack PROVE StreamInv'
    BY <1>3, MovedStream
  <1>4. CASE Answer
    BY <1>4, AnsweredStream
  <1>5. CASE KilledReading
    <2>1. /\ pc' = "dead" /\ UNCHANGED <<rest, hStart, pbuf, hNext, hAnswered>>
      BY <1>5 DEF KilledReading, Kill, reading
    <2>2. Past'
      BY <1>5 DEF KilledReading, Kill, Wrong, Past
    <2>3. (Ordered /\ Complete)'
      BY <1>5, KilledStream
    <2> QED BY <2>1, <2>2, <2>3 DEF StreamTypes, Taken, Emptied, Scratched, Returned, Steps
  <1>6. CASE Restart
    <2>1. /\ pc = "dead" /\ pc' = "idle" /\ pbuf'.bytes = <<>> /\ hNow' = {}
          /\ UNCHANGED <<file, hNext, hAnswered, hEver>>
      BY <1>6 DEF Restart, disk, NoAnswer
    <2>2. Stream' = Stream
      BY <2>1 DEF Stream, Steps
    <2>3. (Ordered /\ Complete)'
      BY <1>0, <2>1, <2>2
    <2> QED BY <2>1, <2>3 DEF StreamTypes, Past, Taken, Emptied, Scratched, Returned, Steps
  <1>7. CASE OtherEmulator
    <2>1. /\ UNCHANGED <<file, pc, rest, hStart, pbuf, hNext, hAnswered>>
          /\ hEver \subseteq hEver' /\ hNow' \subseteq hNow \cup hEver'
          /\ (pc # "idle" => hNow \subseteq hNow')
          /\ (pc \in {"copied", "truncated"} => "crossed" \in hNow')
      BY <1>7 DEF OtherEmulator, reading, Wrong
    <2>2. Stream' = Stream
      BY <2>1 DEF Stream
    <2>3. (Ordered /\ Complete)'
      BY <1>0, <2>1, <2>2
    <2>4. (Past /\ Emptied /\ Scratched /\ Returned)'
      BY <2>1 DEF Past, Emptied, Scratched, Returned, Repeating, Lossy
    <2> QED BY <2>1, <2>3, <2>4 DEF StreamTypes, Taken
  <1>8. CASE UNCHANGED vars
    <2>1. UNCHANGED <<file, exists, tmpFile, pc, rest, hStart, pbuf, hNext, hAnswered, hNow, hEver>>
      BY <1>8 DEF vars, disk, reading, wrongs
    <2>2. Stream' = Stream
      BY <2>1 DEF Stream
    <2>3. (Ordered /\ Complete)'
      BY <1>0, <2>1, <2>2
    <2> QED BY <2>1, <2>3 DEF StreamTypes, Past, Taken, Emptied, Scratched, Returned
  <1> QED BY <1>1, <1>2, <1>3, <1>4, <1>5, <1>6, <1>7, <1>8 DEF Next

LEMMA AlwaysStream == Spec => [](IInv /\ StreamInv)
  BY InitIInv, NextIInv, InitStream, NextStream, PTL DEF Spec

\* Between commands the bytes answered and those in the data file are exactly the
\* bytes written, in order, unless one of the named things went wrong; that a
\* truncation or a removal failed, or that a kill left the data file as it was,
\* is not among them.
THEOREM NothingLost == Spec => []LossExplained
  <1>1. StreamInv => LossExplained
    BY DEF StreamInv, Complete, Stream, Steps, BytesBefore, LossExplained
  <1> QED BY <1>1, AlwaysStream, PTL

\* No byte is answered twice, out of order, or without having been written,
\* unless a stale scratch file was copied back, a data file left whole, or the
\* scratch file shared in the middle of a read: kills, restarts, short writes and
\* failing opens by themselves do not do it.
THEOREM AnsweredOnce == Spec => []NeverTwice
  <1>1. IInv /\ StreamInv => NeverTwice
    <2> SUFFICES ASSUME IInv, StreamInv, hEver \cap Repeating = {} PROVE
          LET out == IF pc = "idle" THEN hAnswered \o file ELSE hAnswered
          IN  InOrder(out, hNext)
      BY DEF NeverTwice, InOrder
    <2>1. InOrder(Stream, hNext)
      BY DEF StreamInv, Ordered
    <2>2. CASE pc = "idle"
      BY <2>1, <2>2 DEF Stream, Steps
    <2>3. ASSUME NEW h \in Seq(Int), InOrder(hAnswered \o h, hNext) PROVE InOrder(hAnswered, hNext)
      <3>1. hAnswered \in Seq(Int) /\ hNext \in Nat
        BY DEF IInv, StreamInv, StreamTypes, Types
      <3> DEFINE none == <<>>
      <3>2. /\ none \in Seq(Int) /\ hAnswered \o none = hAnswered
            /\ Len(none) + 0 <= Len(h) /\ \A i \in 1..Len(none) : none[i] = h[i + 0]
        BY <3>1
      <3> HIDE DEF none
      <3>3. InOrder(hAnswered \o none, hNext)
        BY <2>3, <3>1, <3>2, LessInOrder
      <3> QED BY <3>2, <3>3
    <2>4. hStart \in Seq(Int) /\ file \in Seq(Int)
      BY DEF IInv, Types
    <2>5. InOrder(hAnswered, hNext)
      BY <2>1, <2>3, <2>4 DEF Stream
    <2> QED BY <2>2, <2>5
  <1> QED BY <1>1, AlwaysStream, PTL
=============================================================================
