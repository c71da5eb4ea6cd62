---------------------------- MODULE LogPipeProofs ----------------------------
(***************************************************************************)
(* Proofs about LogPipe for every output, every log_buffer_size and every  *)
(* capacity of the pipe.                                                   *)
(*                                                                         *)
(* The ends of the lines are a recursive function.  That the recursion has *)
(* a solution, and that the ends increase, is proved by a least            *)
(* counterexample.  PipeInv says that until the end the log is a prefix of *)
(* the lines, and that the reader is past the end of its last line.        *)
(***************************************************************************)
EXTENDS LogPipe, WellFoundedInduction, TLAPS

\* A set of naturals that is not empty has a least element.
LEMMA Least ==
  ASSUME NEW S \in SUBSET Nat, S # {}
  PROVE  \E n \in S : \A m \in S : n <= m
<1>1. IsWellFoundedOn(OpToRel(<, Nat), Nat)
  BY NatLessThanWellFounded
<1>2. PICK n \in S : \A m \in S : <<m, n>> \notin OpToRel(<, Nat)
  BY <1>1, WFMin
<1>3. \A m \in S : ~(m < n)
  BY <1>2 DEF OpToRel
<1>4. ASSUME NEW m \in S PROVE n <= m
  <2>1. n \in Nat /\ m \in Nat /\ ~(m < n)
    BY <1>3
  <2>2. QED
    BY <2>1
<1>5. QED
  BY <1>4

\* f solves the recursion of Ends up to line n.
SolvesTo(f, s, n) == f = [k \in 0..n |-> IF k = 0 THEN 0 ELSE f[k - 1] + s[k] + 1]

\* The recursion has a solution up to every line.
LEMMA EndsExist ==
  ASSUME NEW s \in Seq(Nat), NEW n \in 0..Len(s)
  PROVE  \E f \in [0..n -> Nat] : SolvesTo(f, s, n)
<1> DEFINE Bad == {m \in 0..Len(s) : ~ \E f \in [0..m -> Nat] : SolvesTo(f, s, m)}
<1>1. SUFFICES ASSUME Bad # {} PROVE FALSE
  OBVIOUS
<1>2. Bad \in SUBSET Nat /\ Len(s) \in Nat
  OBVIOUS
<1>3. PICK m \in Bad : \A k \in Bad : m <= k
  BY <1>1, <1>2, Least
<1>4. CASE m = 0
  <2>1. [k \in 0..0 |-> 0] \in [0..0 -> Nat] /\ SolvesTo([k \in 0..0 |-> 0], s, 0)
    BY DEF SolvesTo
  <2>2. QED
    BY <1>3, <1>4, <2>1
<1>5. CASE m # 0
  <2>1. m \in 1..Len(s) /\ m - 1 \in 0..Len(s)
    BY <1>2, <1>5
  <2>2. m - 1 \notin Bad
    <3>1. ~(m <= m - 1)
      BY <2>1
    <3>2. QED
      BY <1>3, <3>1
  <2>3. PICK g \in [0..(m - 1) -> Nat] : SolvesTo(g, s, m - 1)
    BY <2>1, <2>2
  <2>4. s[m] \in Nat
    BY <2>1
  <2> DEFINE f == [k \in 0..m |-> IF k = m THEN g[m - 1] + s[m] + 1 ELSE g[k]]
  <2>5. f \in [0..m -> Nat]
    BY <2>1, <2>4
  <2>6. ASSUME NEW k \in 0..m
        PROVE  f[k] = IF k = 0 THEN 0 ELSE f[k - 1] + s[k] + 1
    <3>1. CASE k = m
      BY <2>1, <3>1
    <3>2. CASE k # m
      <4>1. k \in 0..(m - 1) /\ f[k] = g[k]
        BY <2>1, <3>2
      <4>2. g[k] = IF k = 0 THEN 0 ELSE g[k - 1] + s[k] + 1
        BY <2>3, <4>1 DEF SolvesTo
      <4>3. k # 0 => f[k - 1] = g[k - 1]
        BY <2>1, <3>2
      <4>4. QED
        BY <4>1, <4>2, <4>3
    <3>3. QED
      BY <3>1, <3>2
  <2>7. f = [k \in 0..m |-> f[k]]
    OBVIOUS
  <2> HIDE DEF f
  <2>8. SolvesTo(f, s, m)
    BY <2>6, <2>7 DEF SolvesTo
  <2>9. QED
    BY <1>3, <2>5, <2>8
<1>6. QED
  BY <1>4, <1>5

\* Ends is what its definition says.
LEMMA EndsAre ==
  ASSUME NEW s \in Seq(Nat)
  PROVE  /\ Ends(s) \in [0..Len(s) -> Nat]
         /\ Ends(s)[0] = 0
         /\ \A k \in 1..Len(s) : Ends(s)[k] = Ends(s)[k - 1] + s[k] + 1
<1>1. PICK f : SolvesTo(f, s, Len(s))
  BY EndsExist
<1>2. Ends(s) = [k \in 0..Len(s) |-> IF k = 0 THEN 0 ELSE Ends(s)[k - 1] + s[k] + 1]
  BY <1>1 DEF Ends, SolvesTo
<1> DEFINE e == Ends(s)
           Bad == {k \in 0..Len(s) : e[k] \notin Nat}
<1>3. ASSUME NEW k \in 0..Len(s) PROVE e[k] = IF k = 0 THEN 0 ELSE e[k - 1] + s[k] + 1
  BY <1>2, <1>3
<1> HIDE DEF e
<1>4. Bad = {}
  <2> SUFFICES ASSUME Bad # {} PROVE FALSE
    OBVIOUS
  <2>1. Bad \in SUBSET Nat /\ Len(s) \in Nat
    OBVIOUS
  <2>2. PICK m \in Bad : \A k \in Bad : m <= k
    BY <2>1, Least
  <2>3. m # 0
    BY <1>3
  <2>4. m \in 1..Len(s) /\ m - 1 \in 0..Len(s) /\ ~(m <= m - 1)
    BY <2>1, <2>3
  <2>5. e[m - 1] \in Nat /\ s[m] \in Nat
    BY <2>2, <2>4
  <2>6. QED
    BY <1>3, <2>4, <2>5
<1>5. \A k \in 0..Len(s) : e[k] \in Nat
  BY <1>4
<1>6. e = [k \in 0..Len(s) |-> e[k]]
  BY <1>2 DEF e
<1>7. e \in [0..Len(s) -> Nat]
  BY <1>5, <1>6
<1>8. e[0] = 0 /\ \A k \in 1..Len(s) : e[k] = e[k - 1] + s[k] + 1
  BY <1>3
<1>9. QED
  BY <1>7, <1>8 DEF e

\* A later line ends later.
LEMMA EndsIncrease ==
  ASSUME NEW s \in Seq(Nat), NEW j \in 0..Len(s), NEW k \in 0..Len(s), j <= k
  PROVE  Ends(s)[j] <= Ends(s)[k]
<1> DEFINE e == Ends(s)
           Bad == {m \in j..Len(s) : ~(e[j] <= e[m])}
<1>1. /\ e \in [0..Len(s) -> Nat] /\ Len(s) \in Nat
      /\ \A m \in 1..Len(s) : e[m] = e[m - 1] + s[m] + 1
  BY EndsAre
<1> HIDE DEF e
<1>2. Bad = {}
  <2> SUFFICES ASSUME Bad # {} PROVE FALSE
    OBVIOUS
  <2>1. Bad \in SUBSET Nat
    OBVIOUS
  <2>2. PICK m \in Bad : \A i \in Bad : m <= i
    BY <2>1, Least
  <2>3. /\ m \in j..Len(s) /\ ~(e[j] <= e[m])
        /\ j \in Nat /\ m \in 0..Len(s) /\ e[j] \in Nat /\ e[m] \in Nat
    <3>1. m \in j..Len(s) /\ ~(e[j] <= e[m])
      BY <2>2
    <3>2. j \in Nat /\ m \in 0..Len(s)
      BY <1>1, <3>1
    <3>3. QED
      BY <1>1, <3>1, <3>2
  <2>4. m # j
    BY <2>3
  <2>5. m \in 1..Len(s) /\ m - 1 \in j..Len(s) /\ ~(m <= m - 1)
    BY <1>1, <2>3, <2>4
  <2>6. e[j] <= e[m - 1]
    <3>1. m - 1 \notin Bad
      BY <2>2, <2>5
    <3>2. QED
      BY <2>5, <3>1
  <2>7. e[m] = e[m - 1] + s[m] + 1 /\ s[m] \in Nat /\ e[m - 1] \in Nat
    <3>1. m - 1 \in 0..Len(s)
      BY <1>1, <2>3, <2>5
    <3>2. e[m - 1] \in Nat
      BY <1>1, <3>1
    <3>3. s[m] \in Nat
      BY <2>5
    <3>4. QED
      BY <1>1, <2>5, <3>2, <3>3
  <2>8. QED
    BY <2>3, <2>6, <2>7
<1>3. k \in j..Len(s)
  BY <1>1
<1>4. e[j] <= e[k]
  BY <1>2, <1>3
<1>5. QED
  BY <1>4 DEF e

\* Until the end of the pipe the log is a prefix of the lines, and the reader is
\* past the last of them.
PrefixInv ==
  reader # "done" =>
    /\ \A k \in 1..Len(out) : out[k] = lines[k]
    /\ LineEnd[Len(out)] <= got

\* The pipe ends for the reader only after the function has exited.
EndInv ==
  /\ closed => exited
  /\ reader = "done" => exited

PipeInv == TypeOK /\ PrefixInv /\ EndInv /\ StopsOnlyAtLongLine /\ LogIsFaithful

\* The ends of the lines at hand.
LEMMA LineEnds ==
  ASSUME lines \in Outputs
  PROVE  /\ lines \in Seq(Nat) /\ Len(lines) \in Nat
         /\ LineEnd \in [0..Len(lines) -> Nat] /\ LineEnd[0] = 0
         /\ \A k \in 1..Len(lines) : LineEnd[k] = LineEnd[k - 1] + lines[k] + 1
         /\ \A j, k \in 0..Len(lines) : j <= k => LineEnd[j] <= LineEnd[k]
BY LogPipeAssumption, EndsAre, EndsIncrease DEF LineEnd

\* Where the reader is, in numbers: it holds the beginning of the next line, and
\* nothing when there is none.
LEMMA HeldBounds ==
  ASSUME TypeOK, PrefixInv, reader # "done"
  PROVE  /\ Held \in Nat /\ maxBufferSize \in Int
         /\ Len(out) = Len(lines) => Held = 0
         /\ Len(out) < Len(lines) =>
              /\ lines[Len(out) + 1] \in Nat
              /\ LineEnd[Len(out) + 1] = LineEnd[Len(out)] + lines[Len(out) + 1] + 1
              /\ ~HasLine => Held <= lines[Len(out) + 1]
<1>1. /\ lines \in Seq(Nat) /\ Len(lines) \in Nat /\ Len(out) \in Nat
      /\ Len(out) <= Len(lines) /\ got \in Nat /\ wrote \in Nat /\ got <= wrote
      /\ LineEnd \in [0..Len(lines) -> Nat] /\ wrote <= LineEnd[Len(lines)]
      /\ \A k \in 1..Len(lines) : LineEnd[k] = LineEnd[k - 1] + lines[k] + 1
      /\ maxBufferSize \in Int
  BY LineEnds, LogPipeAssumption DEF TypeOK
<1>2. LineEnd[Len(out)] \in Nat /\ LineEnd[Len(out)] <= got
  BY <1>1 DEF PrefixInv
<1>3. Held \in Nat /\ got = LineEnd[Len(out)] + Held
  BY <1>1, <1>2 DEF Held
<1>4. Len(out) = Len(lines) => Held = 0
  BY <1>1, <1>2, <1>3
<1>5. ASSUME Len(out) < Len(lines)
      PROVE  /\ lines[Len(out) + 1] \in Nat
             /\ LineEnd[Len(out) + 1] = LineEnd[Len(out)] + lines[Len(out) + 1] + 1
             /\ ~HasLine => Held <= lines[Len(out) + 1]
  <2>1. Len(out) + 1 \in 1..Len(lines) /\ (Len(out) + 1) - 1 = Len(out)
    BY <1>1, <1>5
  <2>2. /\ lines[Len(out) + 1] \in Nat
        /\ LineEnd[Len(out) + 1] = LineEnd[Len(out)] + lines[Len(out) + 1] + 1
    BY <1>1, <2>1
  <2>3. ~HasLine => ~(LineEnd[Len(out) + 1] <= got)
    BY <1>5 DEF HasLine
  <2>4. QED
    BY <1>2, <1>3, <2>2, <2>3
<1>6. QED
  BY <1>1, <1>3, <1>4, <1>5

\* The function and Wait: neither touches the log, the reader or what it has read.
LEMMA FunctionStep ==
  ASSUME PipeInv, Write \/ Exit \/ WaitCloses
  PROVE  PipeInv'
<1>1. UNCHANGED <<lines, maxBufferSize, got, out, reader>>
  BY DEF Write, Exit, WaitCloses
<1>2. UNCHANGED <<LineEnd, Buffered>>
  BY <1>1 DEF LineEnd, Buffered
<1>3. /\ LineEnd \in [0..Len(lines) -> Nat] /\ Len(lines) \in Nat
      /\ got \in Nat /\ wrote \in Nat /\ got <= wrote /\ PipeCap \in Nat
      /\ wrote - got <= PipeCap /\ wrote <= LineEnd[Len(lines)]
  BY LineEnds, LogPipeAssumption DEF PipeInv, TypeOK
<1>4. /\ wrote' \in 0..LineEnd[Len(lines)] /\ got \in 0..wrote'
      /\ wrote' - got <= PipeCap
  BY <1>3 DEF Write, Exit, WaitCloses
<1>5. exited' \in BOOLEAN /\ closed' \in BOOLEAN
  BY DEF PipeInv, TypeOK, Write, Exit, WaitCloses
<1>6. TypeOK'
  BY <1>1, <1>2, <1>4, <1>5 DEF PipeInv, TypeOK
<1>7. PrefixInv'
  BY <1>1, <1>2 DEF PipeInv, PrefixInv
<1>8. EndInv'
  BY <1>1 DEF PipeInv, EndInv, TypeOK, Write, Exit, WaitCloses
<1>9. StopsOnlyAtLongLine'
  BY <1>1, <1>2 DEF PipeInv, StopsOnlyAtLongLine
<1>10. LogIsFaithful'
  <2>1. exited => exited'
    BY DEF Write, Exit, WaitCloses
  <2>2. reader = "done" /\ ~closed' => ~closed /\ wrote' = wrote
    BY DEF PipeInv, EndInv, Write, Exit, WaitCloses
  <2>3. QED
    BY <1>1, <1>2, <2>1, <2>2 DEF PipeInv, LogIsFaithful
<1>11. QED
  BY <1>6, <1>7, <1>8, <1>9, <1>10 DEF PipeInv

\* While the reader runs, or has stopped early, a prefix of the lines is faithful.
LEMMA PrefixIsFaithful ==
  ASSUME PrefixInv, reader # "done"
  PROVE  LogIsFaithful
BY DEF PrefixInv, LogIsFaithful

\* A read takes bytes that are in the pipe.
LEMMA ReadStep ==
  ASSUME PipeInv, Read
  PROVE  PipeInv'
<1>1. UNCHANGED <<lines, maxBufferSize, wrote, out, reader, exited, closed>>
  BY DEF Read
<1>2. UNCHANGED <<LineEnd, Buffered>> /\ reader = "run"
  BY <1>1 DEF LineEnd, Buffered, Read
<1>3. PICK n \in 1..(wrote - got) : got' = got + n
  BY DEF Read
<1>4. wrote \in Nat /\ got \in Nat /\ PipeCap \in Nat /\ wrote - got <= PipeCap
  <2>1. LineEnd[Len(lines)] \in Nat
    BY LineEnds DEF PipeInv, TypeOK
  <2>2. QED
    BY <2>1, LogPipeAssumption DEF PipeInv, TypeOK
<1>5. got' \in 0..wrote /\ wrote - got' <= PipeCap /\ got <= got'
  BY <1>3, <1>4
<1>6. TypeOK'
  BY <1>1, <1>2, <1>5 DEF PipeInv, TypeOK
<1>7. PrefixInv'
  <2>1. LineEnd[Len(out)] \in Nat /\ LineEnd[Len(out)] <= got
    BY <1>2, LineEnds DEF PipeInv, PrefixInv, TypeOK
  <2>2. LineEnd[Len(out)] <= got'
    BY <1>4, <1>5, <2>1
  <2>3. QED
    BY <1>1, <1>2, <2>2 DEF PipeInv, PrefixInv
<1>8. EndInv' /\ StopsOnlyAtLongLine'
  BY <1>1, <1>2 DEF PipeInv, EndInv, StopsOnlyAtLongLine
<1>9. LogIsFaithful'
  BY <1>1, <1>2 DEF PipeInv, LogIsFaithful
<1>10. QED
  BY <1>6, <1>7, <1>8, <1>9 DEF PipeInv

\* A line that is logged is the next one, and the reader has read all of it.
LEMMA LogLineStep ==
  ASSUME PipeInv, LogLine
  PROVE  PipeInv'
<1>1. UNCHANGED <<lines, maxBufferSize, wrote, got, reader, exited, closed>>
  BY DEF LogLine
<1>2. UNCHANGED <<LineEnd, Buffered>> /\ reader = "run"
  BY <1>1 DEF LineEnd, Buffered, LogLine
<1>3. /\ out \in Seq(Nat) /\ Len(out) < Len(lines) /\ LineEnd[Len(out) + 1] <= got
      /\ lines \in Seq(Nat) /\ out' = Append(out, lines[Len(out) + 1])
  BY LineEnds DEF PipeInv, TypeOK, LogLine, HasLine
<1>4. lines[Len(out) + 1] \in Nat
  BY <1>3
<1>5. /\ out' \in Seq(Nat) /\ Len(out') = Len(out) + 1
      /\ \A k \in 1..Len(out) : out'[k] = out[k]
      /\ out'[Len(out) + 1] = lines[Len(out) + 1]
  BY <1>3, <1>4
<1>6. TypeOK'
  <2>1. Len(out') <= Len(lines)
    BY <1>3, <1>5
  <2>2. QED
    BY <1>1, <1>2, <1>5, <2>1 DEF PipeInv, TypeOK
<1>7. PrefixInv'
  <2>1. \A k \in 1..Len(out) : out[k] = lines[k]
    BY <1>2 DEF PipeInv, PrefixInv
  <2>2. \A k \in 1..(Len(out) + 1) : out'[k] = lines[k]
    BY <1>3, <1>5, <2>1
  <2>3. QED
    BY <1>1, <1>2, <1>3, <1>5, <2>2 DEF PrefixInv
<1>8. EndInv' /\ StopsOnlyAtLongLine'
  BY <1>1, <1>2 DEF PipeInv, EndInv, StopsOnlyAtLongLine
<1>9. reader' # "done"
  BY <1>1, <1>2
<1>10. LogIsFaithful'
  BY <1>7, <1>9 DEF PrefixInv, LogIsFaithful
<1>11. QED
  BY <1>6, <1>7, <1>8, <1>10 DEF PipeInv

\* The reader gives up at a line that, with its newline, is longer than the buffer.
LEMMA StopStep ==
  ASSUME PipeInv, StopTooLong
  PROVE  PipeInv'
<1>1. UNCHANGED <<lines, maxBufferSize, wrote, got, out, exited, closed>>
  BY DEF StopTooLong
<1>2. /\ UNCHANGED <<LineEnd, Buffered>> /\ reader = "run" /\ reader' = "tooLong"
      /\ ~HasLine /\ Room <= 0
  BY <1>1 DEF LineEnd, Buffered, StopTooLong
<1>3. TypeOK'
  BY <1>1, <1>2 DEF PipeInv, TypeOK
<1>4. PrefixInv'
  BY <1>1, <1>2 DEF PipeInv, PrefixInv
<1>5. EndInv'
  BY <1>1, <1>2 DEF PipeInv, EndInv
<1>6. StopsOnlyAtLongLine'
  <2>1. Buffered
    BY <1>2, LogPipeAssumption DEF Room
  <2>2. /\ Held \in Nat /\ maxBufferSize \in Int
        /\ Len(out) = Len(lines) => Held = 0
        /\ Len(out) < Len(lines) =>
             lines[Len(out) + 1] \in Nat /\ Held <= lines[Len(out) + 1]
    BY <1>2, HeldBounds DEF PipeInv
  <2>3. maxBufferSize <= Held /\ maxBufferSize >= 0
    BY <1>2, <2>1, <2>2 DEF Room, Buffered
  <2>4. CASE Len(out) = Len(lines)
    <3>1. maxBufferSize = 0
      BY <2>2, <2>3, <2>4
    <3>2. QED
      BY <1>1, <1>2, <2>1, <3>1 DEF StopsOnlyAtLongLine
  <2>5. CASE Len(out) < Len(lines)
    <3>1. lines[Len(out) + 1] + 1 > maxBufferSize
      BY <2>2, <2>3, <2>5
    <3>2. QED
      BY <1>1, <1>2, <2>1, <2>5, <3>1 DEF StopsOnlyAtLongLine
  <2>6. Len(out) = Len(lines) \/ Len(out) < Len(lines)
    BY LineEnds DEF PipeInv, TypeOK
  <2>7. QED
    BY <2>4, <2>5, <2>6
<1>7. reader' # "done"
  BY <1>2
<1>8. LogIsFaithful'
  BY <1>4, <1>7 DEF PrefixInv, LogIsFaithful
<1>9. QED
  BY <1>3, <1>4, <1>5, <1>6, <1>8 DEF PipeInv

\* At the end of the pipe a buffered reader logs what it holds of the next line.
LEMMA EndStep ==
  ASSUME PipeInv, EndOfPipe
  PROVE  PipeInv'
<1>1. UNCHANGED <<lines, maxBufferSize, wrote, got, exited, closed>>
  BY DEF EndOfPipe
<1>2. /\ UNCHANGED <<LineEnd, Buffered>> /\ reader = "run" /\ reader' = "done"
      /\ ~HasLine /\ AtEnd /\ out' = out \o Rest
  BY <1>1 DEF LineEnd, Buffered, EndOfPipe
<1>3. exited
  BY <1>2 DEF PipeInv, EndInv, AtEnd
<1>4. /\ out \in Seq(Nat) /\ lines \in Seq(Nat)
      /\ Len(out) \in Nat /\ Len(lines) \in Nat /\ Len(out) <= Len(lines)
      /\ got \in Nat /\ wrote \in Nat /\ LineEnd \in [0..Len(lines) -> Nat]
  <2>1. lines \in Seq(Nat) /\ Len(lines) \in Nat /\ LineEnd \in [0..Len(lines) -> Nat]
    BY LineEnds DEF PipeInv, TypeOK
  <2>2. LineEnd[Len(lines)] \in Nat
    BY <2>1
  <2>3. QED
    BY <2>1, <2>2 DEF PipeInv, TypeOK
<1>5. /\ Held \in Nat
      /\ Len(out) = Len(lines) => Held = 0
      /\ Len(out) < Len(lines) =>
           lines[Len(out) + 1] \in Nat /\ Held <= lines[Len(out) + 1]
  BY <1>2, HeldBounds DEF PipeInv
<1>6. \A k \in 1..Len(out) : out[k] = lines[k]
  BY <1>2 DEF PipeInv, PrefixInv
\* The log: unchanged, or longer by the rest that is held.
<1>7. \/ out' = out /\ ~(Buffered /\ Held > 0)
      \/ /\ Buffered /\ Held > 0 /\ Len(out) < Len(lines)
         /\ out' = Append(out, Held)
  <2>1. CASE Buffered /\ Held > 0
    <3>1. Len(out) < Len(lines)
      BY <1>4, <1>5, <2>1
    <3>2. Rest = <<Held>>
      BY <2>1 DEF Rest
    <3>3. out' = Append(out, Held)
      BY <1>2, <1>4, <1>5, <3>2
    <3>4. QED
      BY <2>1, <3>1, <3>3
  <2>2. CASE ~(Buffered /\ Held > 0)
    <3>1. Rest = <<>>
      BY <2>2 DEF Rest
    <3>2. out' = out
      BY <1>2, <1>4, <3>1
    <3>3. QED
      BY <2>2, <3>2
  <2>3. QED
    BY <2>1, <2>2
<1>8. /\ out' \in Seq(Nat) /\ Len(out') \in Nat
      /\ Len(out) <= Len(out') /\ Len(out') <= Len(lines)
      /\ Buffered /\ Held > 0 => Len(out') = Len(out) + 1
  <2>1. CASE out' = out /\ ~(Buffered /\ Held > 0)
    BY <1>4, <2>1
  <2>2. CASE Len(out) < Len(lines) /\ out' = Append(out, Held)
    <3>1. out' \in Seq(Nat) /\ Len(out') = Len(out) + 1
      BY <1>4, <1>5, <2>2
    <3>2. QED
      BY <1>4, <2>2, <3>1
  <2>3. QED
    BY <1>7, <2>1, <2>2
<1>9. TypeOK'
  BY <1>1, <1>2, <1>8 DEF PipeInv, TypeOK
<1>10. PrefixInv' /\ StopsOnlyAtLongLine'
  BY <1>2 DEF PrefixInv, StopsOnlyAtLongLine
<1>11. EndInv'
  BY <1>1, <1>3 DEF PipeInv, EndInv
<1>12. ASSUME NEW k \in 1..Len(out')
       PROVE  out'[k] = lines[k] \/ (k = Len(out') /\ out'[k] < lines[k])
  <2>1. CASE out' = out
    BY <1>6, <2>1
  <2>2. CASE Len(out) < Len(lines) /\ out' = Append(out, Held)
    <3>1. CASE k = Len(out) + 1
      <4>1. out'[k] = Held /\ k = Len(out')
        BY <1>4, <1>5, <2>2, <3>1
      <4>2. lines[k] \in Nat /\ Held <= lines[k]
        BY <1>5, <2>2, <3>1
      <4>3. QED
        BY <1>5, <4>1, <4>2
    <3>2. CASE k # Len(out) + 1
      <4>1. k \in 1..Len(out)
        BY <1>4, <1>5, <2>2, <3>2
      <4>2. out'[k] = out[k]
        BY <1>4, <1>5, <2>2, <4>1
      <4>3. QED
        BY <1>6, <4>1, <4>2
    <3>3. QED
      BY <3>1, <3>2
  <2>3. QED
    BY <1>7, <2>1, <2>2
<1>13. ASSUME ~closed, NEW k \in 1..Len(lines), LineEnd[k - 1] < wrote,
              Buffered \/ LineEnd[k] <= wrote
       PROVE  Len(out') >= k
  <2>1. wrote = got
    BY <1>2, <1>13 DEF AtEnd
  <2> SUFFICES ASSUME k > Len(out) PROVE Len(out') >= k
    BY <1>4, <1>8
  <2>2. Len(out) + 1 \in 1..Len(lines) /\ Len(out) < Len(lines)
    BY <1>4
  <2>3. LineEnd[Len(out) + 1] \in Nat /\ ~(LineEnd[Len(out) + 1] <= got)
    BY <1>2, <1>4, <2>2 DEF HasLine
  <2>4. CASE k = Len(out) + 1
    <3>1. k - 1 = Len(out) /\ LineEnd[Len(out)] \in Nat
      BY <1>4, <2>4
    <3>2. Held > 0
      BY <1>4, <1>13, <2>1, <3>1 DEF Held
    <3>3. Buffered
      BY <1>13, <2>1, <2>3, <2>4
    <3>4. QED
      BY <1>8, <2>4, <3>2, <3>3
  <2>5. CASE k # Len(out) + 1
    <3>1. k - 1 \in 0..Len(lines) /\ Len(out) + 1 \in 0..Len(lines) /\ Len(out) + 1 <= k - 1
      BY <1>4, <2>2, <2>5
    <3>2. LineEnd[Len(out) + 1] <= LineEnd[k - 1]
      BY <3>1, LineEnds DEF PipeInv, TypeOK
    <3>3. LineEnd[k - 1] \in Nat
      BY <1>4, <3>1
    <3>4. QED
      BY <1>4, <1>13, <2>1, <2>3, <3>2, <3>3
  <2>6. QED
    BY <2>4, <2>5
<1>14. LogIsFaithful'
  BY <1>1, <1>2, <1>3, <1>12, <1>13 DEF LogIsFaithful
<1>15. QED
  BY <1>9, <1>10, <1>11, <1>14 DEF PipeInv

LEMMA InitEstablishes ==
  ASSUME Init
  PROVE  PipeInv
<1>1. /\ lines \in Outputs /\ maxBufferSize \in BufferSizes
      /\ wrote = 0 /\ got = 0 /\ out = <<>> /\ reader = "run"
      /\ exited = FALSE /\ closed = FALSE
  BY DEF Init
<1>2. Len(out) = 0 /\ out \in Seq(Nat)
  BY <1>1
<1>3. LineEnd[Len(lines)] \in Nat /\ LineEnd[0] = 0 /\ Len(lines) \in Nat
  BY <1>1, LineEnds
<1>4. TypeOK
  <2>1. /\ wrote \in 0..LineEnd[Len(lines)] /\ got \in 0..wrote
        /\ Len(out) <= Len(lines)
    BY <1>1, <1>2, <1>3
  <2>2. wrote - got <= PipeCap
    BY <1>1, LogPipeAssumption
  <2>3. QED
    BY <1>1, <1>2, <2>1, <2>2 DEF TypeOK
<1>5. PrefixInv
  BY <1>1, <1>2, <1>3 DEF PrefixInv
<1>6. EndInv /\ StopsOnlyAtLongLine
  BY <1>1 DEF EndInv, StopsOnlyAtLongLine
<1>7. LogIsFaithful
  BY <1>1, <1>5, PrefixIsFaithful
<1>8. QED
  BY <1>4, <1>5, <1>6, <1>7 DEF PipeInv

LEMMA Step ==
  ASSUME PipeInv, [Next]_vars
  PROVE  PipeInv'
<1>1. CASE Write \/ Exit \/ WaitCloses
  BY <1>1, FunctionStep
<1>2. CASE Read
  BY <1>2, ReadStep
<1>3. CASE LogLine
  BY <1>3, LogLineStep
<1>4. CASE StopTooLong
  BY <1>4, StopStep
<1>5. CASE EndOfPipe
  BY <1>5, EndStep
<1>6. CASE UNCHANGED vars
  <2>1. UNCHANGED <<lines, maxBufferSize, wrote, got, out, reader, exited, closed>>
    BY <1>6 DEF vars
  <2>2. UNCHANGED <<LineEnd, Buffered>>
    BY <2>1 DEF LineEnd, Buffered
  <2>3. QED
    BY <2>1, <2>2
    DEF PipeInv, TypeOK, PrefixInv, EndInv, StopsOnlyAtLongLine, LogIsFaithful
<1>7. QED
  BY <1>1, <1>2, <1>3, <1>4, <1>5, <1>6 DEF Next, Reader

LEMMA Invariance == Spec => []PipeInv
<1>1. Init => PipeInv
  BY InitEstablishes
<1>2. PipeInv /\ [Next]_vars => PipeInv'
  BY Step
<1>3. QED
  BY <1>1, <1>2, PTL DEF Spec

\* Every variable of the pipe has its type, and the reader is never ahead of the
\* function (bindLoggingPipe).
THEOREM TypeCorrect == Spec => []TypeOK
<1>1. PipeInv => TypeOK
  BY DEF PipeInv
<1>2. QED
  BY <1>1, Invariance, PTL

\* Whatever the function writes and whenever it exits, the log is its lines in order,
\* only the last may be cut, and it has every line begun before the exit unless
\* Wait closed the pipe first (bindLoggingPipe, cmd.Wait).
THEOREM LogFaithful == Spec => []LogIsFaithful
<1>1. PipeInv => LogIsFaithful
  BY DEF PipeInv
<1>2. QED
  BY <1>1, Invariance, PTL

\* For every log_buffer_size, logging stops early only at a line that does not fit the
\* buffer with its newline (bufio.ErrTooLong in bindLoggingPipe).
THEOREM StopsAtLongLine == Spec => []StopsOnlyAtLongLine
<1>1. PipeInv => StopsOnlyAtLongLine
  BY DEF PipeInv
<1>2. QED
  BY <1>1, Invariance, PTL

=============================================================================
