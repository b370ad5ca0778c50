------------------------ MODULE FramePlacementProofs ------------------------
(***************************************************************************)
(* Frames of any number of objects of any sizes: consecutive objects       *)
(* follow one another, and so nothing in a frame lies on anything else.    *)
(***************************************************************************)
EXTENDS FramePlacement, FixpointProofs

\* A multiple of n at or above of, less than n beyond it.
LEMMA UpToIsAbove ==
  ASSUME NEW of \in Nat, NEW n \in {1, 2, 4, 8, 16}
  PROVE  /\ UpTo(of, n) \in Nat
         /\ of <= UpTo(of, n)
         /\ UpTo(of, n) % n = 0
<1>1. CASE n = 1
  BY <1>1 DEF UpTo
<1>2. CASE n = 2
  BY <1>2 DEF UpTo
<1>4. CASE n = 4
  BY <1>4 DEF UpTo
<1>8. CASE n = 8
  BY <1>8 DEF UpTo
<1>16. CASE n = 16
  BY <1>16 DEF UpTo
<1> QED BY <1>1, <1>2, <1>4, <1>8, <1>16

LEMMA UpAlignToIsAbove ==
  ASSUME NEW of \in Nat, NEW s \in Nat \ {0}
  PROVE  /\ UpAlignTo(of, s) \in Nat
         /\ of <= UpAlignTo(of, s)
         /\ s \in {4, 8} => UpAlignTo(of, s) % s = 0
<1> DEFINE n == IF s > 8 THEN 16 ELSE IF s > 4 THEN 8 ELSE IF s > 2 THEN 4 ELSE s
<1>1. n \in {1, 2, 4, 8, 16} /\ (s \in {4, 8} => n = s)
  OBVIOUS
<1>2. UpAlignTo(of, s) = UpTo(of, n)
  BY DEF UpAlignTo
<1> HIDE DEF n
<1>3. UpTo(of, n) \in Nat /\ of <= UpTo(of, n) /\ UpTo(of, n) % n = 0
  BY <1>1, UpToIsAbove
<1> DEFINE u == UpTo(of, n)
<1> HIDE DEF u
<1>4. s \in {4, 8} => u % s = 0
  BY <1>1, <1>3 DEF u
<1> QED BY <1>2, <1>3, <1>4 DEF u

-----------------------------------------------------------------------------
(* Consecutive objects. *)
Size == Nat \ {0}
Follow(e, s, from, n) ==
    e = [k \in 0..n |-> IF k = 0 THEN from ELSE UpAlignTo(e[k - 1], s[k]) + s[k]]

\* The recursive function Ends() describes exists, for any number of objects.
LEMMA SomeEnds ==
  ASSUME NEW s \in Seq(Size), NEW from \in Nat
  PROVE  \E e \in [0..Len(s) -> Nat] : Follow(e, s, from, Len(s))
<1> DEFINE Built(n) == \E e \in [0..n -> Nat] : Follow(e, s, from, n)
           S == {n \in Nat : n \in 0..Len(s) => Built(n)}
<1>1. 0 \in S
  <2>1. [k \in 0..0 |-> from] \in [0..0 -> Nat] /\ Follow([k \in 0..0 |-> from], s, from, 0)
    BY DEF Follow
  <2> QED BY <2>1
<1>2. ASSUME NEW n \in S PROVE n + 1 \in S
  <2> HIDE DEF Built
  <2> SUFFICES ASSUME n + 1 \in 0..Len(s) PROVE Built(n + 1)
    OBVIOUS
  <2>1. n \in Nat /\ n \in 0..Len(s) /\ n + 1 \in 1..Len(s) /\ Len(s) \in Nat
    OBVIOUS
  <2>2. PICK e \in [0..n -> Nat] : Follow(e, s, from, n)
    BY <2>1 DEF Built
  <2> DEFINE next == UpAlignTo(e[n], s[n + 1]) + s[n + 1]
             g == [k \in 0..(n + 1) |-> IF k = n + 1 THEN next ELSE e[k]]
  <2>3. s[n + 1] \in Size /\ e[n] \in Nat
    BY <2>1
  <2>4. next \in Nat
    <3>1. UpAlignTo(e[n], s[n + 1]) \in Nat
      BY <2>3, UpAlignToIsAbove DEF Size
    <3> QED BY <2>3, <3>1 DEF Size
  <2> HIDE DEF next
  <2>5. g \in [0..(n + 1) -> Nat]
    BY <2>1, <2>4
  <2>6. \A k \in 0..(n + 1) : g[k] = IF k = 0 THEN from ELSE UpAlignTo(g[k - 1], s[k]) + s[k]
    <3> TAKE k \in 0..(n + 1)
    <3>1. CASE k = 0
      BY <3>1, <2>1, <2>2 DEF Follow
    <3>2. CASE k = n + 1
      <4>1. k # 0 /\ k - 1 = n /\ n \in 0..(n + 1) /\ n # n + 1
        BY <3>2, <2>1
      <4>2. g[k - 1] = e[n] /\ g[k] = next
        BY <4>1, <3>2
      <4> QED BY <4>1, <4>2, <3>2 DEF next
    <3>3. CASE k # 0 /\ k # n + 1
      <4>1. k \in 0..n /\ k - 1 \in 0..n /\ k - 1 \in 0..(n + 1) /\ k - 1 # n + 1
        BY <3>3, <2>1
      <4>2. e[k] = UpAlignTo(e[k - 1], s[k]) + s[k]
        BY <4>1, <3>3, <2>2 DEF Follow
      <4>3. g[k] = e[k] /\ g[k - 1] = e[k - 1]
        BY <4>1, <3>3
      <4> QED BY <4>2, <4>3, <3>3
    <3> QED BY <3>1, <3>2, <3>3
  <2> HIDE DEF g
  <2>7. Follow(g, s, from, n + 1)
    BY <2>5, <2>6 DEF Follow
  <2> QED BY <2>5, <2>7 DEF Built
<1>3. S = Nat
  <2> HIDE DEF S
  <2>1. S \in SUBSET Nat
    BY DEF S
  <2> QED BY <2>1, <1>1, <1>2, SetInduction
<1>4. Len(s) \in S /\ Len(s) \in 0..Len(s)
  BY <1>3
<1> QED BY <1>4

LEMMA EndsFollow ==
  ASSUME NEW s \in Seq(Size), NEW from \in Nat
  PROVE  /\ Ends(s, from) \in [0..Len(s) -> Nat]
         /\ Follow(Ends(s, from), s, from, Len(s))
<1>1. Ends(s, from) = CHOOSE e : Follow(e, s, from, Len(s))
  BY DEF Ends, Follow
<1>2. \E e : Follow(e, s, from, Len(s))
  BY SomeEnds
<1>3. Follow(Ends(s, from), s, from, Len(s))
  BY <1>1, <1>2, Zenon
<1> DEFINE e == Ends(s, from)
           S == {k \in Nat : k \in 0..Len(s) => e[k] \in Nat}
<1> HIDE DEF e
<1>4. e = [k \in 0..Len(s) |-> IF k = 0 THEN from ELSE UpAlignTo(e[k - 1], s[k]) + s[k]]
  BY <1>3 DEF Follow, e
<1>5. 0 \in S
  BY <1>4
<1>6. ASSUME NEW k \in S PROVE k + 1 \in S
  <2> SUFFICES ASSUME k + 1 \in 0..Len(s) PROVE e[k + 1] \in Nat
    OBVIOUS
  <2>1. k \in 0..Len(s) /\ k + 1 \in 1..Len(s) /\ k + 1 # 0 /\ (k + 1) - 1 = k
    OBVIOUS
  <2>2. e[k] \in Nat /\ s[k + 1] \in Size
    BY <2>1
  <2>3. e[k + 1] = UpAlignTo(e[k], s[k + 1]) + s[k + 1]
    BY <2>1, <1>4
  <2>4. UpAlignTo(e[k], s[k + 1]) \in Nat
    BY <2>2, UpAlignToIsAbove DEF Size
  <2> QED BY <2>2, <2>3, <2>4 DEF Size
<1>7. S = Nat
  <2> HIDE DEF S
  <2>1. S \in SUBSET Nat
    BY DEF S
  <2> QED BY <2>1, <1>5, <1>6, SetInduction
<1>8. \A k \in 0..Len(s) : e[k] \in Nat
  BY <1>7
<1> QED BY <1>3, <1>4, <1>8 DEF e

\* Ends rise, and an object starts at or above the end of the one before.
LEMMA EndsRise ==
  ASSUME NEW s \in Seq(Size), NEW from \in Nat
  PROVE  LET e == Ends(s, from)
         IN  /\ e \in [0..Len(s) -> Nat] /\ e[0] = from
             /\ \A k \in 1..Len(s) : /\ e[k - 1] <= e[k] - s[k]
                                     /\ s[k] \in {4, 8} => (e[k] - s[k]) % s[k] = 0
             /\ \A j, k \in 0..Len(s) : j <= k => e[j] <= e[k]
<1> DEFINE e == Ends(s, from)
<1>1. /\ e \in [0..Len(s) -> Nat]
      /\ e = [k \in 0..Len(s) |-> IF k = 0 THEN from ELSE UpAlignTo(e[k - 1], s[k]) + s[k]]
  BY EndsFollow DEF Follow
<1> HIDE DEF e
<1>2. e[0] = from
  BY <1>1
<1>3. ASSUME NEW k \in 1..Len(s)
      PROVE  e[k - 1] <= e[k] - s[k] /\ (s[k] \in {4, 8} => (e[k] - s[k]) % s[k] = 0) /\ e[k - 1] <= e[k]
  <2>1. k \in 0..Len(s) /\ k # 0 /\ k - 1 \in 0..Len(s) /\ s[k] \in Size
    OBVIOUS
  <2>2. e[k] = UpAlignTo(e[k - 1], s[k]) + s[k] /\ e[k - 1] \in Nat
    BY <2>1, <1>1
  <2>3. /\ UpAlignTo(e[k - 1], s[k]) \in Nat /\ e[k - 1] <= UpAlignTo(e[k - 1], s[k])
        /\ s[k] \in {4, 8} => UpAlignTo(e[k - 1], s[k]) % s[k] = 0
    BY <2>1, <2>2, UpAlignToIsAbove DEF Size
  <2>4. e[k] - s[k] = UpAlignTo(e[k - 1], s[k])
    BY <2>1, <2>2, <2>3 DEF Size
  <2> QED BY <2>1, <2>2, <2>3, <2>4 DEF Size
<1>4. ASSUME NEW j \in 0..Len(s), NEW k \in 0..Len(s), j <= k PROVE e[j] <= e[k]
  <2> DEFINE S == {n \in Nat : j <= n /\ n <= Len(s) => e[j] <= e[n]}
  <2>1. 0 \in S
    BY <1>1
  <2>2. ASSUME NEW n \in S PROVE n + 1 \in S
    <3> SUFFICES ASSUME j <= n + 1, n + 1 <= Len(s) PROVE e[j] <= e[n + 1]
      OBVIOUS
    <3>1. CASE j = n + 1
      BY <3>1, <1>1
    <3>2. CASE j # n + 1
      <4>1. /\ j <= n /\ n <= Len(s) /\ n + 1 \in 1..Len(s) /\ (n + 1) - 1 = n
            /\ n \in 0..Len(s) /\ n + 1 \in 0..Len(s)
        BY <3>2
      <4>2. e[j] <= e[n] /\ e[n] <= e[n + 1]
        BY <4>1, <1>3
      <4>3. e[j] \in Nat /\ e[n] \in Nat /\ e[n + 1] \in Nat
        BY <4>1, <1>1
      <4> QED BY <4>2, <4>3
    <3> QED BY <3>1, <3>2
  <2>3. S = Nat
    <3> HIDE DEF S
    <3>1. S \in SUBSET Nat
      BY DEF S
    <3> QED BY <3>1, <2>1, <2>2, SetInduction
  <2>4. k \in S /\ k <= Len(s)
    BY <2>3
  <2> QED BY <2>4, <1>4
<1> QED BY <1>1, <1>2, <1>3, <1>4 DEF e

\* The objects of a sequence lie between from and the last end, each above the
\* ones before it.
Row(s, b, from, to) ==
    /\ b \in [1..Len(s) -> Nat] /\ to \in Nat /\ from <= to
    /\ \A k \in 1..Len(s) : /\ from <= b[k] /\ b[k] + s[k] <= to
                            /\ s[k] \in {4, 8} => b[k] % s[k] = 0
    /\ \A j, k \in 1..Len(s) : j < k => b[j] + s[j] <= b[k]

LEMMA PlacedInARow ==
  ASSUME NEW s \in Seq(Size), NEW from \in Nat
  PROVE  Row(s, Starts(s, Ends(s, from)), from, Ends(s, from)[Len(s)])
<1> DEFINE e == Ends(s, from)
           b == Starts(s, e)
<1>1. /\ e \in [0..Len(s) -> Nat] /\ e[0] = from /\ Len(s) \in Nat
      /\ \A k \in 1..Len(s) : /\ e[k - 1] <= e[k] - s[k]
                              /\ s[k] \in {4, 8} => (e[k] - s[k]) % s[k] = 0
      /\ \A j, k \in 0..Len(s) : j <= k => e[j] <= e[k]
  BY EndsRise
<1> HIDE DEF e
<1>2. b = [k \in 1..Len(s) |-> e[k] - s[k]]
  BY DEF Starts
<1> HIDE DEF b
<1>3. from <= e[Len(s)] /\ e[Len(s)] \in Nat
  BY <1>1
<1>4. ASSUME NEW k \in 1..Len(s)
      PROVE  /\ b[k] \in Nat /\ from <= b[k] /\ b[k] + s[k] <= e[Len(s)] /\ e[k - 1] <= b[k]
             /\ b[k] + s[k] = e[k]
             /\ s[k] \in {4, 8} => b[k] % s[k] = 0
  <2>1. k \in 0..Len(s) /\ k - 1 \in 0..Len(s) /\ 0 <= k - 1 /\ 0 \in 0..Len(s) /\ s[k] \in Nat
    BY <1>1 DEF Size
  <2>2. e[k] \in Nat /\ e[k - 1] \in Nat /\ from <= e[k - 1] /\ e[k] <= e[Len(s)]
    <3>1. e[k] \in Nat /\ e[k - 1] \in Nat
      BY <2>1, <1>1
    <3>2. \A i, j \in 0..Len(s) : i <= j => e[i] <= e[j]
      BY <1>1
    <3>3. e[0] <= e[k - 1]
      BY <2>1, <3>2
    <3>4. Len(s) \in 0..Len(s) /\ k <= Len(s)
      BY <1>1
    <3>5. e[k] <= e[Len(s)]
      BY <2>1, <3>2, <3>4
    <3> QED BY <3>1, <3>3, <3>5, <1>1
  <2>3. b[k] = e[k] - s[k]
    BY <1>2
  <2> QED BY <2>1, <2>2, <2>3, <1>1
<1>5. ASSUME NEW j \in 1..Len(s), NEW k \in 1..Len(s), j < k PROVE b[j] + s[j] <= b[k]
  <2>1. j \in 0..Len(s) /\ k - 1 \in 0..Len(s) /\ j <= k - 1
    BY <1>5, <1>1
  <2>2. e[j] <= e[k - 1] /\ e[k - 1] \in Nat
    BY <2>1, <1>1
  <2>3. b[j] + s[j] = e[j] /\ e[k - 1] <= b[k] /\ b[k] \in Nat /\ e[j] \in Nat
    BY <1>4, <2>1, <1>1
  <2> QED BY <2>2, <2>3
<1>6. b \in [1..Len(s) -> Nat]
  BY <1>2, <1>4
<1>7. Row(s, b, from, e[Len(s)])
  BY <1>3, <1>4, <1>5, <1>6 DEF Row
<1> QED BY <1>7 DEF b, e

-----------------------------------------------------------------------------
(* Frames. *)
LEMMA BackwardsReverses ==
  ASSUME NEW T, NEW s \in Seq(T)
  PROVE  /\ Backwards(s) \in Seq(T) /\ Len(Backwards(s)) = Len(s)
         /\ \A k \in 1..Len(s) : /\ Len(s) + 1 - k \in 1..Len(s)
                                 /\ Backwards(s)[k] = s[Len(s) + 1 - k]
<1>1. Len(s) \in Nat /\ \A k \in 1..Len(s) : Len(s) + 1 - k \in 1..Len(s)
  OBVIOUS
<1>2. \A k \in 1..Len(s) : s[Len(s) + 1 - k] \in T
  BY <1>1
<1> QED BY <1>1, <1>2 DEF Backwards

\* What a frame is made of: slots to the byte top, saved registers from the
\* byte first, arguments to the byte end.
Parts(stack, regs, fix, frame, top, first, end) ==
    /\ Row(stack, frame.offset, 0, top)
    /\ Len(frame.saved) = Len(regs) /\ Len(regs) \in Nat
    /\ \A k \in 1..Len(regs) : frame.saved[k].at = first + 8 * (k - 1)
    /\ first \in Nat /\ first % 8 = 0 /\ top <= first
    /\ frame.move \in Nat /\ top <= frame.move
    /\ Len(regs) # 0 => first + 8 * Len(regs) <= frame.move
    /\ \E b : /\ Row(Backwards(fix), b, frame.move, end)
              /\ frame.fixOffset = [k \in 1..Len(fix) |-> b[Len(fix) + 1 - k]]
    /\ frame.fixMove \in Nat /\ end <= frame.move + frame.fixMove

LEMMA FrameHasParts ==
  ASSUME NEW Register, NEW stack \in Seq(Size), NEW regs \in Seq(Register), NEW fix \in Seq({4, 8})
  PROVE  \E top, first, end : Parts(stack, regs, fix, Frame(stack, regs, fix), top, first, end)
<1> DEFINE slots == Ends(stack, 0)
           top == slots[Len(stack)]
           first == FirstSave(top)
           over == IF regs = <<>> THEN top ELSE first + 8 * Len(regs)
           move == UpTo(over, 16)
           args == Ends(Backwards(fix), move)
           end == args[Len(fix)]
           frame == Frame(stack, regs, fix)
<1>1. /\ frame.offset = Starts(stack, slots)
      /\ frame.saved = [k \in 1..Len(regs) |-> [reg |-> regs[k], at |-> first + 8 * (k - 1)]]
      /\ frame.move = move
      /\ frame.fixOffset = Backwards(Starts(Backwards(fix), args))
      /\ frame.fixMove = UpTo(end, 16) - move
  BY DEF Frame
<1>2. Row(stack, frame.offset, 0, top)
  BY <1>1, PlacedInARow
<1> HIDE DEF slots, frame
<1>3. top \in Nat
  BY <1>2 DEF Row
<1> HIDE DEF top
<1>4. first \in Nat /\ first % 8 = 0 /\ top <= first
  BY <1>3, UpToIsAbove DEF FirstSave
<1> HIDE DEF first
<1>5. Len(regs) \in Nat /\ (regs = <<>> <=> Len(regs) = 0)
  OBVIOUS
<1>6. over \in Nat /\ top <= over /\ (Len(regs) # 0 => first + 8 * Len(regs) <= over)
  BY <1>3, <1>4, <1>5
<1> HIDE DEF over
<1>7. move \in Nat /\ over <= move
  BY <1>6, UpToIsAbove
<1> HIDE DEF move
<1>8. top <= move /\ (Len(regs) # 0 => first + 8 * Len(regs) <= move)
  BY <1>3, <1>4, <1>5, <1>6, <1>7
<1>9. Len(frame.saved) = Len(regs) /\ \A k \in 1..Len(regs) : frame.saved[k].at = first + 8 * (k - 1)
  BY <1>1, <1>5
<1>10. Backwards(fix) \in Seq(Size) /\ Len(Backwards(fix)) = Len(fix) /\ Len(fix) \in Nat
  <2>1. Backwards(fix) \in Seq({4, 8}) /\ Len(Backwards(fix)) = Len(fix)
    BY BackwardsReverses
  <2> QED BY <2>1 DEF Size
<1> DEFINE b == Starts(Backwards(fix), args)
<1>11. Row(Backwards(fix), b, move, end)
  BY <1>7, <1>10, PlacedInARow
<1>12. end \in Nat /\ move <= end /\ end <= UpTo(end, 16) /\ UpTo(end, 16) \in Nat
  BY <1>11, UpToIsAbove DEF Row
<1>13. b \in [1..Len(fix) -> Nat]
  BY <1>10, <1>11 DEF Row
<1> HIDE DEF b, args
<1>14. Len(b) = Len(fix)
  BY <1>13, <1>10
<1>15. frame.fixOffset = [k \in 1..Len(fix) |-> b[Len(fix) + 1 - k]]
  BY <1>1, <1>14 DEF Backwards, b
<1> HIDE DEF end
<1>16. frame.fixMove \in Nat /\ end <= frame.move + frame.fixMove
  BY <1>1, <1>7, <1>12
<1>17. Parts(stack, regs, fix, frame, top, first, end)
  BY <1>1, <1>2, <1>4, <1>5, <1>7, <1>8, <1>9, <1>11, <1>15, <1>16 DEF Parts
<1> QED BY <1>17 DEF frame

\* The frame of a function: no slot, saved register or argument on the stack
\* lies on another, and each is on its side of the move of SP, whatever the
\* number and the sizes of the objects.  (An argument on the stack is a number
\* or an address: 4 or 8 bytes.)
THEOREM NothingOverlaps ==
  ASSUME NEW Register, NEW regs \in Seq(Register),
         NEW stack \in Seq(Nat \ {0}), NEW fix \in Seq({4, 8})
  PROVE  FrameApart(stack, fix, Frame(stack, regs, fix))
<1> DEFINE frame == Frame(stack, regs, fix)
           own == Slots(stack) \cup Saves(frame)
           all == own \cup Incoming(fix)
           low(o) == Bottom(frame, o)
           high(o) == Top(stack, fix, frame, o)
<1>1. PICK top, first, end : Parts(stack, regs, fix, frame, top, first, end)
  BY FrameHasParts DEF Size
<1> HIDE DEF frame
<1>2. /\ \A j \in 1..Len(stack) : /\ low(<<"slot", j>>) = frame.offset[j]
                                  /\ high(<<"slot", j>>) = frame.offset[j] + stack[j]
      /\ \A j \in 1..Len(frame.saved) : /\ low(<<"save", j>>) = frame.saved[j].at
                                        /\ high(<<"save", j>>) = frame.saved[j].at + 8
      /\ \A j \in 1..Len(fix) : /\ low(<<"argument", j>>) = frame.fixOffset[j]
                                /\ high(<<"argument", j>>) = frame.fixOffset[j] + fix[j]
  BY DEF low, high, Bottom, Top
<1> HIDE DEF low, high
<1>3. PICK b : /\ Row(Backwards(fix), b, frame.move, end)
               /\ frame.fixOffset = [k \in 1..Len(fix) |-> b[Len(fix) + 1 - k]]
  BY <1>1 DEF Parts
<1>4. ASSUME NEW j \in 1..Len(stack)
      PROVE  /\ low(<<"slot", j>>) \in Nat /\ high(<<"slot", j>>) \in Nat
             /\ high(<<"slot", j>>) <= top
             /\ \A k \in 1..Len(stack) : j < k => high(<<"slot", j>>) <= low(<<"slot", k>>)
  <2>1. low(<<"slot", j>>) = frame.offset[j] /\ high(<<"slot", j>>) = frame.offset[j] + stack[j]
    BY <1>2
  <2>2. \A k \in 1..Len(stack) : low(<<"slot", k>>) = frame.offset[k]
    BY <1>2
  <2>3. stack[j] \in Nat
    OBVIOUS
  <2>4. /\ frame.offset[j] \in Nat /\ frame.offset[j] + stack[j] <= top
        /\ \A k \in 1..Len(stack) : j < k => frame.offset[j] + stack[j] <= frame.offset[k]
    BY <1>1 DEF Parts, Row
  <2>5. frame.offset[j] + stack[j] \in Nat
    BY <2>3, <2>4
  <2> QED BY <2>1, <2>2, <2>4, <2>5
<1>5. ASSUME NEW j \in 1..Len(frame.saved)
      PROVE  /\ low(<<"save", j>>) \in Nat /\ high(<<"save", j>>) = low(<<"save", j>>) + 8
             /\ top <= low(<<"save", j>>) /\ high(<<"save", j>>) <= frame.move
             /\ \A k \in 1..Len(frame.saved) : j < k => high(<<"save", j>>) <= low(<<"save", k>>)
             /\ low(<<"save", j>>) % 8 = 0
  <2>1. \A k \in 1..Len(frame.saved) : /\ low(<<"save", k>>) = frame.saved[k].at
                                       /\ high(<<"save", k>>) = frame.saved[k].at + 8
    BY <1>2
  <2>2. \A k \in 1..Len(frame.saved) : frame.saved[k].at = first + 8 * (k - 1)
    BY <1>1 DEF Parts
  <2>3. /\ first \in Nat /\ first % 8 = 0 /\ Len(frame.saved) \in Nat /\ top \in Nat /\ top <= first
        /\ first + 8 * Len(frame.saved) <= frame.move /\ frame.move \in Nat
    BY <1>1 DEF Parts, Row
  <2>4. low(<<"save", j>>) = first + 8 * (j - 1) /\ high(<<"save", j>>) = first + 8 * (j - 1) + 8
    BY <2>1, <2>2
  <2>5. (first + 8 * (j - 1)) % 8 = 0
    BY <2>3
  <2>6. ASSUME NEW k \in 1..Len(frame.saved), j < k
        PROVE  first + 8 * (j - 1) + 8 <= low(<<"save", k>>)
    <3>1. low(<<"save", k>>) = first + 8 * (k - 1)
      BY <2>1, <2>2
    <3>2. 8 * (j - 1) + 8 <= 8 * (k - 1)
      BY <2>3, <2>6
    <3> QED BY <2>3, <3>1, <3>2
  <2>7. first + 8 * (j - 1) \in Nat /\ top <= first + 8 * (j - 1)
    BY <2>3
  <2>8. first + 8 * (j - 1) + 8 <= frame.move
    <3>1. 8 * (j - 1) + 8 <= 8 * Len(frame.saved)
      BY <2>3
    <3> QED BY <2>3, <3>1
  <2> QED BY <2>4, <2>5, <2>6, <2>7, <2>8
<1>6. ASSUME NEW j \in 1..Len(fix)
      PROVE  /\ low(<<"argument", j>>) \in Nat /\ high(<<"argument", j>>) = low(<<"argument", j>>) + fix[j]
             /\ fix[j] \in {4, 8}
             /\ frame.move <= low(<<"argument", j>>)
             /\ high(<<"argument", j>>) <= frame.move + frame.fixMove
             /\ \A k \in 1..Len(fix) : j < k => high(<<"argument", k>>) <= low(<<"argument", j>>)
             /\ low(<<"argument", j>>) % fix[j] = 0
  <2>1. \A k \in 1..Len(fix) : /\ low(<<"argument", k>>) = frame.fixOffset[k]
                               /\ high(<<"argument", k>>) = frame.fixOffset[k] + fix[k]
    BY <1>2
  <2> DEFINE at(k) == Len(fix) + 1 - k
  <2>2. \A k \in 1..Len(fix) : /\ at(k) \in 1..Len(fix) /\ Len(fix) + 1 - at(k) = k
                               /\ frame.fixOffset[k] = b[at(k)]
    BY <1>3
  <2>3. \A k \in 1..Len(fix) : Backwards(fix)[at(k)] = fix[k] /\ fix[k] \in {4, 8}
    BY <2>2, BackwardsReverses
  <2>4. /\ Len(Backwards(fix)) = Len(fix) /\ frame.move \in Nat /\ end \in Nat
        /\ frame.fixMove \in Nat /\ end <= frame.move + frame.fixMove
    BY <1>1, <1>3, BackwardsReverses DEF Parts, Row
  <2>5. /\ b[at(j)] \in Nat /\ frame.move <= b[at(j)] /\ b[at(j)] + fix[j] <= end
        /\ b[at(j)] % fix[j] = 0
    <3>1. at(j) \in 1..Len(Backwards(fix)) /\ Backwards(fix)[at(j)] = fix[j] /\ fix[j] \in {4, 8}
      BY <2>2, <2>3, <2>4
    <3> HIDE DEF at
    <3>2. /\ b[at(j)] \in Nat /\ frame.move <= b[at(j)]
          /\ b[at(j)] + Backwards(fix)[at(j)] <= end
          /\ Backwards(fix)[at(j)] \in {4, 8} => b[at(j)] % Backwards(fix)[at(j)] = 0
      BY <1>3, <3>1 DEF Row
    <3> QED BY <3>1, <3>2
  <2>6. ASSUME NEW k \in 1..Len(fix), j < k PROVE b[at(k)] + fix[k] <= b[at(j)]
    <3>1. at(k) \in 1..Len(Backwards(fix)) /\ at(j) \in 1..Len(Backwards(fix))
      BY <2>2, <2>4
    <3>2. at(k) < at(j)
      BY <2>6
    <3> HIDE DEF at
    <3>3. b[at(k)] + Backwards(fix)[at(k)] <= b[at(j)]
      BY <1>3, <3>1, <3>2 DEF Row
    <3> QED BY <2>3, <3>3
  <2> HIDE DEF at
  <2>7. /\ low(<<"argument", j>>) = b[at(j)]
        /\ high(<<"argument", j>>) = b[at(j)] + fix[j]
        /\ \A k \in 1..Len(fix) : high(<<"argument", k>>) = b[at(k)] + fix[k]
    BY <2>1, <2>2
  <2>8. b[at(j)] + fix[j] <= frame.move + frame.fixMove
    <3> DEFINE low0 == b[at(j)]
               size == fix[j]
               last == frame.move + frame.fixMove
    <3>0. last \in Nat
      BY <2>4
    <3>1. size \in Nat /\ low0 \in Nat /\ end \in Nat
      BY <2>3, <2>4, <2>5
    <3>2. low0 + size <= end /\ end <= last
      BY <2>4, <2>5
    <3> HIDE DEF low0, size, last
    <3>3. low0 + size <= last
      BY <3>0, <3>1, <3>2
    <3> QED BY <3>3 DEF low0, size, last
  <2> QED BY <2>3, <2>5, <2>6, <2>7, <2>8
<1>7. top \in Nat /\ frame.move \in Nat /\ top <= frame.move
  BY <1>1 DEF Parts, Row
<1>8. /\ Slots(stack) = {<<"slot", j>> : j \in 1..Len(stack)}
      /\ Saves(frame) = {<<"save", j>> : j \in 1..Len(frame.saved)}
      /\ Incoming(fix) = {<<"argument", j>> : j \in 1..Len(fix)}
  BY DEF Slots, Saves, Incoming
<1>9. ASSUME NEW o \in Slots(stack) PROVE low(o) \in Nat /\ high(o) \in Nat /\ high(o) <= top
  <2>1. PICK j \in 1..Len(stack) : o = <<"slot", j>>
    BY <1>8
  <2> QED BY <2>1, <1>4
<1>10. ASSUME NEW o \in Saves(frame)
      PROVE  /\ low(o) \in Nat /\ high(o) = low(o) + 8 /\ low(o) % 8 = 0
             /\ top <= low(o) /\ high(o) <= frame.move
  <2>1. PICK j \in 1..Len(frame.saved) : o = <<"save", j>>
    BY <1>8
  <2> QED BY <2>1, <1>5
<1>11. ASSUME NEW o \in Incoming(fix)
       PROVE  /\ low(o) \in Nat
              /\ \E s \in {4, 8} : high(o) = low(o) + s /\ low(o) % s = 0
              /\ frame.move <= low(o) /\ high(o) <= frame.move + frame.fixMove
  <2>1. PICK j \in 1..Len(fix) : o = <<"argument", j>>
    BY <1>8
  <2> QED BY <2>1, <1>6
<1>12. \A o \in own : 0 <= low(o) /\ high(o) <= frame.move
  <2>1. \A o \in Slots(stack) : 0 <= low(o) /\ high(o) <= frame.move
    BY <1>7, <1>9
  <2>2. \A o \in Saves(frame) : 0 <= low(o) /\ high(o) <= frame.move
    BY <1>10
  <2> QED BY <2>1, <2>2
<1>13. \A o \in all \ Slots(stack) : low(o) % (high(o) - low(o)) = 0
  <2>1. ASSUME NEW o \in Saves(frame) PROVE low(o) % (high(o) - low(o)) = 0
    <3>1. low(o) \in Nat /\ high(o) - low(o) = 8 /\ low(o) % 8 = 0
      BY <1>10
    <3> QED BY <3>1
  <2>2. ASSUME NEW o \in Incoming(fix) PROVE low(o) % (high(o) - low(o)) = 0
    <3>1. PICK s \in {4, 8} : high(o) = low(o) + s /\ low(o) % s = 0
      BY <1>11
    <3>2. low(o) \in Nat /\ s \in Nat
      BY <1>11
    <3>3. high(o) - low(o) = s
      BY <3>1, <3>2
    <3> QED BY <3>1, <3>3
  <2> QED BY <2>1, <2>2
<1>14. ASSUME NEW o \in all, NEW p \in all, o # p PROVE high(o) <= low(p) \/ high(p) <= low(o)
  <2>1. CASE o \in Slots(stack) /\ p \in Slots(stack)
    <3>1. PICK j \in 1..Len(stack), k \in 1..Len(stack) : o = <<"slot", j>> /\ p = <<"slot", k>>
      BY <2>1, <1>8
    <3>2. j < k \/ k < j
      BY <3>1, <1>14
    <3> QED BY <3>1, <3>2, <1>4
  <2>2. CASE o \in Saves(frame) /\ p \in Saves(frame)
    <3>1. PICK j \in 1..Len(frame.saved), k \in 1..Len(frame.saved) : o = <<"save", j>> /\ p = <<"save", k>>
      BY <2>2, <1>8
    <3>2. j < k \/ k < j
      BY <3>1, <1>14
    <3> QED BY <3>1, <3>2, <1>5
  <2>3. CASE o \in Incoming(fix) /\ p \in Incoming(fix)
    <3>1. PICK j \in 1..Len(fix), k \in 1..Len(fix) : o = <<"argument", j>> /\ p = <<"argument", k>>
      BY <2>3, <1>8
    <3>2. j < k \/ k < j
      BY <3>1, <1>14
    <3> QED BY <3>1, <3>2, <1>6
  <2>4. ASSUME NEW q \in Slots(stack), NEW r \in Saves(frame) PROVE high(q) <= low(r)
    BY <1>7, <1>9, <1>10
  <2>5. ASSUME NEW q \in Slots(stack), NEW r \in Incoming(fix) PROVE high(q) <= low(r)
    BY <1>7, <1>9, <1>11
  <2>6. ASSUME NEW q \in Saves(frame), NEW r \in Incoming(fix) PROVE high(q) <= low(r)
    BY <1>7, <1>10, <1>11
  <2> QED BY <2>1, <2>2, <2>3, <2>4, <2>5, <2>6
<1> QED BY <1>11, <1>14, <1>12, <1>13 DEF FrameApart, low, high, frame
=============================================================================
