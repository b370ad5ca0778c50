--------------------------- MODULE FramePlacement ---------------------------
(***************************************************************************)
(* The arithmetic of a frame: the offsets, in bytes from SP, of slots of   *)
(* the sizes stack, of the saved registers regs and of arguments on the    *)
(* stack of the sizes fix.  A frame, from SP upwards: the slots, the       *)
(* registers the function restores, then, behind move bytes, the arguments *)
(* its caller has stored.                                                  *)
(***************************************************************************)
EXTENDS Integers, Sequences

UpTo(of, n) == ((of + n - 1) \div n) * n
\* upAlignTo(): beyond 8 bytes to 16, else to the next power of two.
UpAlignTo(of, s) ==
    UpTo(of, IF s > 8 THEN 16 ELSE IF s > 4 THEN 8 ELSE IF s > 2 THEN 4 ELSE s)

\* Where consecutive objects of the sizes s end, the first starting at or
\* above from, and where they start.
Ends(s, from) ==
    LET end[k \in 0..Len(s)] == IF k = 0 THEN from ELSE UpAlignTo(end[k - 1], s[k]) + s[k]
    IN  end
Starts(s, end) == [k \in 1..Len(s) |-> end[k] - s[k]]

Backwards(s) == [k \in 1..Len(s) |-> s[Len(s) + 1 - k]]

\* Saved registers take 8 bytes each, from the next multiple of 8.
FirstSaveBelow(of) == (of \div 8) * 8
FirstSave(of) == UpTo(of, 8)

Frame(stack, regs, fix) ==
    LET slots == Ends(stack, 0)
        first == FirstSave(slots[Len(stack)])
        end == IF regs = <<>> THEN slots[Len(stack)] ELSE first + 8 * Len(regs)
        move == UpTo(end, 16)
        args == Ends(Backwards(fix), move)
    IN  [offset |-> Starts(stack, slots),
         saved |-> [k \in 1..Len(regs) |-> [reg |-> regs[k], at |-> first + 8 * (k - 1)]],
         move |-> move,
         fixOffset |-> Backwards(Starts(Backwards(fix), args)),
         fixMove |-> UpTo(args[Len(fix)], 16) - move]

-----------------------------------------------------------------------------
(* The objects of a frame, by kind and number, from Bottom to Top.           *)
Slots(stack) == {"slot"} \X (1..Len(stack))
Saves(frame) == {"save"} \X (1..Len(frame.saved))
Incoming(fix) == {"argument"} \X (1..Len(fix))
Bottom(frame, o) ==
    CASE o[1] = "slot" -> frame.offset[o[2]]
      [] o[1] = "save" -> frame.saved[o[2]].at
      [] o[1] = "argument" -> frame.fixOffset[o[2]]
Top(stack, fix, frame, o) ==
    Bottom(frame, o) + CASE o[1] = "slot" -> stack[o[2]]
                     [] o[1] = "save" -> 8
                     [] o[1] = "argument" -> fix[o[2]]

\* In a frame nothing lies on anything else: slots and saved registers below
\* the move of SP, the arguments between it and the caller's frame.  Saved
\* registers and arguments are at multiples of their sizes.
FrameApart(stack, fix, frame) ==
    LET own == Slots(stack) \cup Saves(frame)
        all == own \cup Incoming(fix)
        end(o) == Top(stack, fix, frame, o)
    IN  /\ \A o, p \in all : o # p => end(o) <= Bottom(frame, p) \/ end(p) <= Bottom(frame, o)
        /\ \A o \in own : 0 <= Bottom(frame, o) /\ end(o) <= frame.move
        /\ \A o \in Incoming(fix) : frame.move <= Bottom(frame, o) /\ end(o) <= frame.move + frame.fixMove
        /\ \A o \in all \ Slots(stack) : Bottom(frame, o) % (end(o) - Bottom(frame, o)) = 0
=============================================================================
