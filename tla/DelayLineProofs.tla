---------------------------- MODULE DelayLineProofs ----------------------------
(* A delay line of any length, strategy and word width is an ideal delay.     *)
(*                                                                            *)
(* The argument is about slots, not values: at every cursor the amounts 0 to  *)
(* delay address different slots, amount 0 the one written, and advancing the *)
(* cursor makes amount k address the slot amount k - 1 did. For the circular  *)
(* line both come from the size dividing the range of the cursor, so that the *)
(* wrap around of the cursor leaves its low bits alone.                       *)
EXTENDS DelayLine, TLAPS

-----------------------------------------------------------------------------
(* Remainders.                                                                *)

LEMMA SmallMultiple ==
  ASSUME NEW s \in Nat \ {0}, NEW d \in Int, - s < d * s, d * s < s
  PROVE  d = 0
  <1>1. CASE d >= 1
    <2>1. d * s = (d - 1) * s + s /\ (d - 1) * s >= 0
      BY <1>1
    <2> QED
      BY <2>1
  <1>2. CASE d <= -1
    <2>1. d * s = (d + 1) * s - s /\ (- (d + 1)) * s >= 0
      BY <1>2
    <2> QED
      BY <2>1
  <1> QED
    BY <1>1, <1>2

(* The division theorem.                                                      *)
LEMMA Division ==
  ASSUME NEW s \in Nat \ {0}, NEW x \in Int
  PROVE  \E k \in Int, r \in 0 .. s - 1 : x = k * s + r /\ x % s = r
  <1>1. s \in Int /\ s > 0
    OBVIOUS
  <1>2. x = s * (x \div s) + (x % s)
    BY <1>1, SMTT(60)
  <1>3. x \div s \in Int /\ x % s \in 0 .. s - 1
    OBVIOUS
  <1>4. s * (x \div s) = (x \div s) * s
    BY <1>1, <1>3
  <1> QED
    BY <1>2, <1>3, <1>4

(* A remainder is the only one.                                               *)
LEMMA Remainder ==
  ASSUME NEW s \in Nat \ {0}, NEW k \in Int, NEW r \in 0 .. s - 1
  PROVE  (k * s + r) % s = r
  <1>1. k * s + r \in Int
    OBVIOUS
  <1>2. PICK e \in Int, t \in 0 .. s - 1 : k * s + r = e * s + t /\ (k * s + r) % s = t
    BY <1>1, Division
  <1>3. (k - e) * s = t - r
    BY <1>2
  <1>4. k - e = 0
    BY <1>2, <1>3, SmallMultiple
  <1> QED
    BY <1>2, <1>3, <1>4

(* Whole multiples do not change a remainder.                                 *)
LEMMA ShiftedRemainder ==
  ASSUME NEW s \in Nat \ {0}, NEW x \in Int, NEW n \in Int
  PROVE  (x + n * s) % s = x % s
  <1>1. PICK k \in Int, r \in 0 .. s - 1 : x = k * s + r /\ x % s = r
    BY Division
  <1>2. x + n * s = (k + n) * s + r /\ k + n \in Int
    BY <1>1
  <1> QED
    BY <1>1, <1>2, Remainder

(* Numbers less than s apart that leave the same remainder are equal.         *)
LEMMA SameRemainder ==
  ASSUME NEW s \in Nat \ {0}, NEW x \in Int, NEW y \in Int,
         x % s = y % s, x - y < s, y - x < s
  PROVE  x = y
  <1>1. PICK k \in Int, r \in 0 .. s - 1 : x = k * s + r /\ x % s = r
    BY Division
  <1>2. PICK e \in Int, t \in 0 .. s - 1 : y = e * s + t /\ y % s = t
    BY Division
  <1>3. x - y = (k - e) * s
    BY <1>1, <1>2
  <1>4. k - e = 0
    BY <1>3, SmallMultiple
  <1> QED
    BY <1>3, <1>4

(* A number that is an i32 is left as it is.                                  *)
LEMMA WrapInRange ==
  ASSUME NEW x \in - Half .. Half - 1
  PROVE  Wrap(x) = x
  <1>1. Half \in Nat \ {0} /\ 2 * Half \in Nat \ {0} /\ x + Half \in 0 .. 2 * Half - 1
    BY DelayAssumption
  <1>2. (0 * (2 * Half) + (x + Half)) % (2 * Half) = x + Half
    BY <1>1, Remainder
  <1> QED
    BY <1>1, <1>2 DEF Wrap

(* Wrapping yields an i32, some number of turns away.                         *)
LEMMA WrapTurns ==
  ASSUME NEW x \in Int
  PROVE  Wrap(x) \in - Half .. Half - 1 /\ \E n \in Int : Wrap(x) = x + n * (2 * Half)
  <1>1. Half \in Nat \ {0} /\ 2 * Half \in Nat \ {0} /\ x + Half \in Int
    BY DelayAssumption
  <1>2. PICK k \in Int, r \in 0 .. 2 * Half - 1 :
           x + Half = k * (2 * Half) + r /\ (x + Half) % (2 * Half) = r
    BY <1>1, Division
  <1>3. Wrap(x) = r - Half
    BY <1>2 DEF Wrap
  <1>4. - k \in Int /\ r - Half = x + (- k) * (2 * Half)
    BY <1>1, <1>2
  <1> QED
    BY <1>1, <1>2, <1>3, <1>4

-----------------------------------------------------------------------------
(* The slots.                                                                 *)

(* What a cursor is worth beyond being an i32, and when slots are copied.     *)
CursorInv ==
    /\ Kind = "shift" => cursor = 0
    /\ Kind = "ifWrapping" => cursor \in 0 .. Size - 1
    /\ phase = "copy" => Kind = "shift" /\ slot \in 1 .. delay

Inv == TypeOK /\ CursorInv

(* What the assumption says of the line at hand.                              *)
LEMMA LineFacts ==
  ASSUME delay \in Delays
  PROVE  /\ delay \in Nat \ {0}
         /\ Half \in Nat \ {0}
         /\ Size \in delay + 1 .. Half - 1
         /\ Size \in Nat \ {0}
         /\ Kind \in {"shift", "circular", "ifWrapping"}
         /\ Kind # "circular" => Size = delay + 1
         /\ Kind = "circular" => (2 * Half) % Size = 0
         /\ Kind = "ifWrapping" => 2 * Size <= Half
  <1>1. delay \in Nat \ {0} /\ Half \in Nat \ {0}
    BY DelayAssumption
  <1>2. Size \in delay + 1 .. Half - 1
    BY DelayAssumption DEF Size
  <1>3. Kind \in {"shift", "circular", "ifWrapping"}
    BY DEF Kind, KindOf
  <1>4. Kind # "circular" => Size = delay + 1
    BY DEF Kind, Size, SizeOf
  <1>5. /\ Kind = "circular" => (2 * Half) % Size = 0
        /\ Kind = "ifWrapping" => 2 * Size <= Half
    BY DelayAssumption DEF Kind, Size
  <1> QED
    BY <1>1, <1>2, <1>3, <1>4, <1>5

(* The low bits of a circular cursor do not see it wrap.                      *)
LEMMA WrapRemainder ==
  ASSUME delay \in Delays, Kind = "circular", NEW x \in Int, NEW y \in Int
  PROVE  (Wrap(x) + y) % Size = (x + y) % Size
  <1>1. Size \in Nat \ {0} /\ Half \in Nat \ {0} /\ (2 * Half) % Size = 0
    BY LineFacts
  <1>2. PICK q \in Int : 2 * Half = q * Size
    <2>1. 2 * Half \in Int
      BY <1>1
    <2>2. PICK q \in Int, r \in 0 .. Size - 1 : 2 * Half = q * Size + r /\ (2 * Half) % Size = r
      BY <1>1, <2>1, Division
    <2> QED
      BY <1>1, <2>2
  <1>3. PICK n \in Int : Wrap(x) = x + n * (2 * Half)
    BY WrapTurns
  <1>4. Wrap(x) + y = (x + y) + (n * q) * Size /\ n * q \in Int /\ x + y \in Int
    BY <1>1, <1>2, <1>3
  <1> QED
    BY <1>1, <1>4, ShiftedRemainder

LEMMA MaskedWrap ==
  ASSUME delay \in Delays, Kind = "circular", NEW x \in Int
  PROVE  Masked(Wrap(x)) = x % Size
  <1>1. Wrap(x) \in Int
    BY WrapTurns, LineFacts
  <1>2. (Wrap(x) + 0) % Size = (x + 0) % Size
    BY WrapRemainder
  <1>3. Wrap(x) + 0 = Wrap(x) /\ x + 0 = x
    BY <1>1
  <1> QED
    BY <1>2, <1>3 DEF Masked

(* The slot of each amount, without the i32 arithmetic.                       *)
LEMMA ReadIndexIs ==
  ASSUME Inv, NEW a \in 0 .. delay
  PROVE  /\ Kind = "shift" => ReadIndex(a) = a
         /\ Kind = "circular" => ReadIndex(a) = (cursor - a) % Size
         /\ Kind = "ifWrapping" =>
               ReadIndex(a) = IF cursor >= a THEN cursor - a ELSE cursor + Size - a
  <1> USE DEF Inv
  <1>1. delay \in Nat \ {0} /\ Half \in Nat \ {0} /\ Size \in delay + 1 .. Half - 1
    BY LineFacts DEF TypeOK
  <1>2. CASE Kind = "shift"
    BY <1>2 DEF ReadIndex
  <1>3. CASE Kind = "circular"
    <2>1. cursor - a \in Int
      BY <1>1 DEF TypeOK
    <2> QED
      BY <1>3, <2>1, MaskedWrap DEF ReadIndex, TypeOK
  <1>4. CASE Kind = "ifWrapping"
    <2>1. cursor \in 0 .. Size - 1 /\ 2 * Size <= Half
      BY <1>4, LineFacts DEF CursorInv, TypeOK
    <2>2. Wrap(cursor + Size) = cursor + Size
      <3>1. cursor + Size \in - Half .. Half - 1
        BY <1>1, <2>1
      <3> QED
        BY <3>1, WrapInRange
    <2>3. Wrap(cursor + Size - a) = cursor + Size - a
      <3>1. cursor + Size - a \in - Half .. Half - 1
        BY <1>1, <2>1
      <3> QED
        BY <3>1, WrapInRange
    <2>4. cursor >= a => Wrap(cursor + Size - a - Size) = cursor - a
      <3>1. cursor >= a => cursor + Size - a - Size \in - Half .. Half - 1
        BY <1>1, <2>1
      <3>2. cursor >= a => Wrap(cursor + Size - a - Size) = cursor + Size - a - Size
        BY <3>1, WrapInRange
      <3> QED
        BY <1>1, <2>1, <3>2
    <2>5. cursor + Size - a >= Size <=> cursor >= a
      BY <1>1, <2>1
    <2>6. IfWrapped(a) = IF cursor + Size - a >= Size
                         THEN Wrap(cursor + Size - a - Size) ELSE cursor + Size - a
      <3>1. Wrap(Wrap(cursor + Size) - a) = cursor + Size - a
        BY <1>1, <2>1, <2>2, <2>3
      <3>2. IfWrapped(a) = IF Wrap(Wrap(cursor + Size) - a) >= Size
                           THEN Wrap(Wrap(Wrap(cursor + Size) - a) - Size)
                           ELSE Wrap(Wrap(cursor + Size) - a)
        BY DEF IfWrapped
      <3> QED
        BY <1>1, <2>1, <3>1, <3>2
    <2>7. IfWrapped(a) = IF cursor >= a THEN cursor - a ELSE cursor + Size - a
      BY <2>4, <2>5, <2>6, Zenon
    <2>8. ReadIndex(a) = IfWrapped(a)
      BY <1>4 DEF ReadIndex
    <2> QED
      BY <1>4, <2>7, <2>8, Zenon
  <1> QED
    BY <1>2, <1>3, <1>4, LineFacts DEF TypeOK

(* The same of the next state.                                                *)
Slots ==
    \A a \in 0 .. delay :
        /\ Kind = "shift" => ReadIndex(a) = a
        /\ Kind = "circular" => ReadIndex(a) = (cursor - a) % Size
        /\ Kind = "ifWrapping" =>
              ReadIndex(a) = IF cursor >= a THEN cursor - a ELSE cursor + Size - a

LEMMA SlotsNext == Inv' => Slots'
  <1>1. Inv => Slots
    BY ReadIndexIs DEF Slots
  <1> QED
    BY <1>1, PTL

(* Every amount has a slot of its own, and amount zero the one written.       *)
LEMMA InvSlots == Inv => SlotsAreApart
  <1> SUFFICES ASSUME Inv PROVE SlotsAreApart
    OBVIOUS
  <1> USE DEF Inv
  <1>1. delay \in Nat \ {0} /\ Half \in Nat \ {0} /\ Size \in delay + 1 .. Half - 1
        /\ cursor \in - Half .. Half - 1 /\ DOMAIN buf = 0 .. Size - 1
    BY LineFacts DEF TypeOK
  <1>2. 0 \in 0 .. delay
    BY <1>1
  <1>3. CASE Kind = "shift"
    <2>1. \A a \in 0 .. delay : ReadIndex(a) = a
      BY <1>3, ReadIndexIs
    <2> QED
      BY <1>1, <1>2, <1>3, <2>1 DEF SlotsAreApart, WriteIndex
  <1>4. CASE Kind = "circular"
    <2>1. \A a \in 0 .. delay : ReadIndex(a) = (cursor - a) % Size
      BY <1>4, ReadIndexIs
    <2>2. \A a \in 0 .. delay : ReadIndex(a) \in DOMAIN buf
      BY <1>1, <2>1
    <2>3. ASSUME NEW a \in 0 .. delay, NEW b \in 0 .. delay, ReadIndex(a) = ReadIndex(b)
          PROVE  a = b
      <3>1. (cursor - a) % Size = (cursor - b) % Size
        BY <2>1, <2>3
      <3>2. /\ Size \in Nat \ {0} /\ cursor - a \in Int /\ cursor - b \in Int
            /\ (cursor - a) - (cursor - b) < Size /\ (cursor - b) - (cursor - a) < Size
        BY <1>1
      <3>3. cursor - a = cursor - b
        BY <3>1, <3>2, SameRemainder
      <3> QED
        BY <1>1, <3>3
    <2>4. ReadIndex(0) = WriteIndex
      BY <1>1, <1>2, <1>4, <2>1 DEF WriteIndex, Masked
    <2> QED
      BY <2>2, <2>3, <2>4 DEF SlotsAreApart
  <1>5. CASE Kind = "ifWrapping"
    <2>1. \A a \in 0 .. delay :
             ReadIndex(a) = IF cursor >= a THEN cursor - a ELSE cursor + Size - a
      BY <1>5, ReadIndexIs
    <2>2. cursor \in 0 .. Size - 1
      BY <1>5 DEF CursorInv
    <2> QED
      BY <1>1, <1>2, <1>5, <2>1, <2>2 DEF SlotsAreApart, WriteIndex
  <1> QED
    BY <1>3, <1>4, <1>5, LineFacts DEF TypeOK

-----------------------------------------------------------------------------
(* The invariant.                                                             *)

LEMMA InitInv == Init => Inv
  <1> SUFFICES ASSUME Init PROVE Inv
    OBVIOUS
  <1>1. delay \in Nat \ {0} /\ Half \in Nat \ {0} /\ Size \in delay + 1 .. Half - 1
    BY LineFacts DEF Init
  <1>2. buf \in [0 .. Size - 1 -> Values]
    BY DelayAssumption DEF Init, Cleared, Size
  <1> QED
    BY <1>1, <1>2 DEF Init, Inv, TypeOK, CursorInv

LEMMA ClearInv == Inv /\ Clear => Inv'
  <1> SUFFICES ASSUME Inv, Clear PROVE Inv'
    OBVIOUS
  <1>1. delay \in Nat \ {0} /\ Half \in Nat \ {0} /\ Size \in delay + 1 .. Half - 1
    BY LineFacts DEF Inv, TypeOK
  <1>2. Kind' = Kind /\ Size' = Size
    BY DEF Clear, Kind, Size
  <1>3. (buf \in [0 .. Size - 1 -> Values])'
    BY <1>2, DelayAssumption DEF Clear, Cleared, Size
  <1> QED
    BY <1>1, <1>2, <1>3 DEF Clear, Inv, TypeOK, CursorInv

LEMMA WriteInv == ASSUME NEW v \in Values PROVE Inv /\ Write(v) => Inv'
  <1> SUFFICES ASSUME Inv, Write(v) PROVE Inv'
    OBVIOUS
  <1>1. Kind' = Kind /\ Size' = Size
    BY DEF Write, Kind, Size
  <1> QED
    BY <1>1 DEF Write, Inv, TypeOK, CursorInv

LEMMA ReadInv == ASSUME NEW a \in 0 .. delay PROVE Inv /\ Read(a) => Inv'
  <1> SUFFICES ASSUME Inv, Read(a) PROVE Inv'
    OBVIOUS
  <1>1. Kind' = Kind /\ Size' = Size
    BY DEF Read, Kind, Size
  <1>2. buf[ReadIndex(a)] \in Values
    BY InvSlots DEF SlotsAreApart, Inv, TypeOK
  <1>3. read' \in [amount : 0 .. delay, value : Values]
    BY <1>2 DEF Read
  <1> QED
    BY <1>1, <1>3 DEF Read, Inv, TypeOK, CursorInv

LEMMA AdvanceInv == Inv /\ Advance => Inv'
  <1> SUFFICES ASSUME Inv, Advance PROVE Inv'
    OBVIOUS
  <1>1. /\ delay \in Nat \ {0} /\ Half \in Nat \ {0} /\ Size \in delay + 1 .. Half - 1
        /\ Kind \in {"shift", "circular", "ifWrapping"}
    BY LineFacts DEF Inv, TypeOK
  <1>2. Kind' = Kind /\ Size' = Size
    BY DEF Advance, Kind, Size
  <1>3. Wrap(cursor + 1) \in - Half .. Half - 1
    <2>1. cursor + 1 \in Int
      BY <1>1 DEF Inv, TypeOK
    <2> QED
      BY <2>1, WrapTurns
  <1>4. CASE Kind = "circular"
    BY <1>1, <1>2, <1>3, <1>4 DEF Advance, Advanced, Inv, TypeOK, CursorInv
  <1>5. CASE Kind = "ifWrapping"
    <2>1. cursor + 1 \in - Half .. Half - 1 /\ cursor \in 0 .. Size - 1
      BY <1>1, <1>5 DEF Inv, CursorInv
    <2>2. Wrap(cursor + 1) = cursor + 1
      BY <2>1, WrapInRange
    <2>3. cursor' = IF cursor + 1 >= Size THEN 0 ELSE cursor + 1
      BY <1>5, <2>2 DEF Advance, Advanced
    <2>4. cursor' \in 0 .. Size - 1
      BY <1>1, <2>1, <2>3
    <2> QED
      BY <1>1, <1>2, <1>5, <2>4 DEF Advance, Inv, TypeOK, CursorInv
  <1> QED
    BY <1>1, <1>4, <1>5 DEF Advance

LEMMA StartCopiesInv == Inv /\ StartCopies => Inv'
  <1> SUFFICES ASSUME Inv, StartCopies PROVE Inv'
    OBVIOUS
  <1>1. delay \in Nat \ {0}
    BY LineFacts DEF Inv, TypeOK
  <1>2. Kind' = Kind /\ Size' = Size
    BY DEF StartCopies, Kind, Size
  <1> QED
    BY <1>1, <1>2 DEF StartCopies, Inv, TypeOK, CursorInv

LEMMA CopyInv == Inv /\ Copy => Inv'
  <1> SUFFICES ASSUME Inv, Copy PROVE Inv'
    OBVIOUS
  <1>1. delay \in Nat \ {0} /\ Size \in delay + 1 .. Half - 1 /\ Half \in Nat
    BY LineFacts DEF Inv, TypeOK
  <1>2. Kind' = Kind /\ Size' = Size
    BY DEF Copy, Kind, Size
  <1>3. slot \in 1 .. delay /\ Kind = "shift"
    BY DEF Copy, Inv, CursorInv
  <1>4. buf[slot - 1] \in Values
    BY <1>1, <1>3 DEF Inv, TypeOK
  <1>5. slot - 1 \in 0 .. delay /\ (slot # 1 => slot - 1 \in 1 .. delay)
    BY <1>1, <1>3
  <1> QED
    BY <1>1, <1>2, <1>3, <1>4, <1>5 DEF Copy, Inv, TypeOK, CursorInv

LEMMA NextInv == Inv /\ [Next]_vars => Inv'
  <1> SUFFICES ASSUME Inv, [Next]_vars PROVE Inv'
    OBVIOUS
  <1>1. CASE UNCHANGED vars
    BY <1>1 DEF vars, Inv, TypeOK, CursorInv, Kind, Size
  <1> QED
    BY <1>1, ClearInv, WriteInv, ReadInv, AdvanceInv, StartCopiesInv, CopyInv DEF Next

THEOREM InvHolds == Spec => []Inv
  BY InitInv, NextInv, PTL DEF Spec

(* Every reachable state of a line is of its type: no index is outside the    *)
(* array, the cursor stays an i32 and the read value is one that was stored.  *)
THEOREM TypeCorrect == Spec => []TypeOK
  <1>1. Inv => TypeOK
    BY DEF Inv
  <1> QED
    BY <1>1, InvHolds, PTL

(* The amounts a line is sized for always address different slots of it.      *)
THEOREM SlotsAreApartHolds == Spec => []SlotsAreApart
  BY InvHolds, InvSlots, PTL

-----------------------------------------------------------------------------
(* The refinement.                                                            *)

(* A step that moves neither the line nor its cursor moves no slot.           *)
LEMMA SlotsStay ==
  ASSUME delay' = delay, cursor' = cursor
  PROVE  WriteIndex' = WriteIndex /\ \A k \in 0 .. delay : ReadIndex(k)' = ReadIndex(k)
  <1>1. Kind' = Kind /\ Size' = Size
    BY DEF Kind, Size
  <1>2. WriteIndex' = WriteIndex
    BY <1>1 DEF WriteIndex, Masked
  <1>3. ASSUME NEW k \in 0 .. delay PROVE ReadIndex(k)' = ReadIndex(k)
    BY <1>1 DEF ReadIndex, IfWrapped, Masked, Wrap
  <1> QED
    BY <1>2, <1>3

(* Advancing the cursor ages every slot by one sample.                        *)
LEMMA SlotsAge ==
  ASSUME Inv, Advance, NEW k \in 1 .. delay
  PROVE  ReadIndex(k)' = ReadIndex(k - 1)
  <1>1. /\ delay \in Nat \ {0} /\ Half \in Nat \ {0} /\ Size \in delay + 1 .. Half - 1
        /\ Kind \in {"shift", "circular", "ifWrapping"} /\ delay \in Delays
    BY LineFacts DEF Inv, TypeOK
  <1>2. Kind' = Kind /\ Size' = Size /\ delay' = delay
    BY DEF Advance, Kind, Size
  <1>3. Inv'
    BY AdvanceInv
  <1>4. k \in 0 .. delay /\ k - 1 \in 0 .. delay /\ cursor \in - Half .. Half - 1
    BY <1>1 DEF Inv, TypeOK
  <1>5. CASE Kind = "circular"
    <2>1. cursor' = Wrap(cursor + 1)
      BY <1>5 DEF Advance, Advanced
    <2>2. ReadIndex(k)' = (cursor' - k) % Size
      <3>1. ReadIndex(k)' = Masked(Wrap(cursor' - k))
        BY <1>2, <1>5 DEF ReadIndex, Masked, Wrap
      <3>2. cursor' - k \in Int
        BY <1>1, <1>3 DEF Inv, TypeOK
      <3> QED
        BY <1>1, <1>5, <3>1, <3>2, MaskedWrap
    <2>3. (Wrap(cursor + 1) + (- k)) % Size = ((cursor + 1) + (- k)) % Size
      <3>1. cursor + 1 \in Int /\ - k \in Int
        BY <1>1, <1>4
      <3> QED
        BY <1>1, <1>5, <3>1, WrapRemainder
    <2>4. ReadIndex(k - 1) = (cursor - (k - 1)) % Size
      BY <1>4, <1>5, ReadIndexIs
    <2>5. cursor' + (- k) = cursor' - k /\ (cursor + 1) + (- k) = cursor - (k - 1)
      BY <1>1, <1>3, <1>4 DEF Inv, TypeOK
    <2> QED
      BY <2>1, <2>2, <2>3, <2>4, <2>5
  <1>6. CASE Kind = "ifWrapping"
    <2>1. cursor \in 0 .. Size - 1 /\ Size = delay + 1 /\ cursor' \in 0 .. Size - 1
      BY <1>1, <1>2, <1>3, <1>6, LineFacts DEF Inv, CursorInv
    <2>2. Wrap(cursor + 1) = cursor + 1
      <3>1. cursor + 1 \in - Half .. Half - 1
        BY <1>1, <2>1
      <3> QED
        BY <3>1, WrapInRange
    <2>3. cursor' = IF cursor + 1 >= Size THEN 0 ELSE cursor + 1
      BY <1>6, <2>2 DEF Advance, Advanced
    <2>4. ReadIndex(k)' = IF cursor' >= k THEN cursor' - k ELSE cursor' + Size - k
      BY <1>2, <1>3, <1>4, <1>6, SlotsNext DEF Slots
    <2>5. ReadIndex(k - 1) =
             IF cursor >= k - 1 THEN cursor - (k - 1) ELSE cursor + Size - (k - 1)
      BY <1>4, <1>6, ReadIndexIs
    <2> QED
      BY <1>1, <1>4, <2>1, <2>3, <2>4, <2>5
  <1> QED
    BY <1>1, <1>5, <1>6 DEF Advance

(* The past a line holds is a function of its slots.                          *)
LEMMA PastIs ==
  ASSUME delay' = delay
  PROVE  /\ past = [k \in 1 .. delay |-> Held(k)]
         /\ past' = [k \in 1 .. delay |-> Held(k)']
  BY DEF past

(* A line starts as an ideal one.                                             *)
LEMMA IdealInit == Init => Ideal!Init
  <1> SUFFICES ASSUME Init PROVE Ideal!Init
    OBVIOUS
  <1>1. SlotsAreApart
    BY InitInv, InvSlots
  <1>2. delay \in Nat \ {0}
    BY LineFacts DEF Init
  <1>3. ASSUME NEW k \in 1 .. delay PROVE Held(k) = Zero
    <2>1. ReadIndex(k) \in DOMAIN buf
      BY <1>1, <1>2 DEF SlotsAreApart
    <2> QED
      BY <2>1 DEF Init, Held, Cleared
  <1> QED
    BY <1>3 DEF Init, Ideal!Init, past, current

LEMMA ClearStep == Inv /\ Clear => Ideal!Clear
  <1> SUFFICES ASSUME Inv, Clear PROVE Ideal!Clear
    OBVIOUS
  <1>1. Inv' /\ delay' = delay
    BY ClearInv DEF Clear
  <1>2. SlotsAreApart'
    BY <1>1, InvSlots, PTL
  <1>3. delay \in Nat \ {0}
    BY LineFacts DEF Inv, TypeOK
  <1>4. ASSUME NEW k \in 1 .. delay PROVE Held(k)' = Zero
    <2>1. ReadIndex(k)' \in DOMAIN buf'
      BY <1>1, <1>2, <1>3 DEF SlotsAreApart
    <2>2. Held(k)' = buf'[ReadIndex(k)']
      BY DEF Clear, Held
    <2> QED
      BY <2>1, <2>2 DEF Clear, Cleared
  <1> QED
    BY <1>1, <1>4, PastIs DEF Clear, Ideal!Clear, current

LEMMA WriteStep == ASSUME NEW v \in Values PROVE Inv /\ Write(v) => Ideal!Write(v)
  <1> SUFFICES ASSUME Inv, Write(v) PROVE Ideal!Write(v)
    OBVIOUS
  <1>1. delay' = delay /\ cursor' = cursor
    BY DEF Write
  <1>2. delay \in Nat \ {0} /\ SlotsAreApart
    BY LineFacts, InvSlots DEF Inv, TypeOK
  <1>3. WriteIndex \in DOMAIN buf
    BY <1>2 DEF SlotsAreApart
  <1>4. current' = v
    BY <1>1, <1>3, SlotsStay DEF Write, current
  <1>5. ASSUME NEW k \in 1 .. delay PROVE Held(k)' = Held(k)
    <2>1. k \in 0 .. delay /\ 0 \in 0 .. delay /\ k # 0
      BY <1>2
    <2>2. ReadIndex(k) \in DOMAIN buf /\ ReadIndex(k) # WriteIndex
      BY <1>2, <2>1 DEF SlotsAreApart
    <2>3. ReadIndex(k)' = ReadIndex(k)
      BY <1>1, <2>1, SlotsStay
    <2>4. Held(k)' = buf'[ReadIndex(k)'] /\ Held(k) = buf[ReadIndex(k)]
      BY DEF Write, Held
    <2> QED
      BY <2>2, <2>3, <2>4 DEF Write
  <1> QED
    BY <1>1, <1>4, <1>5, PastIs DEF Write, Ideal!Write, current

LEMMA ReadStep == ASSUME NEW a \in 0 .. delay PROVE Inv /\ Read(a) => Ideal!Read(a)
  <1> SUFFICES ASSUME Inv, Read(a) PROVE Ideal!Read(a)
    OBVIOUS
  <1>1. delay' = delay /\ cursor' = cursor /\ buf' = buf /\ phase' = phase /\ slot' = slot
    BY DEF Read
  <1>2. delay \in Nat \ {0} /\ SlotsAreApart
    BY LineFacts, InvSlots DEF Inv, TypeOK
  <1>3. ASSUME NEW k \in 1 .. delay PROVE Held(k)' = Held(k)
    <2>1. ReadIndex(k)' = ReadIndex(k)
      BY <1>1, <1>2, SlotsStay
    <2> QED
      BY <1>1, <2>1 DEF Held
  <1>4. past' = past
    BY <1>1, <1>3, PastIs
  <1>5. current = buf[ReadIndex(0)] /\ current \in Values
    BY <1>2 DEF Read, current, SlotsAreApart, Inv, TypeOK
  <1>6. current' = current
    BY <1>1, SlotsStay DEF current
  <1>7. read' = [amount |-> a, value |-> IF a = 0 THEN current ELSE past[a]]
    <2>1. CASE a = 0
      BY <1>5, <2>1 DEF Read
    <2>2. CASE a # 0
      <3>1. a \in 1 .. delay
        BY <1>2, <2>2
      <3>2. past[a] = buf[ReadIndex(a)]
        BY <3>1 DEF past, Held, Read
      <3> QED
        BY <2>2, <3>2 DEF Read
    <2> QED
      BY <2>1, <2>2
  <1> QED
    BY <1>1, <1>4, <1>5, <1>6, <1>7, DelayAssumption DEF Ideal!Read

LEMMA AdvanceStep == Inv /\ Advance => Ideal!EndSample
  <1> SUFFICES ASSUME Inv, Advance PROVE Ideal!EndSample
    OBVIOUS
  <1>1. delay' = delay /\ delay \in Nat \ {0} /\ SlotsAreApart
    BY LineFacts, InvSlots DEF Inv, TypeOK, Advance
  <1>2. current = buf[ReadIndex(0)] /\ current \in Values
    BY <1>1 DEF Advance, current, SlotsAreApart, Inv, TypeOK
  <1>3. ASSUME NEW k \in 1 .. delay
        PROVE  Held(k)' = IF k = 1 THEN current ELSE past[k - 1]
    <2>1. Held(k)' = buf[ReadIndex(k - 1)]
      BY SlotsAge DEF Advance, Held
    <2>2. CASE k = 1
      BY <1>2, <2>1, <2>2
    <2>3. CASE k # 1
      <3>1. k - 1 \in 1 .. delay
        BY <1>1, <2>3
      <3> QED
        BY <2>1, <2>3, <3>1 DEF past, Held, Advance
    <2> QED
      BY <2>2, <2>3
  <1>4. past' = [k \in 1 .. delay |-> IF k = 1 THEN current ELSE past[k - 1]]
    BY <1>1, <1>3, PastIs
  <1> QED
    BY <1>1, <1>2, <1>4, DelayAssumption DEF Advance, Ideal!EndSample, current

LEMMA StartCopiesStep == Inv /\ StartCopies => Ideal!EndSample
  <1> SUFFICES ASSUME Inv, StartCopies PROVE Ideal!EndSample
    OBVIOUS
  <1>1. delay' = delay /\ delay \in Nat \ {0} /\ SlotsAreApart
    BY LineFacts, InvSlots DEF Inv, TypeOK, StartCopies
  <1>2. ReadIndex(0) = 0 /\ \A k \in 1 .. delay : ReadIndex(k) = k
    BY DEF StartCopies, ReadIndex
  <1>3. current = buf[0] /\ current \in Values
    BY <1>1, <1>2 DEF StartCopies, current, SlotsAreApart, Inv, TypeOK
  <1>4. ASSUME NEW k \in 1 .. delay
        PROVE  Held(k)' = IF k = 1 THEN current ELSE past[k - 1]
    <2>1. Held(k)' = buf[k - 1]
      BY <1>1 DEF StartCopies, Held
    <2>2. CASE k = 1
      BY <1>3, <2>1, <2>2
    <2>3. CASE k # 1
      <3>1. k - 1 \in 1 .. delay
        BY <1>1, <2>3
      <3> QED
        BY <1>2, <2>1, <2>3, <3>1 DEF past, Held, StartCopies
    <2> QED
      BY <2>2, <2>3
  <1>5. past' = [k \in 1 .. delay |-> IF k = 1 THEN current ELSE past[k - 1]]
    BY <1>1, <1>4, PastIs
  <1> QED
    BY <1>1, <1>3, <1>5, DelayAssumption DEF StartCopies, Ideal!EndSample, current

(* A copy moves a value to where the line already held it.                    *)
LEMMA CopyStep == Inv /\ Copy => UNCHANGED <<delay, past, current, read>>
  <1> SUFFICES ASSUME Inv, Copy PROVE UNCHANGED <<delay, past, current, read>>
    OBVIOUS
  <1>1. delay' = delay /\ delay \in Nat \ {0} /\ Size = delay + 1
    BY LineFacts DEF Inv, TypeOK, CursorInv, Copy
  <1>2. Kind = "shift" /\ slot \in 1 .. delay /\ Kind' = Kind
    BY DEF Copy, Inv, CursorInv, Kind
  <1>3. \A k \in 1 .. delay : ReadIndex(k) = k /\ ReadIndex(k)' = k
    BY <1>2 DEF ReadIndex
  <1>4. DOMAIN buf = 0 .. delay
    BY <1>1 DEF Inv, TypeOK
  <1>5. ASSUME NEW k \in 1 .. delay PROVE Held(k)' = Held(k)
    <2>1. Held(k) = IF k <= slot THEN buf[k - 1] ELSE buf[k]
      BY <1>3 DEF Held, Copy
    <2>2. CASE slot = 1
      <3>1. Held(k)' = buf'[k]
        BY <1>3, <2>2 DEF Held, Copy
      <3> QED
        BY <1>1, <1>4, <2>1, <2>2, <3>1 DEF Copy
    <2>3. CASE slot # 1
      <3>1. Held(k)' = IF k <= slot - 1 THEN buf'[k - 1] ELSE buf'[k]
        BY <1>3, <2>3 DEF Held, Copy
      <3> QED
        BY <1>1, <1>2, <1>4, <2>1, <2>3, <3>1 DEF Copy
    <2> QED
      BY <2>2, <2>3
  <1>6. past' = past
    BY <1>1, <1>5, PastIs
  <1> QED
    BY <1>6 DEF Copy, current

LEMMA NextStep == Inv /\ [Next]_vars => [Ideal!Next]_<<delay, past, current, read>>
  <1> SUFFICES ASSUME Inv, [Next]_vars PROVE [Ideal!Next]_<<delay, past, current, read>>
    OBVIOUS
  <1>1. CASE UNCHANGED vars
    <2>1. Inv' /\ delay' = delay /\ cursor' = cursor /\ buf' = buf /\ phase' = phase
          /\ slot' = slot /\ read' = read /\ delay \in Nat \ {0}
      BY <1>1, NextInv, LineFacts DEF vars, Inv, TypeOK
    <2>2. ASSUME NEW k \in 1 .. delay PROVE Held(k)' = Held(k)
      <3>1. ReadIndex(k)' = ReadIndex(k)
        BY <2>1, SlotsStay
      <3> QED
        BY <2>1, <3>1 DEF Held
    <2>3. past' = past
      BY <2>1, <2>2, PastIs
    <2>4. current' = current
      BY <2>1, SlotsStay DEF current
    <2> QED
      BY <2>1, <2>3, <2>4
  <1>2. CASE Clear
    BY <1>2, ClearStep DEF Ideal!Next
  <1>3. CASE \E v \in Values : Write(v)
    BY <1>3, WriteStep DEF Ideal!Next
  <1>4. CASE \E a \in 0 .. delay : Read(a)
    BY <1>4, ReadStep DEF Ideal!Next
  <1>5. CASE Advance
    BY <1>5, AdvanceStep DEF Ideal!Next
  <1>6. CASE StartCopies
    BY <1>6, StartCopiesStep DEF Ideal!Next
  <1>7. CASE Copy
    BY <1>7, CopyStep
  <1> QED
    BY <1>1, <1>2, <1>3, <1>4, <1>5, <1>6, <1>7 DEF Next

(* Whatever its strategy, a line of any length over samples of any kind, with *)
(* a cursor of any width, gives every read the value written that many        *)
(* samples before it: the code the lowering emits implements the ideal delay. *)
THEOREM ImplementsIdealDelayHolds == Spec => ImplementsIdealDelay
  <1>1. Spec => Ideal!Init /\ [][Ideal!Next]_<<delay, past, current, read>>
    BY IdealInit, InvHolds, NextStep, PTL DEF Spec
  <1> QED
    BY <1>1 DEF ImplementsIdealDelay, Ideal!Spec

=============================================================================
