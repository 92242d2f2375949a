---------------------------- MODULE ConsoleProofs ----------------------------
(***************************************************************************)
(* Console input is a queue, for any CONSBUFSIZE and any characters, as    *)
(* long as fewer than CONSBUFSIZE characters wait.                         *)
(***************************************************************************)
EXTENDS Console, SequenceTheorems, TLAPS

USE SizeAssumption, NulAssumption

\* The characters that wait, wherever they are, are at most Limit.
Bounded == Len(due) + Len(serial) + Len(kbd) <= Limit

CInv == TypeOK /\ Bounded /\ RingSound

----------------------------------------------------------------------------
(* Sequences.                                                              *)

LEMMA HeadTail ==
  ASSUME NEW S, NEW s \in Seq(S), s # <<>>
  PROVE  /\ Head(s) \in S /\ Tail(s) \in Seq(S) /\ Len(Tail(s)) = Len(s) - 1
         /\ Len(s) \in Nat \ {0}
OBVIOUS

LEMMA Rest ==
  ASSUME NEW S, NEW s \in Seq(S), s # <<>>
  PROVE  /\ SubSeq(s, 2, Len(s)) = Tail(s)
         /\ Tail(s) \in Seq(S) /\ Len(Tail(s)) = Len(s) - 1
         /\ \A i \in 1..(Len(s) - 1) : Tail(s)[i] = s[i + 1]
         /\ s[1] = Head(s)
BY TailIsSubSeq, HeadTailProperties

LEMMA Pushed ==
  ASSUME NEW S, NEW s \in Seq(S), NEW c \in S
  PROVE  /\ Append(s, c) \in Seq(S) /\ Len(Append(s, c)) = Len(s) + 1
         /\ \A i \in 1..Len(s) : Append(s, c)[i] = s[i]
         /\ Append(s, c)[Len(s) + 1] = c
OBVIOUS

----------------------------------------------------------------------------
(* cons_intr stores a byte and cons_getc takes one.                        *)

LEMMA Positions ==
  ASSUME NEW r \in 0..N-1
  PROVE  Incremented(r) \in 0..N-1
BY DEF Incremented

LEMMA StoreKeeps ==
  ASSUME TypeOK, RingSound, Len(due) + 1 < N, NEW c \in Byte, Store(c)
  PROVE  /\ RingSound' /\ due' \in Seq(Char) /\ Len(due') <= Len(due) + 1
         /\ buf' \in [0..N-1 -> Byte] /\ wpos' \in 0..N-1 /\ rpos' = rpos
         /\ c # Nul => due' = Append(due, c)
         /\ c = Nul => due' = due
<1>0. /\ due \in Seq(Char) /\ Len(due) \in Nat /\ rpos \in 0..N-1 /\ wpos \in 0..N-1
      /\ buf \in [0..N-1 -> Byte]
  BY DEF TypeOK
<1>1. CASE c = Nul
  BY <1>0, <1>1 DEF Store, cons, RingSound, Slot
<1>2. CASE c # Nul
  <2>1. /\ buf' = [buf EXCEPT ![wpos] = c] /\ wpos' = Incremented(wpos)
        /\ due' = Append(due, c) /\ rpos' = rpos /\ c \in Char
    BY <1>2 DEF Store, Byte
  <2>2. /\ due' \in Seq(Char) /\ Len(due') = Len(due) + 1
        /\ \A i \in 1..Len(due) : due'[i] = due[i]
        /\ due'[Len(due) + 1] = c
    BY <1>0, <2>1, Pushed
  <2>4. wpos = Slot(rpos, Len(due)) /\ \A i \in 1..Len(due) : buf[Slot(rpos, i - 1)] = due[i]
    BY DEF RingSound
  <2>5. wpos' = Slot(rpos, Len(due) + 1)
    BY <1>0, <2>1, <2>4 DEF Slot, Incremented
  <2>6. \A i \in 0..Len(due)-1 : Slot(rpos, i) \in 0..N-1 /\ Slot(rpos, i) # wpos
    BY <1>0, <2>4 DEF Slot
  <2>7. ASSUME NEW i \in 1..Len(due') PROVE buf'[Slot(rpos, i - 1)] = due'[i]
    <3>1. CASE i = Len(due) + 1
      BY <1>0, <2>1, <2>2, <2>4, <3>1
    <3>2. CASE i # Len(due) + 1
      <4>1. i \in 1..Len(due) /\ i - 1 \in 0..Len(due)-1
        BY <1>0, <2>2, <3>2
      <4>2. buf'[Slot(rpos, i - 1)] = buf[Slot(rpos, i - 1)]
        BY <1>0, <2>1, <2>6, <4>1
      <4> QED
        BY <2>2, <2>4, <4>1, <4>2
    <3> QED
      BY <3>1, <3>2
  <2>8. RingSound'
    BY <1>0, <2>1, <2>2, <2>5, <2>7 DEF RingSound
  <2>9. wpos' \in 0..N-1 /\ buf' \in [0..N-1 -> Byte]
    BY <1>0, <2>1, Positions
  <2> QED
    BY <1>0, <1>2, <2>1, <2>2, <2>8, <2>9
<1> QED
  BY <1>1, <1>2

\* The buffer is empty exactly when no character waits.
LEMMA EmptyMeansNone ==
  ASSUME TypeOK, RingSound
  PROVE  Empty <=> due = <<>>
<1>1. due \in Seq(Char) /\ Len(due) \in Nat /\ rpos \in 0..N-1 /\ wpos \in 0..N-1
  BY DEF TypeOK
<1>2. wpos = Slot(rpos, Len(due)) /\ Len(due) < N
  BY DEF RingSound
<1>3. rpos = wpos <=> Len(due) = 0
  BY <1>1, <1>2 DEF Slot
<1> QED
  BY <1>1, <1>3 DEF Empty

LEMMA TakeKeeps ==
  ASSUME TypeOK, RingSound, TakeChar
  PROVE  /\ RingSound' /\ due # <<>> /\ ret' = Head(due) /\ due' = Tail(due)
         /\ due' \in Seq(Char) /\ Len(due') = Len(due) - 1 /\ rpos' \in 0..N-1
<1>0. /\ due \in Seq(Char) /\ Len(due) \in Nat /\ rpos \in 0..N-1 /\ wpos \in 0..N-1
      /\ due # <<>> /\ buf \in [0..N-1 -> Byte]
  BY EmptyMeansNone DEF TypeOK, TakeChar
<1>1. /\ ret' = buf[rpos] /\ rpos' = Incremented(rpos)
      /\ due' = SubSeq(due, 2, Len(due)) /\ buf' = buf /\ wpos' = wpos
  BY DEF TakeChar
<1>2. /\ due' = Tail(due) /\ due' \in Seq(Char) /\ Len(due') = Len(due) - 1
      /\ \A i \in 1..(Len(due) - 1) : due'[i] = due[i + 1]
      /\ due[1] = Head(due) /\ Len(due) > 0
  BY <1>0, <1>1, Rest, SMTT(30)
<1>3. /\ Len(due) < N /\ wpos = Slot(rpos, Len(due))
      /\ \A i \in 1..Len(due) : buf[Slot(rpos, i - 1)] = due[i]
  BY DEF RingSound
<1>4. ret' = Head(due)
  <2>1. Slot(rpos, 1 - 1) = rpos
    BY <1>0 DEF Slot
  <2>2. 1 \in 1..Len(due)
    BY <1>0, <1>2
  <2>3. buf[Slot(rpos, 1 - 1)] = due[1]
    BY <1>3, <2>2
  <2> QED
    BY <1>1, <1>2, <2>1, <2>3
<1>5. \A i \in 0..Len(due)-1 : Slot(rpos', i) = Slot(rpos, i + 1)
  BY <1>0, <1>1, <1>3 DEF Slot, Incremented
<1>6. RingSound'
  <2>1. wpos' = Slot(rpos', Len(due'))
    <3> DEFINE l == Len(due)
    <3>1. l \in Nat /\ l > 0
      BY <1>0, <1>2
    <3> HIDE DEF l
    <3>2. Slot(Incremented(rpos), l - 1) = Slot(rpos, l)
      BY <1>0, <3>1 DEF Slot, Incremented
    <3> QED
      BY <1>1, <1>2, <1>3, <3>2 DEF l
  <2>2. ASSUME NEW i \in 1..Len(due') PROVE buf'[Slot(rpos', i - 1)] = due'[i]
    <3>1. i - 1 \in 0..Len(due)-1 /\ i + 1 \in 1..Len(due) /\ i \in 1..(Len(due) - 1)
      BY <1>0, <1>2
    <3>2. Slot(rpos', i - 1) = Slot(rpos, i) /\ buf[Slot(rpos, (i + 1) - 1)] = due[i + 1]
      BY <1>3, <1>5, <3>1
    <3>3. Slot(rpos, (i + 1) - 1) = Slot(rpos, i)
      BY <3>1
    <3> QED
      BY <1>1, <1>2, <3>1, <3>2, <3>3
  <2>3. Len(due') < N
    BY <1>0, <1>2, <1>3
  <2> QED
    BY <2>1, <2>2, <2>3 DEF RingSound
<1> QED
  BY <1>0, <1>1, <1>2, <1>4, <1>6, Positions

----------------------------------------------------------------------------
(* The invariant.                                                          *)

LEMMA InitKeeps == Init => CInv
BY LimitAssumption DEF Init, CInv, TypeOK, Byte, Bounded, RingSound, Slot

LEMMA NextKeeps ==
  ASSUME Limit < N, CInv, [Next]_vars
  PROVE  CInv'
<1>1. /\ TypeOK /\ RingSound /\ Bounded
      /\ serial \in Seq(Byte) /\ kbd \in Seq(Byte) /\ due \in Seq(Char)
      /\ Len(due) \in Nat /\ Len(serial) \in Nat /\ Len(kbd) \in Nat /\ Limit \in Nat
  BY LimitAssumption DEF CInv, TypeOK
<1>2. ASSUME NEW c \in Byte, SerialReceives(c) PROVE CInv'
  <2>1. serial' = Append(serial, c) /\ UNCHANGED <<kbd, buf, rpos, wpos, pc, mode, ret, due>>
    BY <1>2 DEF SerialReceives, cons
  <2>2. serial' \in Seq(Byte) /\ Len(serial') = Len(serial) + 1
    BY <1>1, <2>1, Pushed
  <2>3. TypeOK' /\ RingSound'
    BY <1>1, <2>1, <2>2 DEF TypeOK, RingSound, Slot
  <2>4. Bounded'
    BY <1>1, <1>2, <2>1, <2>2 DEF SerialReceives, Room, Bounded
  <2> QED
    BY <2>3, <2>4 DEF CInv
<1>3. ASSUME NEW c \in Byte, KbdReceives(c) PROVE CInv'
  <2>1. kbd' = Append(kbd, c) /\ UNCHANGED <<serial, buf, rpos, wpos, pc, mode, ret, due>>
    BY <1>3 DEF KbdReceives, cons
  <2>2. kbd' \in Seq(Byte) /\ Len(kbd') = Len(kbd) + 1
    BY <1>1, <2>1, Pushed
  <2>3. TypeOK' /\ RingSound'
    BY <1>1, <2>1, <2>2 DEF TypeOK, RingSound, Slot
  <2>4. Bounded'
    BY <1>1, <1>3, <2>1, <2>2 DEF KbdReceives, Room, Bounded
  <2> QED
    BY <2>3, <2>4 DEF CInv
<1>4. CASE SerialByte
  <2>1. Head(serial) \in Byte /\ serial' \in Seq(Byte) /\ Len(serial') = Len(serial) - 1
    BY <1>1, <1>4, HeadTail DEF SerialByte
  <2>2. Store(Head(serial)) /\ UNCHANGED <<kbd, pc, mode, ret>> /\ Len(due) + 1 < N
    BY <1>1, <1>4, HeadTail DEF SerialByte, Bounded
  <2>3. /\ RingSound' /\ due' \in Seq(Char) /\ Len(due') <= Len(due) + 1
        /\ buf' \in [0..N-1 -> Byte] /\ wpos' \in 0..N-1 /\ rpos' = rpos
    BY <1>1, <2>1, <2>2, StoreKeeps
  <2> QED
    BY <1>1, <2>1, <2>2, <2>3 DEF CInv, TypeOK, Bounded
<1>5. CASE KbdByte
  <2>1. Head(kbd) \in Byte /\ kbd' \in Seq(Byte) /\ Len(kbd') = Len(kbd) - 1
    BY <1>1, <1>5, HeadTail DEF KbdByte
  <2>2. Store(Head(kbd)) /\ UNCHANGED <<serial, pc, mode, ret>> /\ Len(due) + 1 < N
    BY <1>1, <1>5, HeadTail DEF KbdByte, Bounded
  <2>3. /\ RingSound' /\ due' \in Seq(Char) /\ Len(due') <= Len(due) + 1
        /\ buf' \in [0..N-1 -> Byte] /\ wpos' \in 0..N-1 /\ rpos' = rpos
    BY <1>1, <2>1, <2>2, StoreKeeps
  <2> QED
    BY <1>1, <2>1, <2>2, <2>3 DEF CInv, TypeOK, Bounded
<1>6. CASE TakeChar
  <2>1. /\ RingSound' /\ due' \in Seq(Char) /\ Len(due') = Len(due) - 1 /\ rpos' \in 0..N-1
    BY <1>1, <1>6, TakeKeeps
  <2>2. /\ ret' = buf[rpos] /\ pc' = "idle" /\ UNCHANGED <<serial, kbd, buf, wpos, mode>>
    BY <1>6 DEF TakeChar, dev
  <2> QED
    BY <1>1, <2>1, <2>2 DEF CInv, TypeOK, Bounded
<1>7. CASE SerialDone \/ KbdDone \/ TakeNone \/ \E m \in {"getchar", "cgetc"} : Call(m)
  <2>1. /\ UNCHANGED <<serial, kbd, buf, rpos, wpos, due>>
        /\ pc' \in {"idle", "serial", "kbd", "take"} /\ mode' \in {"getchar", "cgetc"}
        /\ ret' \in {ret, Nul}
    BY <1>1, <1>7 DEF SerialDone, KbdDone, TakeNone, Call, dev, cons, TypeOK
  <2>2. TypeOK'
    BY <1>1, <2>1 DEF TypeOK, Byte
  <2> QED
    BY <1>1, <2>1, <2>2 DEF CInv, Bounded, RingSound, Slot
<1>8. CASE UNCHANGED vars
  BY <1>1, <1>8 DEF vars, CInv, TypeOK, Bounded, RingSound, Slot
<1> QED
  BY <1>2, <1>3, <1>4, <1>5, <1>6, <1>7, <1>8 DEF Next, Devices, Kernel

\* Nothing read from a device is lost or overwritten in cons.buf.
THEOREM RingCorrect == ASSUME Limit < N PROVE Spec => []RingSound
<1>1. Init => CInv
  BY InitKeeps
<1>2. CInv /\ [Next]_vars => CInv'
  BY NextKeeps
<1>3. CInv => RingSound
  BY DEF CInv
<1> QED
  BY <1>1, <1>2, <1>3, PTL DEF Spec

----------------------------------------------------------------------------
(* The refinement.                                                         *)

LEMMA StepImplements ==
  ASSUME Limit < N, CInv, [Next]_vars
  PROVE  [Abs!Next]_Abs!vars
<1>1. /\ TypeOK /\ RingSound /\ Bounded
      /\ serial \in Seq(Byte) /\ kbd \in Seq(Byte) /\ due \in Seq(Char)
      /\ Len(due) \in Nat /\ Len(serial) \in Nat /\ Len(kbd) \in Nat /\ Limit \in Nat
      /\ mode \in {"getchar", "cgetc"}
  BY LimitAssumption DEF CInv, TypeOK
<1>2. ASSUME NEW c \in Byte, Store(c), Len(due) + 1 < N, UNCHANGED <<pc, mode, ret>>
      PROVE  [Abs!Next]_Abs!vars
  <2>1. UNCHANGED Reader
    BY <1>2 DEF Reader
  <2>2. /\ c # Nul => due' = Append(due, c)
        /\ c = Nul => due' = due
    BY <1>1, <1>2, StoreKeeps
  <2>3. CASE c = Nul
    BY <1>2, <2>1, <2>2, <2>3 DEF Abs!vars
  <2>4. CASE c # Nul
    <3>1. c \in Char /\ Abs!Put(c)
      BY <1>2, <2>1, <2>2, <2>4 DEF Abs!Put, Byte
    <3> QED
      BY <3>1 DEF Abs!Next
  <2> QED
    BY <2>3, <2>4
<1>3. CASE SerialByte
  <2>1. Head(serial) \in Byte /\ Store(Head(serial)) /\ UNCHANGED <<pc, mode, ret>>
    BY <1>1, <1>3, HeadTail DEF SerialByte
  <2>2. Len(due) + 1 < N
    BY <1>1, <1>3, HeadTail DEF SerialByte, Bounded
  <2> QED
    BY <1>2, <2>1, <2>2
<1>4. CASE KbdByte
  <2>1. Head(kbd) \in Byte /\ Store(Head(kbd)) /\ UNCHANGED <<pc, mode, ret>>
    BY <1>1, <1>4, HeadTail DEF KbdByte
  <2>2. Len(due) + 1 < N
    BY <1>1, <1>4, HeadTail DEF KbdByte, Bounded
  <2> QED
    BY <1>2, <2>1, <2>2
<1>5. CASE TakeChar
  <2>1. due # <<>> /\ ret' = Head(due) /\ due' = Tail(due)
    BY <1>1, <1>5, TakeKeeps
  <2>2. Reader # "none" /\ Reader' = "none"
    BY <1>1, <1>5 DEF TakeChar, Reader
  <2> QED
    BY <2>1, <2>2 DEF Abs!Get, Abs!Next
<1>6. CASE TakeNone
  <2>1. due = <<>> /\ due' = due
    BY <1>1, <1>6, EmptyMeansNone DEF TakeNone
  <2>2. CASE mode = "cgetc"
    <3>1. Reader = "cgetc" /\ Reader' = "none" /\ ret' = Nul
      BY <1>6, <2>2 DEF TakeNone, Reader
    <3> QED
      BY <2>1, <3>1 DEF Abs!None, Abs!Next
  <2>3. CASE mode # "cgetc"
    <3>1. UNCHANGED <<Reader, ret>>
      BY <1>6, <2>3 DEF TakeNone, Reader
    <3> QED
      BY <2>1, <3>1 DEF Abs!vars
  <2> QED
    BY <2>2, <2>3
<1>7. ASSUME NEW m \in {"getchar", "cgetc"}, Call(m) PROVE [Abs!Next]_Abs!vars
  <2>1. Reader = "none" /\ Reader' = m /\ UNCHANGED <<due, ret>>
    BY <1>7 DEF Call, Reader
  <2> QED
    BY <2>1 DEF Abs!Call, Abs!Next
<1>8. CASE SerialDone \/ KbdDone \/ Devices \/ UNCHANGED vars
  <2>1. UNCHANGED <<due, ret, Reader>>
    BY <1>8 DEF SerialDone, KbdDone, Devices, SerialReceives, KbdReceives, vars, Reader
  <2> QED
    BY <2>1 DEF Abs!vars
<1> QED
  BY <1>3, <1>4, <1>5, <1>6, <1>7, <1>8 DEF Next, Kernel

(* The circular buffer, polled from two devices, implements the queue: the *)
(* readers get every character once and in the order of cons_intr.         *)
THEOREM Refinement == ASSUME Limit < N PROVE Spec => AbsSpec
<1>1. Init => Abs!Init
  BY DEF Init, Abs!Init, Reader
<1>2. Init => CInv
  BY InitKeeps
<1>3. CInv /\ [Next]_vars => CInv'
  BY NextKeeps
<1>4. CInv /\ [Next]_vars => [Abs!Next]_Abs!vars
  BY StepImplements
<1> QED
  BY <1>1, <1>2, <1>3, <1>4, PTL DEF Spec, AbsSpec, Abs!Spec
=============================================================================
