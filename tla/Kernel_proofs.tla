--------------------------- MODULE Kernel_proofs ----------------------------
(***************************************************************************)
(* Proofs about the two parts of the kernel that keep memory in order: the *)
(* interrupt stubs, whose frames lie on the stacks, and the memory manager.*)
(*                                                                         *)
(* The stubs, for any threads and vectors: a thread that is not running is *)
(* saved, its frame lies where the stub that resumes it looks for it, with *)
(* the registers it had (StubInv). The vectors 8, 10 to 14 and 17 push a   *)
(* word more and their stubs count on it; where a stub counts on a word    *)
(* that is not there (Normal), nothing is claimed.                         *)
(*                                                                         *)
(* The memory manager, for a heap of any size, any header size and any     *)
(* requests. The argument is local: Split and Absorb, the only two changes *)
(* of the list, keep it linked (SplitLinked, AbsorbLinked) because each    *)
(* rewrites one chunk and its neighbours and leaves every other field alone.*)
(***************************************************************************)
EXTENDS MemoryManager, InterruptStubs, TLAPS, SequenceTheorems

USE MainAssumption, VectorsAssumption

(* What a word on a stack or in a register is, and whose.                  *)
Kinds == {"eax", "ebx", "ecx", "edx", "esi", "edi", "ebp", "error", "zero", "unset",
          "changed", "code", "selector", "flags", "iret"}
Words == [is : Kinds, whose : Owners]
Registers == [1 .. 7 -> Words]

(* Words lie on the stack from its place k on.                             *)
FrameAt(o, k) ==
    /\ Len(stack[o]) >= k + 2
    /\ stack[o][k] = left[o].at
    /\ stack[o][k + 1] = Selector
    /\ stack[o][k + 2] = Flags(o)

(* The frame of a thread that was left: what Restore and Return look for.  *)
SavedFrame(o) ==
    /\ FrameAt(o, 9)
    /\ \A k \in 1 .. 7 : stack[o][k] = left[o].registers[k]

(* The stub counts on no word that the processor did not push.             *)
Normal == Gate(vector) = "HandleException" => vector \in WithCode

(* The types of stacks, registers and what history keeps.                  *)
StubTypeOK ==
    /\ stack \in [Owners -> Seq(Words)]
    /\ running \in Owners
    /\ registers \in Registers
    /\ at \in Words
    /\ step \in {"run", "stub", "handle", "restore", "iret", "fault"}
    /\ vector \in 0 .. 255
    /\ left \in [Owners -> [registers : Registers, at : Words]]

(* In each step of an interrupt, what the next steps look for is there.    *)
StubInv ==
    /\ StubTypeOK
    /\ \A o \in Owners \ {Main, running} : SavedFrame(o)
    /\ step = "stub" =>
         /\ Gate(vector) # "InterruptIgnore"
         /\ registers = left[running].registers
         /\ FrameAt(running, IF vector \in WithCode THEN 2 ELSE 1)
    /\ step \in {"handle", "restore"} =>
         /\ Len(stack[running]) >= 10
         /\ Normal => SavedFrame(running)
    /\ step = "iret" =>
         /\ Len(stack[running]) >= 2
         /\ Normal => /\ registers = left[running].registers
                      /\ FrameAt(running, 1)

(* Words and registers of an owner.                                        *)
LEMMA WordType == ASSUME NEW is \in Kinds, NEW o \in Owners
                  PROVE  Word(is, o) \in Words
  BY DEF Word, Words

(* A thread starts with registers of its own.                              *)
LEMMA OwnType == ASSUME NEW o \in Owners
                 PROVE  Own(o) \in Registers /\ Own(o) \in Seq(Words) /\ Len(Own(o)) = 7
  <1>1. ASSUME NEW k \in 1 .. 7
        PROVE  Names[k] \in Kinds
    <2>1. k \in {1, 2, 3, 4, 5, 6, 7}
      OBVIOUS
    <2> QED  BY <2>1 DEF Names, Kinds
  <1>2. \A k \in 1 .. 7 : Word(Names[k], o) \in Words
    BY <1>1, WordType
  <1>3. Own(o) \in [1 .. 7 -> Words]
    BY <1>2 DEF Own
  <1>4. Own(o) \in Seq(Words)
    <2>1. Own(o) \in UNION {[1 .. n -> Words] : n \in Nat}
      BY <1>3
    <2> QED  BY <2>1, SeqDef
  <1>5. Len(Own(o)) = 7
    BY <1>3, <1>4, LenProperties
  <1> QED  BY <1>3, <1>4, <1>5 DEF Registers

(* Words put on a stack: they come first, what was there lies below.       *)
LEMMA Pushed ==
    ASSUME StubTypeOK, NEW words \in Seq(Words), Push(words)
    PROVE  /\ stack' \in [Owners -> Seq(Words)]
           /\ \A o \in Owners \ {running} : stack'[o] = stack[o]
           /\ Len(stack'[running]) = Len(words) + Len(stack[running])
           /\ \A k \in 1 .. Len(words) : stack'[running][k] = words[k]
           /\ \A k \in 1 .. Len(stack[running]) :
                 stack'[running][Len(words) + k] = stack[running][k]
  <1> DEFINE s == stack[running]
  <1>1. s \in Seq(Words) /\ running \in Owners
    BY DEF StubTypeOK
  <1>2. /\ words \o s \in Seq(Words)
        /\ Len(words \o s) = Len(words) + Len(s)
        /\ \A k \in 1 .. Len(words) + Len(s) :
              (words \o s)[k] = IF k <= Len(words) THEN words[k] ELSE s[k - Len(words)]
    BY <1>1, ConcatProperties
  <1>3. stack'[running] = words \o s
    BY <1>1 DEF Push, StubTypeOK
  <1>4. Len(words) \in Nat /\ Len(s) \in Nat
    BY <1>1, LenProperties
  <1>5. \A k \in 1 .. Len(words) : (words \o s)[k] = words[k]
    BY <1>2, <1>4
  <1>6. ASSUME NEW k \in 1 .. Len(s)
        PROVE  (words \o s)[Len(words) + k] = s[k]
    BY <1>2, <1>4
  <1>7. stack' \in [Owners -> Seq(Words)] /\ \A o \in Owners \ {running} : stack'[o] = stack[o]
    BY <1>1, <1>2 DEF Push, StubTypeOK
  <1> QED  BY <1>2, <1>3, <1>5, <1>6, <1>7

(* Words taken off a stack.                                                *)
LEMMA Dropped ==
    ASSUME StubTypeOK, NEW n \in Nat, Drop(n)
    PROVE  /\ stack' \in [Owners -> Seq(Words)]
           /\ \A o \in Owners \ {running} : stack'[o] = stack[o]
           /\ n <= Len(stack[running]) =>
                 /\ Len(stack'[running]) = Len(stack[running]) - n
                 /\ \A k \in 1 .. Len(stack[running]) - n :
                       stack'[running][k] = stack[running][n + k]
  <1> DEFINE s == stack[running]
             t == SubSeq(s, n + 1, Len(s))
  <1>1. s \in Seq(Words) /\ running \in Owners
    BY DEF StubTypeOK
  <1>2. Len(s) \in Nat /\ \A k \in n + 1 .. Len(s) : s[k] \in Words
    BY <1>1, LenProperties, ElementOfSeq
  <1>3. /\ t \in Seq(Words)
        /\ Len(t) = IF n + 1 <= Len(s) THEN Len(s) - (n + 1) + 1 ELSE 0
        /\ \A i \in 1 .. Len(s) - (n + 1) + 1 : t[i] = s[n + 1 + i - 1]
    <2>1. n + 1 \in Int /\ Len(s) \in Int
      BY <1>2
    <2> QED BY <2>1, <1>2, SubSeqProperties
  <1>4. stack'[running] = t
    BY <1>1 DEF Drop, StubTypeOK
  <1>5. stack' \in [Owners -> Seq(Words)] /\ \A o \in Owners \ {running} : stack'[o] = stack[o]
    BY <1>1, <1>3 DEF Drop, StubTypeOK
  <1>6. ASSUME n <= Len(s)
        PROVE  Len(t) = Len(s) - n /\ \A k \in 1 .. Len(s) - n : t[k] = s[n + k]
    <2>1. Len(t) = Len(s) - n
      BY <1>2, <1>3, <1>6
    <2>2. ASSUME NEW k \in 1 .. Len(s) - n
          PROVE  t[k] = s[n + k]
      <3>1. k \in 1 .. Len(s) - (n + 1) + 1 /\ n + 1 + k - 1 = n + k
        BY <1>2
      <3> QED BY <3>1, <1>3
    <2> QED BY <2>1, <2>2
  <1> HIDE DEF t
  <1> QED  BY <1>4, <1>5, <1>6
(* The words of a frame.                                                   *)
LEMMA FrameWords ==
    ASSUME NEW o \in Owners
    PROVE  /\ Code(o) \in Words /\ Selector \in Words /\ Flags(o) \in Words
           /\ Word("unset", o) \in Words /\ Word("error", o) \in Words
           /\ Word("zero", o) \in Words /\ Word("changed", o) \in Words
           /\ Iret \in Words
  <1> USE DEF Kinds
  <1> QED  BY WordType DEF Code, Selector, Flags, Iret

(* The frame of a new task.                                                *)
LEMMA TaskFrameWords ==
    ASSUME NEW o \in Owners
    PROVE  /\ TaskFrame(o) \in Seq(Words) /\ Len(TaskFrame(o)) = 11
           /\ \A k \in 1 .. 7 : TaskFrame(o)[k] = Own(o)[k]
           /\ TaskFrame(o)[9] = Code(o)
           /\ TaskFrame(o)[10] = Selector
           /\ TaskFrame(o)[11] = Flags(o)
  <1> DEFINE rest == <<Word("unset", o), Code(o), Selector, Flags(o)>>
  <1>1. rest \in Seq(Words)
    BY FrameWords
  <1>2. Len(rest) = 4 /\ rest[2] = Code(o) /\ rest[3] = Selector /\ rest[4] = Flags(o)
    OBVIOUS
  <1>3. Own(o) \in Seq(Words) /\ Len(Own(o)) = 7
    BY OwnType
  <1> HIDE DEF rest
  <1>4. /\ Own(o) \o rest \in Seq(Words)
        /\ Len(Own(o) \o rest) = Len(Own(o)) + Len(rest)
        /\ \A k \in 1 .. Len(Own(o)) + Len(rest) :
              (Own(o) \o rest)[k] =
                  IF k <= Len(Own(o)) THEN Own(o)[k] ELSE rest[k - Len(Own(o))]
    BY <1>1, <1>3, ConcatProperties
  <1>5. TaskFrame(o) = Own(o) \o rest
    BY DEF TaskFrame, rest
  <1>6. \A k \in 1 .. 11 : TaskFrame(o)[k] = IF k <= 7 THEN Own(o)[k] ELSE rest[k - 7]
    <2>1. 1 .. Len(Own(o)) + Len(rest) = 1 .. 11
      BY <1>2, <1>3
    <2> QED  BY <1>3, <1>4, <1>5, <2>1
  <1>7. TaskFrame(o) \in Seq(Words) /\ Len(TaskFrame(o)) = 11
    BY <1>2, <1>3, <1>4, <1>5
  <1>8. /\ TaskFrame(o)[9] = rest[2] /\ TaskFrame(o)[10] = rest[3]
        /\ TaskFrame(o)[11] = rest[4]
    BY <1>6
  <1> QED  BY <1>2, <1>6, <1>7, <1>8

(* The invariant holds before the first interrupt.                         *)
LEMMA StubInitInv == StubInit => StubInv
  <1> SUFFICES ASSUME StubInit
               PROVE  StubInv
    OBVIOUS
  <1>1. ASSUME NEW o \in Owners
        PROVE  /\ stack[o] \in Seq(Words)
               /\ left[o] \in [registers : Registers, at : Words]
    <2>1. <<>> \in Seq(Words)
      OBVIOUS
    <2>2. stack[o] = IF o = Main THEN <<>> ELSE TaskFrame(o)
      BY DEF StubInit
    <2>3. left[o] = [registers |-> Own(o), at |-> Code(o)]
      BY DEF StubInit
    <2> QED  BY <2>1, <2>2, <2>3, OwnType, FrameWords, TaskFrameWords
  <1>2. stack \in [Owners -> Seq(Words)] /\ left \in [Owners -> [registers : Registers, at : Words]]
    BY <1>1 DEF StubInit
  <1>3. registers \in Registers /\ at \in Words
    BY OwnType, FrameWords DEF StubInit
  <1>4. StubTypeOK
    BY <1>2, <1>3 DEF StubInit, StubTypeOK
  <1>5. ASSUME NEW o \in Owners, o # Main
        PROVE  SavedFrame(o)
    <2>1. stack[o] = TaskFrame(o) /\ left[o] = [registers |-> Own(o), at |-> Code(o)]
      BY <1>5 DEF StubInit
    <2> QED  BY <2>1, TaskFrameWords DEF SavedFrame, FrameAt
  <1> QED  BY <1>4, <1>5 DEF StubInv, StubInit

(* What a step leaves of the stack and the record of another thread.       *)
LEMMA SavedStays ==
    ASSUME NEW o, stack'[o] = stack[o], left'[o] = left[o], SavedFrame(o)
    PROVE  SavedFrame(o)'
  BY DEF SavedFrame, FrameAt

(* The processor enters a gate: the thread's place and registers are       *)
(* recorded, and its frame's last three words are on the stack.            *)
LEMMA EnterInv ==
    ASSUME StubInv, NEW v \in 0 .. 255, NEW place \in Words, Enter(v, place)
    PROVE  StubInv'
  <1> DEFINE frame == <<place, Selector, Flags(running)>>
             code == IF v \in WithCode THEN <<Word("error", running)>> ELSE <<>>
             words == code \o frame
  <1>0. StubTypeOK /\ running \in Owners /\ registers \in Registers
    BY DEF StubInv, StubTypeOK
  <1>1. frame \in Seq(Words) /\ Len(frame) = 3 /\ frame[1] = place
        /\ frame[2] = Selector /\ frame[3] = Flags(running)
    BY <1>0, FrameWords
  <1>2. code \in Seq(Words) /\ Len(code) = IF v \in WithCode THEN 1 ELSE 0
    BY <1>0, FrameWords
  <1> HIDE DEF frame, code
  <1>3. /\ words \in Seq(Words)
        /\ Len(words) = Len(code) + Len(frame)
        /\ \A k \in 1 .. Len(code) + Len(frame) :
              words[k] = IF k <= Len(code) THEN code[k] ELSE frame[k - Len(code)]
    BY <1>1, <1>2, ConcatProperties
  <1> DEFINE n == IF v \in WithCode THEN 2 ELSE 1
  <1>4. Len(words) = n + 2 /\ words[n] = place /\ words[n + 1] = Selector
        /\ words[n + 2] = Flags(running)
    <2>1. CASE v \in WithCode
      BY <2>1, <1>1, <1>2, <1>3
    <2>2. CASE v \notin WithCode
      <3>1. Len(code) = 0 /\ Len(code) + Len(frame) = 3 /\ n = 1
        BY <2>2, <1>1, <1>2
      <3>2. \A k \in {1, 2, 3} : k \in 1 .. 3 /\ ~(k <= 0) /\ k - 0 = k
        OBVIOUS
      <3>3. Len(words) = 3 /\ \A k \in {1, 2, 3} : words[k] = frame[k]
        BY <1>3, <3>1, <3>2
      <3>4. /\ Len(words) = 3 /\ words[1] = place /\ words[2] = Selector
            /\ words[3] = Flags(running)
        BY <1>1, <3>3
      <3>5. n = 1 /\ n + 1 = 2 /\ n + 2 = 3
        BY <3>1
      <3> HIDE DEF n, words
      <3> QED  BY <3>4, <3>5
    <2> QED  BY <2>1, <2>2
  <1>5. Push(words)
    BY DEF Enter, words, frame, code
  <1> HIDE DEF words
  <1>6. /\ stack' \in [Owners -> Seq(Words)]
        /\ \A o \in Owners \ {running} : stack'[o] = stack[o]
        /\ Len(stack'[running]) = Len(words) + Len(stack[running])
        /\ \A k \in 1 .. Len(words) : stack'[running][k] = words[k]
    BY <1>0, <1>3, <1>5, Pushed
  <1>7. /\ left' = [left EXCEPT ![running] = [registers |-> registers, at |-> place]]
        /\ vector' = v /\ at' = place /\ running' = running /\ registers' = registers
        /\ step' = IF Gate(v) = "InterruptIgnore" THEN "iret" ELSE "stub"
    BY DEF Enter
  <1>8. StubTypeOK'
    BY <1>0, <1>6, <1>7 DEF StubTypeOK
  <1>9. left'[running] = [registers |-> registers, at |-> place]
        /\ \A o \in Owners \ {running} : left'[o] = left[o]
    BY <1>0, <1>7 DEF StubTypeOK
  <1>10. FrameAt(running, n)'
    <2>1. Len(stack[running]) \in Nat
      BY <1>0, LenProperties DEF StubTypeOK
    <2>2. n \in 1 .. Len(words) /\ n + 1 \in 1 .. Len(words) /\ n + 2 \in 1 .. Len(words)
      BY <1>4
    <2> HIDE DEF n
    <2>3. n \in Nat
      BY DEF n
    <2>4. Len(stack'[running]) >= n + 2
      <3>1. Len(stack'[running]) = n + 2 + Len(stack[running])
        BY <1>4, <1>6
      <3>2. \A a, b \in Nat : a + 2 + b >= a + 2
        OBVIOUS
      <3>3. n + 2 + Len(stack[running]) >= n + 2
        BY <2>1, <2>3, <3>2
      <3> QED  BY ONLY <3>1, <3>3
    <2>5. /\ stack'[running][n] = place /\ stack'[running][n + 1] = Selector
          /\ stack'[running][n + 2] = Flags(running)
      BY <1>4, <1>6, <2>2
    <2> QED  BY <1>7, <1>9, <2>4, <2>5 DEF FrameAt, Flags, Selector, Word
  <1>11. \A o \in Owners \ {Main, running'} : SavedFrame(o)'
    BY <1>6, <1>7, <1>9, SavedStays DEF StubInv
  <1>12. Gate(v) = "InterruptIgnore" => v \notin WithCode
    BY DEF Gate, WithCode
  <1>13. CASE Gate(v) = "InterruptIgnore"
    <2>1. FrameAt(running, 1)'
      BY <1>10, <1>12, <1>13
    <2>2. Len(stack'[running']) >= 2
      BY <2>1, <1>7, <1>8, LenProperties DEF FrameAt, StubTypeOK
    <2> QED  BY <1>7, <1>8, <1>9, <1>11, <1>13, <2>1, <2>2 DEF StubInv
  <1>14. CASE Gate(v) # "InterruptIgnore"
    BY <1>7, <1>8, <1>9, <1>10, <1>11, <1>14 DEF StubInv
  <1> QED  BY <1>13, <1>14

(* Where the processor pushed no error code, HandleInterruptRequest's stub *)
(* pushes a word in its place: the frame lies where Restore looks for it.  *)
LEMMA StubKeepsInv ==
    ASSUME StubInv, Stub
    PROVE  StubInv'
  <1> DEFINE words == registers \o Filler
  <1>0. StubTypeOK /\ running \in Owners /\ registers \in Registers
    BY DEF StubInv, StubTypeOK
  <1>1. registers \in Seq(Words) /\ Len(registers) = 7
    <2>1. registers \in UNION {[1 .. n -> Words] : n \in Nat}
      BY <1>0 DEF Registers
    <2>2. registers \in Seq(Words)
      BY <2>1, SeqDef
    <2>3. DOMAIN registers = 1 .. 7
      BY <1>0 DEF Registers
    <2> QED  BY <2>2, <2>3, LenProperties
  <1>2. Filler \in Seq(Words) /\ Len(Filler) = IF Gate(vector) = "HandleInterruptRequest" THEN 1 ELSE 0
    BY <1>0, FrameWords DEF Filler
  <1>3. /\ words \in Seq(Words)
        /\ Len(words) = Len(registers) + Len(Filler)
        /\ \A k \in 1 .. Len(registers) + Len(Filler) :
              words[k] = IF k <= Len(registers) THEN registers[k]
                         ELSE Filler[k - Len(registers)]
    BY <1>1, <1>2, ConcatProperties
  <1>4. Len(words) = 7 + Len(Filler) /\ \A k \in 1 .. 7 : words[k] = registers[k]
    BY <1>1, <1>2, <1>3
  <1>5. Push(words)
    BY DEF Stub
  <1>6. /\ registers' = [k \in 1 .. 7 |->
                            IF Names[k] \in {"eax", "ecx", "edx"}
                            THEN Word("changed", running) ELSE registers[k]]
        /\ step = "stub" /\ step' = "handle"
        /\ running' = running /\ at' = at /\ vector' = vector /\ left' = left
    BY DEF Stub
  <1> HIDE DEF words
  <1>7. /\ stack' \in [Owners -> Seq(Words)]
        /\ \A o \in Owners \ {running} : stack'[o] = stack[o]
        /\ Len(stack'[running]) = Len(words) + Len(stack[running])
        /\ \A k \in 1 .. Len(words) : stack'[running][k] = words[k]
        /\ \A k \in 1 .. Len(stack[running]) :
              stack'[running][Len(words) + k] = stack[running][k]
    BY <1>0, <1>3, <1>5, Pushed
  <1>8. registers' \in Registers
    <2>1. \A k \in 1 .. 7 : registers[k] \in Words
      BY <1>0 DEF Registers
    <2>2. Word("changed", running) \in Words
      BY <1>0, FrameWords
    <2> QED  BY <1>6, <2>1, <2>2 DEF Registers
  <1>9. StubTypeOK'
    BY <1>0, <1>6, <1>7, <1>8 DEF StubTypeOK
  <1>10. /\ registers = left[running].registers
         /\ FrameAt(running, IF vector \in WithCode THEN 2 ELSE 1)
         /\ Gate(vector) \in {"HandleException", "HandleInterruptRequest"}
    BY <1>6 DEF StubInv, Gate
  <1>11. Len(stack[running]) \in Nat /\ Len(stack[running]) >= 3
    BY <1>0, <1>10, LenProperties DEF FrameAt, StubTypeOK
  <1>12. Len(stack'[running]) >= 10
    <2>1. Len(stack'[running]) = 7 + Len(Filler) + Len(stack[running])
      BY <1>4, <1>7
    <2>2. Len(Filler) \in {0, 1}
      BY <1>2
    <2>3. \A a \in {0, 1}, b \in Nat : b >= 3 => 7 + a + b >= 10
      OBVIOUS
    <2>4. 7 + Len(Filler) + Len(stack[running]) >= 10
      BY <2>2, <2>3, <1>11
    <2> QED  BY ONLY <2>1, <2>4
  <1>13. ASSUME Normal
         PROVE  SavedFrame(running)'
    <2>1. \A k \in 1 .. 7 : stack'[running][k] = left[running].registers[k]
      <3>1. \A k \in 1 .. 7 : k \in 1 .. Len(words)
        BY <1>2, <1>4
      <3> QED  BY <1>4, <1>7, <1>10, <3>1
    <2>2. CASE vector \in WithCode
      <3>1. Gate(vector) # "HandleInterruptRequest"
        BY <2>2 DEF WithCode, Gate
      <3>2. Len(words) = 7
        BY <3>1, <1>2, <1>4
      <3>3. FrameAt(running, 2)
        BY <2>2, <1>10
      <3>4. /\ Len(stack'[running]) >= 11
            /\ stack'[running][9] = stack[running][2]
            /\ stack'[running][10] = stack[running][3]
            /\ stack'[running][11] = stack[running][4]
        <4>1. Len(stack[running]) >= 4
          BY <3>3 DEF FrameAt
        <4>2. 2 \in 1 .. Len(stack[running]) /\ 3 \in 1 .. Len(stack[running])
              /\ 4 \in 1 .. Len(stack[running])
          BY <4>1, <1>11
        <4> QED  BY <3>2, <4>1, <4>2, <1>7, <1>11
      <3> QED  BY <1>6, <2>1, <3>3, <3>4 DEF SavedFrame, FrameAt, Flags, Selector, Word
    <2>3. CASE vector \notin WithCode
      <3>1. Gate(vector) = "HandleInterruptRequest"
        BY <2>3, <1>10, <1>13 DEF Normal
      <3>2. Len(words) = 8
        BY <3>1, <1>2, <1>4
      <3>3. FrameAt(running, 1)
        BY <2>3, <1>10
      <3>4. /\ Len(stack'[running]) >= 11
            /\ stack'[running][9] = stack[running][1]
            /\ stack'[running][10] = stack[running][2]
            /\ stack'[running][11] = stack[running][3]
        <4>2. 1 \in 1 .. Len(stack[running]) /\ 2 \in 1 .. Len(stack[running])
              /\ 3 \in 1 .. Len(stack[running])
          BY <1>11
        <4> QED  BY <3>2, <4>2, <1>7, <1>11
      <3> QED  BY <1>6, <2>1, <3>3, <3>4 DEF SavedFrame, FrameAt, Flags, Selector, Word
    <2> QED  BY <2>2, <2>3
  <1>14. \A o \in Owners \ {Main, running'} : SavedFrame(o)'
    BY <1>6, <1>7, SavedStays DEF StubInv
  <1>15. Normal' => Normal
    BY <1>6 DEF Normal
  <1> QED  BY <1>6, <1>9, <1>12, <1>13, <1>14, <1>15 DEF StubInv

(* Only the timer changes the stack, to one on which a frame waits.        *)
LEMMA HandleInterruptInv ==
    ASSUME StubInv, HandleInterrupt
    PROVE  StubInv'
  <1>1. /\ step = "handle" /\ step' = "restore" /\ stack' = stack /\ left' = left
        /\ registers' = registers /\ at' = at /\ vector' = vector
        /\ running' = running \/ (vector = Timer /\ running' \in Owners \ {Main})
    BY DEF HandleInterrupt
  <1>2. StubTypeOK'
    BY <1>1 DEF StubInv, StubTypeOK
  <1>3. \A o \in Owners : SavedFrame(o) => SavedFrame(o)'
    BY <1>1 DEF SavedFrame, FrameAt, Flags, Selector, Word
  <1>4. Normal' <=> Normal
    BY <1>1 DEF Normal
  <1>5. CASE running' = running
    BY <1>1, <1>2, <1>3, <1>4, <1>5 DEF StubInv, StubTypeOK
  <1>6. CASE vector = Timer /\ running' \in Owners \ {Main}
    <2>1. Normal
      BY <1>6 DEF Normal, Gate, Timer
    <2>2. \A o \in Owners \ {Main} : SavedFrame(o)
      BY <1>1, <2>1 DEF StubInv
    <2>3. SavedFrame(running')
      BY <1>6, <2>2
    <2>4. SavedFrame(running)'
      BY <2>3, <1>1 DEF SavedFrame, FrameAt, Flags, Selector, Word
    <2>5. Len(stack'[running']) >= 10
      <3>1. Len(stack'[running']) \in Nat
        BY <1>2, LenProperties DEF StubTypeOK
      <3>2. Len(stack'[running']) >= 11
        BY <2>4 DEF SavedFrame, FrameAt
      <3> QED  BY <3>1, <3>2
    <2> QED  BY <1>1, <1>2, <1>3, <2>2, <2>4, <2>5 DEF StubInv
  <1> QED  BY <1>1, <1>5, <1>6

(* The registers come back, and the next three words are iret's.           *)
LEMMA RestoreInv ==
    ASSUME StubInv, Restore
    PROVE  StubInv'
  <1> DEFINE s == stack[running]
  <1>0. StubTypeOK /\ running \in Owners
    BY DEF StubInv, StubTypeOK
  <1>1. /\ step = "restore" /\ step' = "iret" /\ running' = running /\ at' = at
        /\ vector' = vector /\ left' = left
        /\ registers' = SubSeq(s, 1, 7) /\ Drop(8)
    BY DEF Restore
  <1>2. s \in Seq(Words) /\ Len(s) \in Nat /\ Len(s) >= 10 /\ (Normal => SavedFrame(running))
    BY <1>0, <1>1, LenProperties DEF StubInv, StubTypeOK
  <1>3. \A k \in 1 .. 7 : s[k] \in Words
    BY <1>2, ElementOfSeq
  <1>4. /\ SubSeq(s, 1, 7) \in Seq(Words)
        /\ Len(SubSeq(s, 1, 7)) = 7
        /\ \A k \in 1 .. 7 : SubSeq(s, 1, 7)[k] = s[k]
    <2>1. /\ SubSeq(s, 1, 7) \in Seq(Words)
          /\ Len(SubSeq(s, 1, 7)) = IF 1 <= 7 THEN 7 - 1 + 1 ELSE 0
          /\ \A k \in 1 .. 7 - 1 + 1 : SubSeq(s, 1, 7)[k] = s[1 + k - 1]
      BY <1>3, SubSeqProperties
    <2> QED  BY <2>1
  <1>5. registers' \in Registers
    BY <1>1, <1>4, LenProperties DEF Registers
  <1>6. /\ stack' \in [Owners -> Seq(Words)]
        /\ \A o \in Owners \ {running} : stack'[o] = stack[o]
        /\ 8 <= Len(s) => /\ Len(stack'[running]) = Len(s) - 8
                          /\ \A k \in 1 .. Len(s) - 8 : stack'[running][k] = s[8 + k]
    BY <1>0, <1>1, Dropped
  <1>7. StubTypeOK'
    BY <1>0, <1>1, <1>5, <1>6 DEF StubTypeOK
  <1>8. \A o \in Owners \ {Main, running'} : SavedFrame(o)'
    BY <1>1, <1>6, SavedStays DEF StubInv
  <1>9. Len(stack'[running]) >= 2 /\ Len(stack'[running]) = Len(s) - 8
    BY <1>2, <1>6
  <1>10. ASSUME Normal
         PROVE  registers' = left[running].registers /\ FrameAt(running, 1)'
    <2>1. SavedFrame(running) /\ Len(s) >= 11
      BY <1>2, <1>10 DEF SavedFrame, FrameAt
    <2>2. left[running].registers \in Registers
      BY <1>0 DEF StubTypeOK
    <2>3. registers' = left[running].registers
      <3>1. \A k \in 1 .. 7 : registers'[k] = left[running].registers[k]
        BY <1>1, <1>4, <2>1 DEF SavedFrame
      <3> QED  BY <1>5, <2>2, <3>1 DEF Registers
    <2>4. 1 \in 1 .. Len(s) - 8 /\ 2 \in 1 .. Len(s) - 8 /\ 3 \in 1 .. Len(s) - 8
      BY <2>1, <1>2
    <2>5. /\ stack'[running][1] = s[9] /\ stack'[running][2] = s[10]
          /\ stack'[running][3] = s[11] /\ Len(stack'[running]) >= 3
      BY <1>2, <1>6, <1>9, <2>1, <2>4
    <2>6. FrameAt(running, 1)'
      BY <1>1, <2>1, <2>5 DEF SavedFrame, FrameAt, Flags, Selector, Word
    <2> QED  BY <2>3, <2>6
  <1>11. Normal' => Normal
    BY <1>1 DEF Normal
  <1> QED  BY <1>1, <1>7, <1>8, <1>9, <1>10, <1>11 DEF StubInv

(* An iret that does not fault.                                            *)
LEMMA ReturnInv ==
    ASSUME StubInv, Return
    PROVE  StubInv'
  <1>0. StubTypeOK /\ running \in Owners
    BY DEF StubInv, StubTypeOK
  <1>1. /\ step = "iret" /\ step' \in {"run", "fault"} /\ running' = running
        /\ registers' = registers /\ vector' = vector /\ left' = left
        /\ at' = Head(stack[running]) /\ Drop(3)
    BY DEF Return
  <1>2. stack[running] \in Seq(Words) /\ Len(stack[running]) >= 2
    BY <1>0, <1>1 DEF StubInv, StubTypeOK
  <1>3. stack[running] # <<>>
    <2>1. Len(<<>>) = 0
      OBVIOUS
    <2> QED  BY <1>2, <2>1
  <1>4. at' \in Words
    BY <1>1, <1>2, <1>3, HeadTailProperties
  <1>5. /\ stack' \in [Owners -> Seq(Words)]
        /\ \A o \in Owners \ {running} : stack'[o] = stack[o]
    BY <1>0, <1>1, Dropped
  <1>6. StubTypeOK'
    BY <1>0, <1>1, <1>4, <1>5 DEF StubTypeOK
  <1>7. \A o \in Owners \ {Main, running'} : SavedFrame(o)'
    BY <1>1, <1>5, SavedStays DEF StubInv
  <1> QED  BY <1>1, <1>6, <1>7 DEF StubInv

(* Every step keeps the invariant.                                         *)
LEMMA StubNextInv == StubInv /\ [StubNext]_stubVars => StubInv'
  <1> SUFFICES ASSUME StubInv, [StubNext]_stubVars
               PROVE  StubInv'
    OBVIOUS
  <1>1. ASSUME NEW v \in Vectors, Interrupted(v)
        PROVE  StubInv'
    BY <1>1, EnterInv DEF Interrupted, StubInv, StubTypeOK
  <1>2. CASE IretFaults
    <2>1. Iret \in Words /\ GeneralProtection \in 0 .. 255
      BY FrameWords DEF GeneralProtection
    <2> QED  BY <1>2, <2>1, EnterInv DEF IretFaults
  <1>3. CASE UNCHANGED stubVars
    BY <1>3 DEF stubVars, StubInv, StubTypeOK, SavedFrame, FrameAt, Normal, Flags, Selector, Word
  <1> QED  BY <1>1, <1>2, <1>3, StubKeepsInv, HandleInterruptInv, RestoreInv, ReturnInv
           DEF StubNext, Serve

(* StubInv holds in every reachable state.                                 *)
THEOREM StubInvariance == StubSpec => []StubInv
  BY StubInitInv, StubNextInv, PTL DEF StubSpec

(* Every iret finds the frame and the registers of its thread.             *)
THEOREM FramesAlwaysReturn == StubSpec => []FramesReturn
  <1>1. StubInv => FramesReturn
    <2> SUFFICES ASSUME StubInv, step = "iret", Normal
                 PROVE  /\ registers = left[running].registers
                        /\ IsPrefix(<<left[running].at, Selector, Flags(running)>>, stack[running])
      BY DEF FramesReturn, Normal
    <2> DEFINE t == <<left[running].at, Selector, Flags(running)>>
               s == stack[running]
    <2>1. registers = left[running].registers /\ FrameAt(running, 1)
      BY DEF StubInv
    <2>2. s \in Seq(Words) /\ Len(s) \in Nat /\ left[running].at \in Words /\ running \in Owners
      BY LenProperties DEF StubInv, StubTypeOK
    <2>3. t \in Seq(Words) /\ Len(t) = 3 /\ t[1] = left[running].at /\ t[2] = Selector
          /\ t[3] = Flags(running)
      BY <2>2, FrameWords
    <2>4. Len(s) >= 3 /\ s[1] = left[running].at /\ s[2] = Selector /\ s[3] = Flags(running)
      BY <2>1 DEF FrameAt
    <2> HIDE DEF t, s
    <2>5. SubSeq(t, 1, 3) = t
      BY <2>3, SubSeqFull
    <2>6. \A k \in 1 .. 3 : s[k] \in Words
      BY <2>2, <2>4, ElementOfSeq
    <2>7. /\ SubSeq(s, 1, 3) \in Seq(Words)
          /\ Len(SubSeq(s, 1, 3)) = 3
          /\ \A k \in 1 .. 3 : SubSeq(s, 1, 3)[k] = s[k]
      <3>1. /\ SubSeq(s, 1, 3) \in Seq(Words)
            /\ Len(SubSeq(s, 1, 3)) = IF 1 <= 3 THEN 3 - 1 + 1 ELSE 0
            /\ \A k \in 1 .. 3 - 1 + 1 : SubSeq(s, 1, 3)[k] = s[1 + k - 1]
        BY <2>6, SubSeqProperties
      <3> QED  BY <3>1
    <2>8. ASSUME NEW k \in 1 .. 3
          PROVE  t[k] = SubSeq(s, 1, 3)[k]
      <3>1. k \in {1, 2, 3}
        OBVIOUS
      <3>2. SubSeq(s, 1, 3)[k] = s[k]
        BY <2>7
      <3> QED  BY <3>1, <3>2, <2>3, <2>4
    <2>9. t = SubSeq(s, 1, 3)
      BY <2>3, <2>7, <2>8, SeqEqual
    <2>10. IsPrefix(t, s)
      BY <2>2, <2>3, <2>4, <2>5, <2>9 DEF IsPrefix
    <2> QED  BY <2>1, <2>10 DEF t, s
  <1> QED  BY <1>1, StubInvariance, PTL
-----------------------------------------------------------------------------

USE HeapAssumption, HeaderAssumption, SizesAssumption

-----------------------------------------------------------------------------
(* Types of the fields of a well-typed chunk map.                          *)
LEMMA FieldTypes ==
    ASSUME NEW m, ChunkTypes(m), NEW c \in DOMAIN m
    PROVE  /\ c \in Nat /\ c >= HeapStart /\ c <= HeapEnd /\ c # NULL
           /\ m[c] \in MemoryChunk
           /\ m[c].next \in Nat /\ m[c].prev \in Nat
           /\ m[c].allocated \in BOOLEAN
           /\ m[c].size \in Nat
           /\ m[c] = [next |-> m[c].next, prev |-> m[c].prev,
                      allocated |-> m[c].allocated, size |-> m[c].size]
BY DEF ChunkTypes, MemoryChunk, Address, HeapEnd, NULL

(* Every chunk of a linked map lies inside the heap.                       *)
LEMMA EndInHeap ==
    ASSUME NEW m, Linked(m), NEW c \in DOMAIN m
    PROVE  End(m, c) \in Nat /\ End(m, c) <= HeapEnd /\ End(m, c) > c
<1>1. ChunkTypes(m) /\ NextLinks(m)
  BY DEF Linked
<1>2. m[c].size \in Nat /\ c \in Nat
  BY <1>1, FieldTypes
<1>3. CASE m[c].next = NULL /\ End(m, c) = HeapEnd
  BY <1>2, <1>3 DEF End, HeapEnd
<1>4. CASE m[c].next = End(m, c) /\ m[c].next \in DOMAIN m
  BY <1>1, <1>2, <1>4, FieldTypes DEF End
<1> QED
  BY <1>1, <1>3, <1>4 DEF NextLinks

(* s has a chunk record at each header, and an explicit domain.            *)
ChunkRecords(s) ==
    /\ s = [d \in DOMAIN s |-> s[d]]
    /\ \A d \in DOMAIN s :
          s[d] = [next |-> s[d].next, prev |-> s[d].prev,
                  allocated |-> s[d].allocated, size |-> s[d].size]

(* A chunk map is well typed when its fields are.                          *)
LEMMA TypesFromFields ==
    ASSUME NEW s, ChunkRecords(s), DOMAIN s \subseteq Address,
           HeapSize >= Header => HeapStart \in DOMAIN s,
           \A d \in DOMAIN s : /\ s[d].next \in Address \union {NULL}
                               /\ s[d].prev \in Address \union {NULL}
                               /\ s[d].allocated \in BOOLEAN
                               /\ s[d].size \in 0 .. HeapSize
    PROVE  ChunkTypes(s)
<1>1. ASSUME NEW d \in DOMAIN s PROVE s[d] \in MemoryChunk
  <2>1. s[d] = [next |-> s[d].next, prev |-> s[d].prev,
                allocated |-> s[d].allocated, size |-> s[d].size]
    BY DEF ChunkRecords
  <2> QED
    BY <2>1 DEF MemoryChunk
<1>2. s = [d \in DOMAIN s |-> s[d]]
  BY DEF ChunkRecords
<1> QED
  BY <1>1, <1>2 DEF ChunkTypes

(* s is m with c cut at size and the chunk temp behind it, field by field. *)
SplitOf(s, m, c, size, temp) ==
    /\ DOMAIN s = DOMAIN m \union {temp}
    /\ s[temp].next = m[c].next
    /\ s[temp].prev = c
    /\ s[temp].allocated = FALSE
    /\ s[temp].size = m[c].size - size - Header
    /\ \A d \in DOMAIN m :
          /\ s[d].next = IF d = c THEN temp ELSE m[d].next
          /\ s[d].prev = IF d = m[c].next THEN temp ELSE m[d].prev
          /\ s[d].allocated = m[d].allocated
          /\ s[d].size = IF d = c THEN size ELSE m[d].size

(* temp falls inside the chunk it is cut from.                             *)
TempInside(m, c, temp) ==
    /\ temp \notin DOMAIN m
    /\ temp > c /\ temp < End(m, c)
    /\ temp \in Address /\ temp \in Nat

(* What Split does to every field, chunk by chunk.                         *)
LEMMA SplitFields ==
    ASSUME NEW m, Linked(m), NEW c \in DOMAIN m, NEW size \in Nat,
           m[c].size >= size + Header + 1
    PROVE  /\ TempInside(m, c, Temp(c, size))
           /\ SplitOf(Split(m, c, size), m, c, size, Temp(c, size))
           /\ ChunkRecords(Split(m, c, size))
<1> DEFINE temp == Temp(c, size)
           s == Split(m, c, size)
<1>a. temp = c + Header + size
  BY DEF Temp
<1>b. s = [d \in DOMAIN m \union {temp} |->
              IF d = temp
              THEN [next |-> m[c].next, prev |-> c, allocated |-> FALSE,
                    size |-> m[c].size - size - Header]
              ELSE [m[d] EXCEPT !.next = IF d = c THEN temp ELSE @,
                                !.size = IF d = c THEN size ELSE @,
                                !.prev = IF d = m[c].next THEN temp ELSE @]]
  BY DEF Split
<1> HIDE DEF temp, s
<1>1. ChunkTypes(m) /\ ChunksApart(m)
  BY DEF Linked
<1>2. m[c].size \in Nat /\ c \in Nat
  BY <1>1, FieldTypes
<1>3. temp > c /\ temp < End(m, c) /\ temp \in Nat
  BY <1>2, <1>a DEF End
<1>4. temp \notin DOMAIN m
  <2> SUFFICES ASSUME NEW d \in DOMAIN m, d = temp PROVE FALSE
    OBVIOUS
  <2>1. d > c
    BY <1>3
  <2> QED
    BY <2>1, <1>1, <1>2, <1>3 DEF ChunksApart, End
<1>5. temp \in Address
  BY <1>1, <1>2, <1>3, EndInHeap, FieldTypes DEF Address, HeapEnd
<1>6. DOMAIN s = DOMAIN m \union {temp} /\ s = [d \in DOMAIN s |-> s[d]]
  BY <1>b
<1>7. s[temp] = [next |-> m[c].next, prev |-> c, allocated |-> FALSE,
                 size |-> m[c].size - size - Header]
  BY <1>b
<1>8. ASSUME NEW d \in DOMAIN m
      PROVE  s[d] = [next |-> IF d = c THEN temp ELSE m[d].next,
                     prev |-> IF d = m[c].next THEN temp ELSE m[d].prev,
                     allocated |-> m[d].allocated,
                     size |-> IF d = c THEN size ELSE m[d].size]
  <2>1. d # temp
    BY <1>4
  <2>2. s[d] = [m[d] EXCEPT !.next = IF d = c THEN temp ELSE @,
                            !.size = IF d = c THEN size ELSE @,
                            !.prev = IF d = m[c].next THEN temp ELSE @]
    BY <2>1, <1>b
  <2>3. m[d] = [next |-> m[d].next, prev |-> m[d].prev,
                allocated |-> m[d].allocated, size |-> m[d].size]
    BY <1>1, FieldTypes
  <2> QED
    BY <2>2, <2>3
<1>9. TempInside(m, c, temp)
  BY <1>3, <1>4, <1>5 DEF TempInside
<1>10. ASSUME NEW d \in DOMAIN m
       PROVE  /\ s[d].next = IF d = c THEN temp ELSE m[d].next
              /\ s[d].prev = IF d = m[c].next THEN temp ELSE m[d].prev
              /\ s[d].allocated = m[d].allocated
              /\ s[d].size = IF d = c THEN size ELSE m[d].size
  <2>1. s[d] = [next |-> IF d = c THEN temp ELSE m[d].next,
                prev |-> IF d = m[c].next THEN temp ELSE m[d].prev,
                allocated |-> m[d].allocated,
                size |-> IF d = c THEN size ELSE m[d].size]
    BY <1>8
  <2> QED
    BY <2>1
<1>11. SplitOf(s, m, c, size, temp)
  BY <1>6, <1>7, <1>10 DEF SplitOf
<1>12. ASSUME NEW d \in DOMAIN s
       PROVE  s[d] = [next |-> s[d].next, prev |-> s[d].prev,
                      allocated |-> s[d].allocated, size |-> s[d].size]
  <2>1. CASE d = temp
    BY <2>1, <1>7
  <2>2. CASE d \in DOMAIN m
    <3>1. s[d] = [next |-> IF d = c THEN temp ELSE m[d].next,
                  prev |-> IF d = m[c].next THEN temp ELSE m[d].prev,
                  allocated |-> m[d].allocated,
                  size |-> IF d = c THEN size ELSE m[d].size]
      BY <2>2, <1>8
    <3> QED
      BY <3>1
  <2> QED
    BY <2>1, <2>2, <1>6
<1>13. ChunkRecords(s)
  BY <1>6, <1>12 DEF ChunkRecords
<1> QED
  BY <1>9, <1>11, <1>13 DEF s, temp

(* malloc's split keeps the list linked.                                   *)
LEMMA SplitLinked ==
    ASSUME NEW m, Linked(m), NEW c \in DOMAIN m, NEW size \in Nat,
           m[c].size >= size + Header + 1
    PROVE  Linked(Split(m, c, size))
<1> DEFINE temp == Temp(c, size)
           s == Split(m, c, size)
<1>1. ChunkTypes(m) /\ NextLinks(m) /\ PrevLinks(m) /\ ChunksApart(m)
  BY DEF Linked
<1>2. TempInside(m, c, temp) /\ SplitOf(s, m, c, size, temp) /\ ChunkRecords(s)
  BY SplitFields
<1>2a. /\ temp \notin DOMAIN m
       /\ temp > c /\ temp < End(m, c) /\ temp \in Address /\ temp \in Nat
  BY <1>2 DEF TempInside
<1>2b. temp = c + Header + size
  BY DEF Temp
<1> HIDE DEF s, temp
<1>3. \A d \in DOMAIN m : /\ d \in Nat /\ d # NULL /\ d >= HeapStart
                          /\ m[d].allocated \in BOOLEAN
                          /\ m[d].size \in Nat
  BY <1>1, FieldTypes
<1>4. End(s, temp) = End(m, c) /\ End(s, c) = temp
  BY <1>2, <1>2a, <1>2b, <1>3 DEF End, SplitOf
<1>5. \A d \in DOMAIN m \ {c} : End(s, d) = End(m, d)
  BY <1>2 DEF End, SplitOf
<1>5a. m[c].next # c /\ \A d \in DOMAIN m : m[d].next = m[c].next => d = c \/ m[d].next = NULL
  BY <1>1, <1>3 DEF NextLinks, End
<1>6. ChunkTypes(s)
  <2>1. DOMAIN s \subseteq Address
    BY <1>1, <1>2, <1>2a DEF ChunkTypes, SplitOf
  <2>2. HeapSize >= Header => HeapStart \in DOMAIN s
    BY <1>1, <1>2 DEF ChunkTypes, SplitOf
  <2>3. \A d \in DOMAIN m : /\ m[d].next \in Address \union {NULL}
                            /\ m[d].prev \in Address \union {NULL}
                            /\ m[d].size \in 0 .. HeapSize
    BY <1>1 DEF ChunkTypes, MemoryChunk
  <2>4. size \in 0 .. HeapSize /\ m[c].size - size - Header \in 0 .. HeapSize
    BY <2>3
  <2>5. c \in Address
    BY <1>1 DEF ChunkTypes
  <2>6. ASSUME NEW d \in DOMAIN s
        PROVE  /\ s[d].next \in Address \union {NULL}
               /\ s[d].prev \in Address \union {NULL}
               /\ s[d].allocated \in BOOLEAN
               /\ s[d].size \in 0 .. HeapSize
    <3>1. CASE d = temp
      BY <3>1, <2>3, <2>4, <2>5, <1>2 DEF SplitOf
    <3>2. CASE d \in DOMAIN m
      BY <3>2, <2>3, <2>4, <1>2, <1>2a, <1>3 DEF SplitOf
    <3> QED
      BY <3>1, <3>2, <1>2 DEF SplitOf
  <2> QED
    BY <2>1, <2>2, <2>6, <1>2, TypesFromFields
<1>7. NextLinks(s)
  <2> SUFFICES ASSUME NEW d \in DOMAIN s
               PROVE  \/ s[d].next = NULL /\ End(s, d) = HeapEnd
                      \/ /\ s[d].next = End(s, d)
                         /\ s[d].next \in DOMAIN s
                         /\ s[s[d].next].prev = d
    BY DEF NextLinks
  <2>1. CASE d = c
    BY <2>1, <1>2, <1>2a, <1>4 DEF SplitOf
  <2>2. CASE d = temp
    BY <2>2, <1>1, <1>2, <1>2a, <1>3, <1>4 DEF NextLinks, End, SplitOf
  <2>3. CASE d \in DOMAIN m \ {c}
    <3>1. s[d].next = m[d].next
      BY <2>3, <1>2, <1>2a DEF SplitOf
    <3>2. CASE m[d].next = NULL /\ End(m, d) = HeapEnd
      BY <2>3, <3>1, <3>2, <1>5
    <3>3. CASE /\ m[d].next = End(m, d)
               /\ m[d].next \in DOMAIN m
               /\ m[m[d].next].prev = d
      <4>1. m[d].next # m[c].next
        BY <2>3, <3>3, <1>3, <1>5a
      <4>2. s[m[d].next].prev = d
        BY <3>3, <4>1, <1>2, <1>2a DEF SplitOf
      <4> QED
        BY <2>3, <3>1, <3>3, <4>2, <1>2, <1>2a, <1>5 DEF SplitOf
    <3> QED
      BY <2>3, <3>2, <3>3, <1>1 DEF NextLinks
  <2> QED
    BY <2>1, <2>2, <2>3, <1>2, <1>2a DEF SplitOf
<1>8. PrevLinks(s)
  <2> SUFFICES ASSUME NEW d \in DOMAIN s
               PROVE  \/ s[d].prev = NULL /\ d = HeapStart
                      \/ /\ s[d].prev \in DOMAIN s
                         /\ s[d].prev < d
                         /\ s[s[d].prev].next = d
    BY DEF PrevLinks
  <2>1. CASE d = temp
    BY <2>1, <1>2, <1>2a DEF SplitOf
  <2>2. CASE d = c
    <3>1. s[c].prev = m[c].prev
      BY <1>2, <1>2a, <1>5a DEF SplitOf
    <3> QED
      BY <2>2, <3>1, <1>1, <1>2, <1>2a, <1>3 DEF PrevLinks, SplitOf
  <2>3. CASE d \in DOMAIN m \ {c} /\ d = m[c].next
    <3>1. s[d].prev = temp /\ s[temp].next = d
      BY <2>3, <1>2, <1>2a DEF SplitOf
    <3>2. d = End(m, c)
      BY <2>3, <1>1, <1>3 DEF NextLinks
    <3> QED
      BY <3>1, <3>2, <1>2, <1>2a DEF SplitOf
  <2>4. CASE d \in DOMAIN m \ {c} /\ d # m[c].next
    <3>1. s[d].prev = m[d].prev
      BY <2>4, <1>2, <1>2a DEF SplitOf
    <3>2. m[d].prev # c
      BY <2>4, <1>1, <1>3 DEF PrevLinks
    <3> QED
      BY <2>4, <3>1, <3>2, <1>1, <1>2, <1>2a DEF PrevLinks, SplitOf
  <2> QED
    BY <2>1, <2>2, <2>3, <2>4, <1>2, <1>2a DEF SplitOf
<1>9. ChunksApart(s)
  <2> SUFFICES ASSUME NEW d \in DOMAIN s, NEW e \in DOMAIN s, d < e
               PROVE  End(s, d) <= e
    BY DEF ChunksApart
  <2>1. CASE d \in DOMAIN m \ {c} /\ e \in DOMAIN m
    BY <2>1, <1>1, <1>5 DEF ChunksApart
  <2>2. CASE d \in DOMAIN m \ {c} /\ e = temp
    <3>1. d < c
      <4> SUFFICES ASSUME d > c PROVE FALSE
        BY <2>2, <1>3
      <4>1. End(m, c) <= d
        BY <2>2, <1>1 DEF ChunksApart
      <4> QED
        BY <4>1, <2>2, <1>2, <1>2a, <1>3 DEF End, SplitOf
    <3>2. End(s, d) <= c
      BY <2>2, <3>1, <1>1, <1>5 DEF ChunksApart
    <3> QED
      BY <2>2, <3>2, <1>2, <1>2a, <1>3, <1>5 DEF End, SplitOf
  <2>3. CASE d = c /\ e = temp
    BY <2>3, <1>4, <1>2, <1>2a DEF SplitOf
  <2>4. CASE d = c /\ e \in DOMAIN m
    <3>1. End(m, c) <= e
      BY <2>4, <1>1 DEF ChunksApart
    <3> QED
      BY <2>4, <3>1, <1>2, <1>2a, <1>3, <1>4 DEF End, SplitOf
  <2>5. CASE d = temp /\ e \in DOMAIN m
    <3>1. e > c
      BY <2>5, <1>2, <1>2a, <1>3 DEF SplitOf
    <3> QED
      BY <2>5, <3>1, <1>1, <1>4 DEF ChunksApart
  <2>6. CASE d = temp /\ e = temp
    BY <2>6, <1>2, <1>2a DEF SplitOf
  <2> QED
    BY <2>1, <2>2, <2>3, <2>4, <2>5, <2>6, <1>2, <1>2a DEF SplitOf
<1> QED
  BY <1>6, <1>7, <1>8, <1>9 DEF Linked, s

(* s is m with b swallowed by a, field by field.                           *)
AbsorbOf(s, m, a, b) ==
    /\ DOMAIN s = DOMAIN m \ {b}
    /\ \A d \in DOMAIN m \ {b} :
          /\ s[d].next = IF d = a THEN m[b].next ELSE m[d].next
          /\ s[d].prev = IF d = m[b].next THEN a ELSE m[d].prev
          /\ s[d].allocated = m[d].allocated
          /\ s[d].size = IF d = a THEN m[a].size + m[b].size + Header
                         ELSE m[d].size

(* What Absorb does to every field, chunk by chunk.                        *)
LEMMA AbsorbFields ==
    ASSUME NEW m, ChunkTypes(m), NEW a \in DOMAIN m, NEW b \in DOMAIN m
    PROVE  AbsorbOf(Absorb(m, a, b), m, a, b) /\ ChunkRecords(Absorb(m, a, b))
<1> DEFINE s == Absorb(m, a, b)
<1>1. s = [d \in DOMAIN m \ {b} |->
            [m[d] EXCEPT !.next = IF d = a THEN m[b].next ELSE @,
                         !.size = IF d = a THEN @ + m[b].size + Header ELSE @,
                         !.prev = IF d = m[b].next THEN a ELSE @]]
  BY DEF Absorb
<1> HIDE DEF s
<1>2. DOMAIN s = DOMAIN m \ {b} /\ s = [d \in DOMAIN s |-> s[d]]
  BY <1>1
<1>3. ASSUME NEW d \in DOMAIN m \ {b}
      PROVE  /\ s[d].next = IF d = a THEN m[b].next ELSE m[d].next
             /\ s[d].prev = IF d = m[b].next THEN a ELSE m[d].prev
             /\ s[d].allocated = m[d].allocated
             /\ s[d].size = IF d = a THEN m[a].size + m[b].size + Header
                            ELSE m[d].size
             /\ s[d] = [next |-> s[d].next, prev |-> s[d].prev,
                        allocated |-> s[d].allocated, size |-> s[d].size]
  <2>1. s[d] = [m[d] EXCEPT !.next = IF d = a THEN m[b].next ELSE @,
                            !.size = IF d = a THEN @ + m[b].size + Header
                                     ELSE @,
                            !.prev = IF d = m[b].next THEN a ELSE @]
    BY <1>1
  <2>2. m[d] = [next |-> m[d].next, prev |-> m[d].prev,
                allocated |-> m[d].allocated, size |-> m[d].size]
    BY FieldTypes
  <2>3. s[d] = [next |-> IF d = a THEN m[b].next ELSE m[d].next,
                prev |-> IF d = m[b].next THEN a ELSE m[d].prev,
                allocated |-> m[d].allocated,
                size |-> IF d = a THEN m[a].size + m[b].size + Header
                         ELSE m[d].size]
    BY <2>1, <2>2
  <2> QED
    BY <2>3
<1>4. AbsorbOf(s, m, a, b)
  BY <1>2, <1>3 DEF AbsorbOf
<1>5. ChunkRecords(s)
  BY <1>2, <1>3 DEF ChunkRecords
<1> QED
  BY <1>4, <1>5 DEF s

(* free's merge of a chunk with its successor keeps the list linked.       *)
LEMMA AbsorbLinked ==
    ASSUME NEW m, Linked(m), NEW a \in DOMAIN m, NEW b \in DOMAIN m,
           m[a].next = b
    PROVE  Linked(Absorb(m, a, b))
<1> DEFINE s == Absorb(m, a, b)
<1>1. ChunkTypes(m) /\ NextLinks(m) /\ PrevLinks(m) /\ ChunksApart(m)
  BY DEF Linked
<1>2. AbsorbOf(s, m, a, b) /\ ChunkRecords(s)
  BY <1>1, AbsorbFields
<1> HIDE DEF s
<1>3. \A d \in DOMAIN m : /\ d \in Nat /\ d # NULL /\ d >= HeapStart
                          /\ m[d].allocated \in BOOLEAN
                          /\ m[d].size \in Nat
  BY <1>1, FieldTypes
<1>4. b = End(m, a) /\ m[b].prev = a /\ a < b
  <2>1. b # NULL
    BY <1>3
  <2>2. b = End(m, a) /\ m[b].prev = a
    BY <2>1, <1>1 DEF NextLinks
  <2> QED
    BY <2>2, <1>3 DEF End
<1>5. End(s, a) = End(m, b)
  <2>1. a \in DOMAIN m \ {b}
    BY <1>3, <1>4
  <2>2. s[a].size = m[a].size + m[b].size + Header
    BY <2>1, <1>2 DEF AbsorbOf
  <2> QED
    BY <2>2, <1>3, <1>4 DEF End
<1>6. \A d \in DOMAIN s \ {a} : End(s, d) = End(m, d)
  BY <1>2 DEF End, AbsorbOf
<1>7. m[b].next # b /\ (m[b].next # NULL => m[b].next > b)
  BY <1>1, <1>3 DEF NextLinks, End
<1>9. ChunkTypes(s)
  <2>1. DOMAIN s \subseteq Address
    BY <1>1, <1>2 DEF ChunkTypes, AbsorbOf
  <2>2. HeapSize >= Header => HeapStart \in DOMAIN s
    BY <1>1, <1>2, <1>3, <1>4 DEF ChunkTypes, AbsorbOf
  <2>3. m[a].size + m[b].size + Header \in 0 .. HeapSize
    <3>1. End(m, b) <= HeapEnd
      BY EndInHeap
    <3> QED
      BY <3>1, <1>3, <1>4 DEF End, HeapEnd
  <2>4. \A d \in DOMAIN m : /\ m[d].next \in Address \union {NULL}
                            /\ m[d].prev \in Address \union {NULL}
                            /\ m[d].size \in 0 .. HeapSize
    BY <1>1 DEF ChunkTypes, MemoryChunk
  <2>5. a \in Address
    BY <1>1 DEF ChunkTypes
  <2>6. ASSUME NEW d \in DOMAIN s
        PROVE  /\ s[d].next \in Address \union {NULL}
               /\ s[d].prev \in Address \union {NULL}
               /\ s[d].allocated \in BOOLEAN
               /\ s[d].size \in 0 .. HeapSize
    BY <2>3, <2>4, <2>5, <1>2, <1>3 DEF AbsorbOf
  <2> QED
    BY <2>1, <2>2, <2>6, <1>2, TypesFromFields
<1>10. NextLinks(s)
  <2> SUFFICES ASSUME NEW d \in DOMAIN s
               PROVE  \/ s[d].next = NULL /\ End(s, d) = HeapEnd
                      \/ /\ s[d].next = End(s, d)
                         /\ s[d].next \in DOMAIN s
                         /\ s[s[d].next].prev = d
    BY DEF NextLinks
  <2>1. CASE d = a
    <3>1. s[a].next = m[b].next
      BY <2>1, <1>2 DEF AbsorbOf
    <3> QED
      BY <2>1, <3>1, <1>1, <1>2, <1>5, <1>7 DEF NextLinks, AbsorbOf
  <2>2. CASE d # a
    <3>1. s[d].next = m[d].next /\ End(s, d) = End(m, d)
      BY <2>2, <1>2, <1>6 DEF AbsorbOf
    <3>2. CASE m[d].next = NULL /\ End(m, d) = HeapEnd
      BY <3>1, <3>2
    <3>3. CASE /\ m[d].next = End(m, d)
               /\ m[d].next \in DOMAIN m
               /\ m[m[d].next].prev = d
      <4>1. m[d].next # b
        BY <2>2, <3>3, <1>4
      <4>2. m[d].next # m[b].next
        <5> SUFFICES ASSUME m[d].next = m[b].next PROVE FALSE
          OBVIOUS
        <5>1. m[m[b].next].prev = b
          BY <3>3, <1>1, <1>3 DEF NextLinks
        <5> QED
          BY <5>1, <3>3, <1>2 DEF AbsorbOf
      <4> QED
        BY <3>1, <3>3, <4>1, <4>2, <1>2 DEF AbsorbOf
    <3> QED
      BY <3>2, <3>3, <1>1, <1>2 DEF NextLinks, AbsorbOf
  <2> QED
    BY <2>1, <2>2
<1>11. PrevLinks(s)
  <2> SUFFICES ASSUME NEW d \in DOMAIN s
               PROVE  \/ s[d].prev = NULL /\ d = HeapStart
                      \/ /\ s[d].prev \in DOMAIN s
                         /\ s[d].prev < d
                         /\ s[s[d].prev].next = d
    BY DEF PrevLinks
  <2>1. CASE d = m[b].next
    <3>1. s[d].prev = a /\ s[a].next = d
      BY <2>1, <1>2, <1>4 DEF AbsorbOf
    <3>2. a < d /\ a \in DOMAIN s
      BY <2>1, <1>2, <1>3, <1>4, <1>7 DEF AbsorbOf
    <3> QED
      BY <3>1, <3>2
  <2>2. CASE d # m[b].next
    <3>1. s[d].prev = m[d].prev
      BY <2>2, <1>2 DEF AbsorbOf
    <3>2. CASE m[d].prev = NULL /\ d = HeapStart
      BY <3>1, <3>2
    <3>3. CASE /\ m[d].prev \in DOMAIN m
               /\ m[d].prev < d
               /\ m[m[d].prev].next = d
      BY <2>2, <3>1, <3>3, <1>2 DEF AbsorbOf
    <3> QED
      BY <3>2, <3>3, <1>1, <1>2 DEF PrevLinks, AbsorbOf
  <2> QED
    BY <2>1, <2>2
<1>12. ChunksApart(s)
  <2> SUFFICES ASSUME NEW d \in DOMAIN s, NEW e \in DOMAIN s, d < e
               PROVE  End(s, d) <= e
    BY DEF ChunksApart
  <2>1. CASE d = a
    <3>1. End(m, a) <= e
      BY <2>1, <1>1, <1>2 DEF ChunksApart, AbsorbOf
    <3>2. b < e
      BY <3>1, <1>2, <1>3, <1>4 DEF AbsorbOf
    <3> QED
      BY <2>1, <3>2, <1>1, <1>2, <1>5 DEF ChunksApart, AbsorbOf
  <2>2. CASE d # a
    BY <2>2, <1>1, <1>2, <1>6 DEF ChunksApart, AbsorbOf
  <2> QED
    BY <2>1, <2>2
<1> QED
  BY <1>9, <1>10, <1>11, <1>12 DEF Linked, s

(* s is m with the allocated flag of c set to value, field by field.       *)
SetAllocatedOf(s, m, c, value) ==
    /\ DOMAIN s = DOMAIN m
    /\ \A d \in DOMAIN m :
          /\ s[d].next = m[d].next
          /\ s[d].prev = m[d].prev
          /\ s[d].allocated = IF d = c THEN value ELSE m[d].allocated
          /\ s[d].size = m[d].size

(* Setting the allocated flag of one chunk changes nothing else.           *)
LEMMA SetAllocatedFields ==
    ASSUME NEW m, ChunkTypes(m), NEW c \in DOMAIN m, NEW value \in BOOLEAN
    PROVE  /\ SetAllocatedOf(SetAllocated(m, c, value), m, c, value)
           /\ ChunkRecords(SetAllocated(m, c, value))
<1> DEFINE s == SetAllocated(m, c, value)
<1>1. s = [m EXCEPT ![c].allocated = value] /\ m = [d \in DOMAIN m |-> m[d]]
  BY DEF SetAllocated, ChunkTypes
<1> HIDE DEF s
<1>2. DOMAIN s = DOMAIN m /\ s = [d \in DOMAIN s |-> s[d]]
  BY <1>1
<1>3. ASSUME NEW d \in DOMAIN m
      PROVE  /\ s[d].next = m[d].next
             /\ s[d].prev = m[d].prev
             /\ s[d].allocated = IF d = c THEN value ELSE m[d].allocated
             /\ s[d].size = m[d].size
             /\ s[d] = [next |-> s[d].next, prev |-> s[d].prev,
                        allocated |-> s[d].allocated, size |-> s[d].size]
  <2>1. m[d] = [next |-> m[d].next, prev |-> m[d].prev,
                allocated |-> m[d].allocated, size |-> m[d].size]
    BY FieldTypes
  <2>2. CASE d = c
    <3>1. s[d] = [m[d] EXCEPT !.allocated = value]
      BY <1>1, <2>2
    <3>2. s[d] = [next |-> m[d].next, prev |-> m[d].prev,
                  allocated |-> value, size |-> m[d].size]
      BY <2>1, <3>1
    <3> QED
      BY <2>2, <3>2
  <2>3. CASE d # c
    BY <1>1, <2>1, <2>3
  <2> QED
    BY <2>2, <2>3
<1>4. SetAllocatedOf(s, m, c, value)
  BY <1>2, <1>3 DEF SetAllocatedOf
<1>5. ChunkRecords(s)
  BY <1>2, <1>3 DEF ChunkRecords
<1> QED
  BY <1>4, <1>5 DEF s

(* The links say nothing of the allocated flags.                           *)
LEMMA SetAllocatedLinked ==
    ASSUME NEW m, Linked(m), NEW c \in DOMAIN m, NEW value \in BOOLEAN
    PROVE  Linked(SetAllocated(m, c, value))
<1> DEFINE s == SetAllocated(m, c, value)
<1>1. ChunkTypes(m) /\ NextLinks(m) /\ PrevLinks(m) /\ ChunksApart(m)
  BY DEF Linked
<1>2. SetAllocatedOf(s, m, c, value) /\ ChunkRecords(s)
  BY <1>1, SetAllocatedFields
<1> HIDE DEF s
<1>3. ChunkTypes(s)
  <2>1. \A d \in DOMAIN m : /\ m[d].next \in Address \union {NULL}
                            /\ m[d].prev \in Address \union {NULL}
                            /\ m[d].allocated \in BOOLEAN
                            /\ m[d].size \in 0 .. HeapSize
    BY <1>1 DEF ChunkTypes, MemoryChunk
  <2>2. \A d \in DOMAIN s : /\ s[d].next \in Address \union {NULL}
                            /\ s[d].prev \in Address \union {NULL}
                            /\ s[d].allocated \in BOOLEAN
                            /\ s[d].size \in 0 .. HeapSize
    BY <2>1, <1>2 DEF SetAllocatedOf
  <2>3. /\ DOMAIN s \subseteq Address
        /\ HeapSize >= Header => HeapStart \in DOMAIN s
    BY <1>1, <1>2 DEF ChunkTypes, SetAllocatedOf
  <2> QED
    BY <2>2, <2>3, <1>2, TypesFromFields
<1>4. \A d \in DOMAIN m : End(s, d) = End(m, d)
  BY <1>2 DEF End, SetAllocatedOf
<1>5. NextLinks(s)
  BY <1>1, <1>2, <1>4 DEF NextLinks, SetAllocatedOf
<1>6. PrevLinks(s)
  BY <1>1, <1>2 DEF PrevLinks, SetAllocatedOf
<1>7. ChunksApart(s)
  BY <1>1, <1>2, <1>4 DEF ChunksApart, SetAllocatedOf
<1> QED
  BY <1>3, <1>5, <1>6, <1>7 DEF Linked, s

-----------------------------------------------------------------------------
(* The inductive invariant holds of the constructor's heap.                *)
LEMMA InitIInv == Init => IInv
<1> SUFFICES ASSUME Init PROVE IInv
  OBVIOUS
<1>1. CASE HeapSize < Header
  <2>1. DOMAIN chunk = {} /\ chunk = [c \in {} |-> chunk[c]]
    BY <1>1 DEF Init, InitialChunks
  <2>2. DOMAIN live = {} /\ live = [p \in {} |-> live[p]]
    BY DEF Init
  <2> QED
    BY <1>1, <2>1, <2>2 DEF Init, IInv, TypeOK, Linked, ChunkTypes, NextLinks,
       PrevLinks, ChunksApart, NoAdjacentFree, LiveIsAllocated
<1>2. CASE HeapSize >= Header
  <2>1. /\ DOMAIN chunk = {HeapStart}
        /\ chunk = [c \in {HeapStart} |-> chunk[c]]
        /\ chunk[HeapStart] = [next |-> NULL, prev |-> NULL,
                              allocated |-> FALSE, size |-> HeapSize - Header]
    BY <1>2 DEF Init, InitialChunks
  <2>2. DOMAIN live = {} /\ live = [p \in {} |-> live[p]]
    BY DEF Init
  <2>3. chunk[HeapStart] \in MemoryChunk /\ {HeapStart} \subseteq Address
    <3>1. HeapSize - Header \in 0 .. HeapSize
      BY <1>2
    <3>2. {HeapStart} \subseteq Address
      BY DEF Address, HeapEnd
    <3>3. [next |-> NULL, prev |-> NULL, allocated |-> FALSE,
           size |-> HeapSize - Header] \in MemoryChunk
      BY <3>1 DEF MemoryChunk
    <3> QED
      BY <2>1, <3>2, <3>3
  <2>4. End(chunk, HeapStart) = HeapEnd
    BY <2>1 DEF End, HeapEnd
  <2> QED
    BY <2>1, <2>2, <2>3, <2>4 DEF Init, IInv, TypeOK, Linked, ChunkTypes,
       NextLinks, PrevLinks, ChunksApart, NoAdjacentFree, LiveIsAllocated,
       FreeAt, NULL
<1> QED
  BY <1>1, <1>2

(* The pointer malloc makes of a chunk it found lies inside the heap.      *)
LEMMA PointerInHeap ==
    ASSUME NEW m, Linked(m), NEW c \in DOMAIN m
    PROVE  c + Header \in Address
<1>1. c \in Nat /\ c >= HeapStart /\ m[c].size \in Nat
  BY FieldTypes DEF Linked
<1>2. End(m, c) <= HeapEnd
  BY EndInHeap
<1> QED
  BY <1>1, <1>2 DEF End, Address, HeapEnd

(* Behind every held pointer there is an allocated chunk.                  *)
LEMMA HeldIsAllocated ==
    ASSUME IInv, NEW p \in DOMAIN live
    PROVE  /\ p \in Nat /\ p - Header \in DOMAIN chunk
           /\ chunk[p - Header].allocated
<1>1. p \in Nat /\ p - Header \in DOMAIN chunk
  BY DEF IInv, TypeOK, Address, HeapEnd, LiveIsAllocated
<1>2. p - Header + Header = p
  BY <1>1
<1> QED
  BY <1>1, <1>2 DEF IInv, LiveIsAllocated

(* malloc that splits the chunk it found.                                  *)
LEMMA MallocSplitStep ==
    ASSUME IInv, NEW size \in Sizes, MallocSplit(size)
    PROVE  IInv' /\ Untouched
<1> PICK c \in DOMAIN chunk :
        /\ FirstFit(c, size)
        /\ WorthSplitting(c, size)
        /\ chunk' = SetAllocated(Split(chunk, c, size), c, TRUE)
        /\ Hold(c + Header, size)
        /\ UNCHANGED active
  BY DEF MallocSplit
<1> DEFINE m == Split(chunk, c, size)
           temp == Temp(c, size)
<1>1. /\ Linked(chunk) /\ ChunkTypes(chunk) /\ NextLinks(chunk)
      /\ size \in Nat /\ chunk[c].size >= size + Header + 1
      /\ ~chunk[c].allocated
  BY DEF IInv, Linked, FirstFit, Fits, WorthSplitting
<1>2. /\ TempInside(chunk, c, temp)
      /\ SplitOf(m, chunk, c, size, temp)
  BY <1>1, SplitFields
<1>3. Linked(m)
  BY <1>1, SplitLinked
<1>4. SetAllocatedOf(chunk', m, c, TRUE)
  <2>1. ChunkTypes(m) /\ c \in DOMAIN m
    BY <1>2, <1>3 DEF Linked, SplitOf
  <2> QED
    BY <2>1, SetAllocatedFields
<1>5. Linked(chunk')
  <2>1. c \in DOMAIN m
    BY <1>2 DEF SplitOf
  <2> QED
    BY <2>1, <1>3, SetAllocatedLinked
<1> HIDE DEF m, temp
<1>4a. \A d \in DOMAIN chunk :
        /\ d # temp
        /\ d \in DOMAIN chunk'
        /\ chunk'[d].next = IF d = c THEN temp ELSE chunk[d].next
        /\ chunk'[d].allocated = IF d = c THEN TRUE ELSE chunk[d].allocated
        /\ chunk'[d].size = IF d = c THEN size ELSE chunk[d].size
  <2> TAKE d \in DOMAIN chunk
  <2>1. /\ d # temp /\ d \in DOMAIN m
        /\ m[d].next = IF d = c THEN temp ELSE chunk[d].next
        /\ m[d].allocated = chunk[d].allocated
        /\ m[d].size = IF d = c THEN size ELSE chunk[d].size
    BY <1>2 DEF TempInside, SplitOf
  <2>2. /\ d \in DOMAIN chunk'
        /\ chunk'[d].next = m[d].next
        /\ chunk'[d].allocated = IF d = c THEN TRUE ELSE m[d].allocated
        /\ chunk'[d].size = m[d].size
    BY <2>1, <1>4 DEF SetAllocatedOf
  <2> QED
    BY <2>1, <2>2
<1>4b. /\ DOMAIN chunk' = DOMAIN chunk \union {temp}
       /\ chunk'[temp].next = chunk[c].next
       /\ chunk'[temp].allocated = FALSE
       /\ temp # c /\ temp \notin DOMAIN chunk
  BY <1>2, <1>4 DEF TempInside, SplitOf, SetAllocatedOf
<1>6. /\ DOMAIN live' = DOMAIN live \union {c + Header}
      /\ live'[c + Header] = size
      /\ \A p \in DOMAIN live : p # c + Header => live'[p] = live[p]
      /\ live' = [p \in DOMAIN live' |-> live'[p]]
  BY DEF Hold
<1>7. \A p \in DOMAIN live : /\ p \in Nat /\ live[p] \in Sizes
                             /\ p - Header \in DOMAIN chunk
  BY DEF IInv, TypeOK, Address, HeapEnd, LiveIsAllocated
<1>8. \A d \in DOMAIN chunk : d \in Nat /\ d # NULL
  BY <1>1, FieldTypes
<1>9. TypeOK'
  <2>1. c + Header \in Address
    BY <1>1, PointerInHeap
  <2>2. ChunkTypes(chunk')
    BY <1>5 DEF Linked
  <2> QED
    BY <2>1, <2>2, <1>6, <1>7 DEF IInv, TypeOK
<1>10. NoAdjacentFree'
  <2> SUFFICES ASSUME NEW d \in DOMAIN chunk', ~chunk'[d].allocated,
                      FreeAt(chunk', chunk'[d].next)
               PROVE  FALSE
    BY DEF NoAdjacentFree
  <2>1. d # c
    BY <1>4a, <1>4b
  <2>2. chunk[c].next # NULL => /\ chunk[c].next \in DOMAIN chunk
                               /\ chunk[chunk[c].next].allocated
    BY <1>1 DEF IInv, NoAdjacentFree, FreeAt, NextLinks
  <2>3. chunk[c].next # c
    BY <1>1, <1>8, <2>2
  <2>4. CASE d = temp
    <3>1. chunk'[temp].next = chunk[c].next
      BY <1>4a, <1>4b, <2>1, <2>4
    <3> QED
      BY <2>2, <2>3, <2>4, <3>1, <1>4a, <1>4b DEF FreeAt
  <2>5. CASE d \in DOMAIN chunk
    <3>1. chunk'[d].next = chunk[d].next /\ ~chunk[d].allocated
      BY <2>1, <2>5, <1>4a, <1>4b
    <3>2. chunk[d].next # NULL => /\ chunk[d].next \in DOMAIN chunk
                                 /\ chunk[chunk[d].next].allocated
      BY <2>5, <3>1, <1>1 DEF IInv, NoAdjacentFree, FreeAt, NextLinks
    <3> QED
      BY <3>1, <3>2, <1>4a, <1>4b DEF FreeAt
  <2> QED
    BY <2>4, <2>5, <1>4a, <1>4b
<1>11. LiveIsAllocated'
  <2>1. ASSUME NEW d \in DOMAIN chunk'
        PROVE  chunk'[d].allocated <=> d + Header \in DOMAIN live'
    <3>1. CASE d = c
      BY <3>1, <1>4a, <1>4b, <1>6
    <3>2. CASE d = temp
      <4>1. ~chunk'[temp].allocated
        BY <1>4a, <1>4b
      <4>2. temp + Header \notin DOMAIN live
        <5> SUFFICES ASSUME temp + Header \in DOMAIN live PROVE FALSE
          OBVIOUS
        <5>1. PICK p \in DOMAIN live : p = temp + Header
          OBVIOUS
        <5>2. temp \in Nat
          BY <1>1, <1>8 DEF temp, Temp
        <5>3. p - Header = temp
          BY <5>1, <5>2
        <5> QED
          BY <5>3, <1>4b, <1>7
      <4>3. temp + Header # c + Header
        BY <1>1, <1>4b, <1>8 DEF temp, Temp
      <4> QED
        BY <3>2, <4>1, <4>2, <4>3, <1>6
    <3>3. CASE d \in DOMAIN chunk /\ d # c
      <4>1. chunk'[d].allocated = chunk[d].allocated
        BY <3>3, <1>4a, <1>4b
      <4>2. d + Header # c + Header
        BY <3>3, <1>8
      <4> QED
        BY <3>3, <4>1, <4>2, <1>6 DEF IInv, LiveIsAllocated
    <3> QED
      BY <3>1, <3>2, <3>3, <1>4a, <1>4b
  <2>2. ASSUME NEW p \in DOMAIN live'
        PROVE  /\ p - Header \in DOMAIN chunk'
               /\ chunk'[p - Header].size \in live'[p] .. live'[p] + Header
    <3>1. CASE p = c + Header
      <4>1. p - Header = c
        BY <3>1, <1>8
      <4>2. chunk'[c].size = size /\ c \in DOMAIN chunk'
        BY <1>4a, <1>4b
      <4>3. live'[p] = size /\ size \in size .. size + Header
        BY <3>1, <1>1, <1>6
      <4> QED
        BY <4>1, <4>2, <4>3
    <3>2. CASE p \in DOMAIN live /\ p # c + Header
      <4>1. /\ p - Header \in DOMAIN chunk /\ p - Header # c
            /\ chunk[p - Header].size \in live[p] .. live[p] + Header
        BY <3>2, <1>7, <1>8 DEF IInv, LiveIsAllocated
      <4>2. chunk'[p - Header].size = chunk[p - Header].size
        BY <4>1, <1>4a, <1>4b
      <4> QED
        BY <3>2, <4>1, <4>2, <1>4a, <1>4b, <1>6
    <3> QED
      BY <3>1, <3>2, <1>6
  <2> QED
    BY <2>1, <2>2 DEF LiveIsAllocated
<1>12. Untouched
  <2> SUFFICES ASSUME NEW p \in DOMAIN live
               PROVE  chunk'[p - Header].size = chunk[p - Header].size
    BY DEF Untouched
  <2>1. chunk[p - Header].allocated
    BY <1>7, HeldIsAllocated
  <2> QED
    BY <2>1, <1>1, <1>7, <1>4a
<1> QED
  BY <1>5, <1>9, <1>10, <1>11, <1>12 DEF IInv

(* malloc that hands out the whole chunk it found.                         *)
LEMMA MallocWholeStep ==
    ASSUME IInv, NEW size \in Sizes, MallocWhole(size)
    PROVE  IInv' /\ Untouched
<1> PICK c \in DOMAIN chunk :
        /\ FirstFit(c, size)
        /\ ~WorthSplitting(c, size)
        /\ chunk' = SetAllocated(chunk, c, TRUE)
        /\ Hold(c + Header, size)
        /\ UNCHANGED active
  BY DEF MallocWhole
<1>1. /\ Linked(chunk) /\ ChunkTypes(chunk) /\ NextLinks(chunk)
      /\ ~chunk[c].allocated
  BY DEF IInv, Linked, FirstFit, Fits
<1>2. \A d \in DOMAIN chunk : d \in Nat /\ d # NULL /\ chunk[d].size \in Nat
  BY <1>1, FieldTypes
<1>3. size \in Nat /\ chunk[c].size \in size .. size + Header
  <2>1. size \in Nat /\ chunk[c].size \in Nat
    BY <1>2
  <2>2. chunk[c].size > size /\ ~(chunk[c].size >= size + Header + 1)
    BY DEF FirstFit, Fits, WorthSplitting
  <2> QED
    BY <2>1, <2>2
<1>4. Linked(chunk')
  BY <1>1, SetAllocatedLinked
<1>5. SetAllocatedOf(chunk', chunk, c, TRUE)
  BY <1>1, SetAllocatedFields
<1>6. /\ DOMAIN live' = DOMAIN live \union {c + Header}
      /\ live'[c + Header] = size
      /\ \A p \in DOMAIN live : p # c + Header => live'[p] = live[p]
      /\ live' = [p \in DOMAIN live' |-> live'[p]]
  BY DEF Hold
<1>7. \A p \in DOMAIN live : /\ p \in Nat /\ live[p] \in Sizes
                             /\ p - Header \in DOMAIN chunk
  BY DEF IInv, TypeOK, Address, HeapEnd, LiveIsAllocated
<1>8. TypeOK'
  <2>1. c + Header \in Address
    BY <1>1, PointerInHeap
  <2>2. ChunkTypes(chunk')
    BY <1>4 DEF Linked
  <2> QED
    BY <2>1, <2>2, <1>6, <1>7 DEF IInv, TypeOK
<1>9. NoAdjacentFree'
  <2> SUFFICES ASSUME NEW d \in DOMAIN chunk', ~chunk'[d].allocated,
                      FreeAt(chunk', chunk'[d].next)
               PROVE  FALSE
    BY DEF NoAdjacentFree
  <2>1. /\ d \in DOMAIN chunk /\ d # c /\ ~chunk[d].allocated
        /\ chunk'[d].next = chunk[d].next
    BY <1>5 DEF SetAllocatedOf
  <2>2. chunk[d].next # NULL => /\ chunk[d].next \in DOMAIN chunk
                               /\ chunk[chunk[d].next].allocated
    BY <2>1, <1>1 DEF IInv, NoAdjacentFree, FreeAt, NextLinks
  <2> QED
    BY <2>1, <2>2, <1>5 DEF SetAllocatedOf, FreeAt
<1>10. LiveIsAllocated'
  <2>1. ASSUME NEW d \in DOMAIN chunk'
        PROVE  chunk'[d].allocated <=> d + Header \in DOMAIN live'
    <3>1. CASE d = c
      BY <3>1, <1>5, <1>6 DEF SetAllocatedOf
    <3>2. CASE d # c
      <4>1. d \in DOMAIN chunk /\ chunk'[d].allocated = chunk[d].allocated
        BY <3>2, <1>5 DEF SetAllocatedOf
      <4>2. d + Header # c + Header
        BY <3>2, <4>1, <1>2
      <4> QED
        BY <4>1, <4>2, <1>6 DEF IInv, LiveIsAllocated
    <3> QED
      BY <3>1, <3>2
  <2>2. ASSUME NEW p \in DOMAIN live'
        PROVE  /\ p - Header \in DOMAIN chunk'
               /\ chunk'[p - Header].size \in live'[p] .. live'[p] + Header
    <3>1. CASE p = c + Header
      <4>1. p - Header = c
        BY <3>1, <1>2
      <4>2. chunk'[c].size = chunk[c].size /\ c \in DOMAIN chunk'
        BY <1>5 DEF SetAllocatedOf
      <4>3. live'[p] = size
        BY <3>1, <1>6
      <4> QED
        BY <4>1, <4>2, <4>3, <1>3
    <3>2. CASE p \in DOMAIN live /\ p # c + Header
      <4>1. /\ p - Header \in DOMAIN chunk
            /\ chunk[p - Header].size \in live[p] .. live[p] + Header
        BY <3>2 DEF IInv, LiveIsAllocated
      <4>2. chunk'[p - Header].size = chunk[p - Header].size
        BY <4>1, <1>5 DEF SetAllocatedOf
      <4> QED
        BY <3>2, <4>1, <4>2, <1>5, <1>6 DEF SetAllocatedOf
    <3> QED
      BY <3>1, <3>2, <1>6
  <2> QED
    BY <2>1, <2>2 DEF LiveIsAllocated
<1>11. Untouched
  BY <1>5, <1>7 DEF Untouched, SetAllocatedOf
<1> QED
  BY <1>4, <1>8, <1>9, <1>10, <1>11 DEF IInv

-----------------------------------------------------------------------------
(* free                                                                    *)

(* m holds every chunk that is allocated in the current list except c, the *)
(* one being freed, with its size, and no other allocated chunk.           *)
Kept(m, c) ==
    /\ DOMAIN m \subseteq DOMAIN chunk
    /\ \A d \in DOMAIN chunk \ {c} : chunk[d].allocated =>
          d \in DOMAIN m /\ m[d].allocated /\ m[d].size = chunk[d].size
    /\ \A d \in DOMAIN m : m[d].allocated => chunk[d].allocated /\ d # c

(* Between free's merges: only the free chunk x may have a free successor. *)
FreedAt(m, x, c) ==
    /\ Linked(m)
    /\ x \in DOMAIN m /\ ~m[x].allocated
    /\ \A d \in DOMAIN m \ {x} : ~m[d].allocated => ~FreeAt(m, m[d].next)
    /\ Kept(m, c)

(* After clearing the flag and after the merge with the predecessor.       *)
LEMMA MergePrevFreed ==
    ASSUME IInv, NEW c \in DOMAIN chunk, chunk[c].allocated,
           NEW freed, freed = SetAllocated(chunk, c, FALSE)
    PROVE  FreedAt(MergePrev(freed, c),
                   IF FreeAt(freed, freed[c].prev) THEN freed[c].prev ELSE c,
                   c)
<1>1. /\ Linked(chunk) /\ ChunkTypes(chunk) /\ NextLinks(chunk)
      /\ PrevLinks(chunk)
  BY DEF IInv, Linked
<1>2. Linked(freed)
  BY <1>1, SetAllocatedLinked
<1>3. SetAllocatedOf(freed, chunk, c, FALSE)
  BY <1>1, SetAllocatedFields
<1>a. /\ DOMAIN freed = DOMAIN chunk /\ ~freed[c].allocated
      /\ freed[c].prev = chunk[c].prev
      /\ \A d \in DOMAIN chunk : /\ freed[d].next = chunk[d].next
                                 /\ freed[d].size = chunk[d].size
                                 /\ d # c => freed[d].allocated = chunk[d].allocated
  BY <1>3 DEF SetAllocatedOf
<1>4. \A d \in DOMAIN chunk : d # NULL
  BY <1>1, FieldTypes
<1>5. Kept(freed, c)
  BY <1>a DEF Kept
<1>6. ASSUME NEW d \in DOMAIN chunk, d # c, ~chunk[d].allocated,
             chunk[d].next # NULL, chunk[d].next # c
      PROVE  chunk[d].next \in DOMAIN chunk /\ chunk[chunk[d].next].allocated
  BY <1>1, <1>6 DEF IInv, NoAdjacentFree, FreeAt, NextLinks
<1>7. ASSUME NEW d \in DOMAIN chunk, chunk[d].next = c
      PROVE  chunk[c].prev = d
  BY <1>1, <1>4, <1>7 DEF NextLinks
<1>8. CASE ~FreeAt(freed, freed[c].prev)
  <2>1. MergePrev(freed, c) = freed
    BY <1>8 DEF MergePrev
  <2>2. ASSUME NEW d \in DOMAIN freed \ {c}, ~freed[d].allocated,
               FreeAt(freed, freed[d].next)
        PROVE  FALSE
    <3>1. /\ d \in DOMAIN chunk /\ d # c /\ ~chunk[d].allocated
          /\ freed[d].next = chunk[d].next
      BY <2>2, <1>a
    <3>2. chunk[d].next # NULL
      BY <2>2, <3>1 DEF FreeAt
    <3>3. CASE chunk[d].next = c
      <4>1. freed[c].prev = d
        BY <3>1, <3>3, <1>a, <1>7
      <4> QED
        BY <2>2, <3>1, <4>1, <1>4, <1>8 DEF FreeAt
    <3>4. CASE chunk[d].next # c
      <4>1. chunk[d].next \in DOMAIN chunk /\ chunk[chunk[d].next].allocated
        BY <3>1, <3>2, <3>4, <1>6
      <4> QED
        BY <2>2, <3>1, <3>4, <4>1, <1>a DEF FreeAt
    <3> QED
      BY <3>3, <3>4
  <2>3. c \in DOMAIN freed /\ ~freed[c].allocated
    BY <1>a
  <2> QED
    BY <2>1, <2>2, <2>3, <1>2, <1>5, <1>8 DEF FreedAt
<1>9. CASE FreeAt(freed, freed[c].prev)
  <2> DEFINE x == freed[c].prev
             m == Absorb(freed, x, c)
  <2>1. MergePrev(freed, c) = m
    BY <1>9 DEF MergePrev
  <2>2. /\ x \in DOMAIN freed /\ c \in DOMAIN freed /\ freed[x].next = c
        /\ ~freed[x].allocated /\ x # c
    <3>1. PrevLinks(freed) /\ c \in DOMAIN freed /\ c # NULL /\ c \in Nat
      BY <1>1, <1>2, <1>a, FieldTypes DEF Linked
    <3>2. x # NULL /\ ~freed[x].allocated
      BY <1>9 DEF FreeAt
    <3> HIDE DEF x
    <3>3. x \in DOMAIN freed /\ x < c /\ freed[x].next = c
      BY <3>1, <3>2 DEF PrevLinks, x
    <3>4. x # c
      BY <3>1, <3>3, <1>1, <1>a, FieldTypes
    <3> QED
      BY <3>1, <3>2, <3>3, <3>4
  <2>3. Linked(m)
    BY <2>2, <1>2, AbsorbLinked
  <2>4. AbsorbOf(m, freed, x, c)
    BY <2>2, <1>2, AbsorbFields DEF Linked
  <2> HIDE DEF x, m
  <2>4a. /\ DOMAIN m = DOMAIN chunk \ {c}
         /\ \A d \in DOMAIN m :
               /\ m[d].allocated = chunk[d].allocated
               /\ d # x => /\ m[d].next = chunk[d].next
                           /\ m[d].size = chunk[d].size
    <3>1. DOMAIN m = DOMAIN chunk \ {c}
      BY <2>4, <1>a DEF AbsorbOf
    <3>2. ASSUME NEW d \in DOMAIN m
          PROVE  /\ m[d].allocated = chunk[d].allocated
                 /\ d # x => /\ m[d].next = chunk[d].next
                             /\ m[d].size = chunk[d].size
      <4>1. /\ m[d].allocated = freed[d].allocated
            /\ d # x => m[d].next = freed[d].next /\ m[d].size = freed[d].size
        BY <2>4, <3>1, <1>a DEF AbsorbOf
      <4> QED
        BY <4>1, <3>1, <1>a
    <3> QED
      BY <3>1, <3>2
  <2>5. Kept(m, c)
    BY <2>2, <2>4a, <1>a DEF Kept
  <2>6. ASSUME NEW d \in DOMAIN m \ {x}, ~m[d].allocated,
               FreeAt(m, m[d].next)
        PROVE  FALSE
    <3>1. /\ d \in DOMAIN chunk /\ d # c /\ ~chunk[d].allocated
          /\ m[d].next = chunk[d].next
      BY <2>4a, <2>6
    <3>2. chunk[d].next # NULL
      BY <2>6, <3>1 DEF FreeAt
    <3>3. chunk[d].next # c
      <4> SUFFICES ASSUME chunk[d].next = c PROVE FALSE
        OBVIOUS
      <4>1. freed[c].prev = d
        BY <3>1, <1>a, <1>7
      <4> QED
        BY <4>1, <2>6 DEF x
    <3>4. chunk[d].next \in DOMAIN chunk /\ chunk[chunk[d].next].allocated
      BY <3>1, <3>2, <3>3, <1>6
    <3>5. chunk[d].next \in DOMAIN m /\ m[chunk[d].next].allocated
      BY <2>4a, <3>3, <3>4
    <3> QED
      BY <2>6, <3>1, <3>5 DEF FreeAt
  <2>7. x \in DOMAIN m /\ ~m[x].allocated
    <3>1. x \in DOMAIN chunk /\ x # c /\ ~chunk[x].allocated
      BY <2>2, <1>a
    <3> QED
      BY <2>4a, <3>1
  <2>8. FreedAt(m, x, c)
    BY <2>3, <2>5, <2>6, <2>7 DEF FreedAt
  <2> QED
    BY <2>1, <2>8, <1>9 DEF x
<1> QED
  BY <1>8, <1>9

(* After the merge with the successor no two neighbours are free.          *)
LEMMA MergeNextFreed ==
    ASSUME NEW m, NEW x, NEW c, FreedAt(m, x, c),
           NEW s, s = MergeNext(m, x)
    PROVE  /\ Linked(s)
           /\ \A d \in DOMAIN s : ~s[d].allocated => ~FreeAt(s, s[d].next)
           /\ Kept(s, c)
<1>1. /\ Linked(m) /\ ChunkTypes(m) /\ NextLinks(m)
      /\ x \in DOMAIN m /\ ~m[x].allocated /\ Kept(m, c)
      /\ \A d \in DOMAIN m \ {x} : ~m[d].allocated => ~FreeAt(m, m[d].next)
  BY DEF FreedAt, Linked
<1>1b. ASSUME NEW d \in DOMAIN m, d # x, ~m[d].allocated
       PROVE  ~FreeAt(m, m[d].next)
  BY <1>1, <1>1b
<1>1a. \A d \in DOMAIN m : m[d].next = NULL \/ m[d].next \in DOMAIN m
  BY <1>1 DEF NextLinks
<1>2. CASE ~FreeAt(m, m[x].next)
  <2>1. s = m
    BY <1>2 DEF MergeNext
  <2> QED
    BY <2>1, <1>1, <1>2
<1>3. CASE FreeAt(m, m[x].next)
  <2> DEFINE n == m[x].next
  <2>1. s = Absorb(m, x, n)
    BY <1>3 DEF MergeNext
  <2>2. n \in DOMAIN m /\ ~m[n].allocated /\ n # NULL /\ m[n].prev = x
    BY <1>1, <1>3 DEF FreeAt, NextLinks
  <2>3. n # x
    BY <2>2, <1>1, FieldTypes DEF NextLinks, End
  <2>4. Linked(s)
    BY <2>1, <2>2, <1>1, AbsorbLinked
  <2>5. AbsorbOf(s, m, x, n)
    BY <2>1, <2>2, <1>1, AbsorbFields
  <2> HIDE DEF n
  <2>5a. /\ DOMAIN s = DOMAIN m \ {n}
         /\ \A d \in DOMAIN s : /\ s[d].allocated = m[d].allocated
                                /\ d # x => s[d].size = m[d].size
    BY <2>5 DEF AbsorbOf
  <2>6. Kept(s, c)
    BY <2>2, <2>3, <2>5a, <1>1 DEF Kept
  <2>7. ASSUME NEW d \in DOMAIN s, ~s[d].allocated, FreeAt(s, s[d].next)
        PROVE  FALSE
    <3>1. CASE d = x
      <4>1. s[d].next = m[n].next
        BY <3>1, <2>3, <2>5, <1>1 DEF AbsorbOf
      <4>2. \/ m[n].next = NULL
            \/ m[n].next \in DOMAIN m /\ m[m[n].next].allocated
        <5>1. ~FreeAt(m, m[n].next)
          BY <2>2, <2>3, <1>1b
        <5> QED
          BY <5>1, <2>2, <1>1a DEF FreeAt
      <4> QED
        BY <2>2, <2>5a, <2>7, <4>1, <4>2 DEF FreeAt
    <3>2. CASE d # x
      <4>1. s[d].next = m[d].next /\ d \in DOMAIN m \ {x} /\ ~m[d].allocated
        BY <2>5, <2>7, <3>2 DEF AbsorbOf
      <4>2. \/ m[d].next = NULL
            \/ m[d].next \in DOMAIN m /\ m[m[d].next].allocated
        <5>1. ~FreeAt(m, m[d].next)
          BY <4>1, <1>1b
        <5> QED
          BY <5>1, <4>1, <1>1a DEF FreeAt
      <4> QED
        BY <2>2, <2>5a, <2>7, <4>1, <4>2 DEF FreeAt
    <3> QED
      BY <3>1, <3>2
  <2> QED
    BY <2>4, <2>6, <2>7
<1> QED
  BY <1>2, <1>3

(* What free does to the list, whichever neighbours were free.             *)
LEMMA FreeResult ==
    ASSUME IInv, NEW ptr \in DOMAIN live, free(ptr)
    PROVE  /\ ptr - Header \in DOMAIN chunk /\ ptr \in Nat
           /\ Linked(chunk')
           /\ \A d \in DOMAIN chunk' :
                 ~chunk'[d].allocated => ~FreeAt(chunk', chunk'[d].next)
           /\ Kept(chunk', ptr - Header)
<1> DEFINE c == ptr - Header
           freed == SetAllocated(chunk, c, FALSE)
           x == IF FreeAt(freed, freed[c].prev) THEN freed[c].prev ELSE c
           m == MergePrev(freed, c)
<1>1. ptr \in Nat /\ c \in DOMAIN chunk
  BY DEF IInv, TypeOK, Address, HeapEnd, LiveIsAllocated
<1>2. c + Header = ptr
  BY <1>1
<1>3. chunk[c].allocated
  BY <1>1, <1>2 DEF IInv, LiveIsAllocated
<1>4. chunk' = MergeNext(m, x)
  BY DEF free
<1>5. FreedAt(m, x, c)
  BY <1>1, <1>3, MergePrevFreed
<1> HIDE DEF m, x, c
<1>6. /\ Linked(chunk')
      /\ \A d \in DOMAIN chunk' :
            ~chunk'[d].allocated => ~FreeAt(chunk', chunk'[d].next)
      /\ Kept(chunk', c)
  BY <1>4, <1>5, MergeNextFreed
<1> QED
  BY <1>1, <1>6 DEF c

(* free keeps the invariant and every other block.                         *)
LEMMA FreeStep ==
    ASSUME IInv, NEW ptr \in DOMAIN live, free(ptr)
    PROVE  IInv' /\ Untouched
<1> DEFINE c == ptr - Header
<1>1. /\ c \in DOMAIN chunk /\ ptr \in Nat
      /\ Linked(chunk')
      /\ \A d \in DOMAIN chunk' :
            ~chunk'[d].allocated => ~FreeAt(chunk', chunk'[d].next)
      /\ Kept(chunk', c)
  BY FreeResult
<1>2. /\ DOMAIN live' = DOMAIN live \ {ptr}
      /\ live' = [p \in DOMAIN live' |-> live'[p]]
      /\ \A p \in DOMAIN live' : live'[p] = live[p]
      /\ active' = active
  BY DEF free
<1>3. /\ \A p \in DOMAIN live : p \in Nat /\ live[p] \in Sizes
      /\ \A d \in DOMAIN chunk : d \in Nat
  BY FieldTypes DEF IInv, TypeOK, Address, HeapEnd
<1> HIDE DEF c
<1>4. c + Header = ptr
  BY <1>1 DEF c
<1>5. TypeOK'
  <2>1. ChunkTypes(chunk')
    BY <1>1 DEF Linked
  <2> QED
    BY <2>1, <1>2, <1>3 DEF IInv, TypeOK
<1>6. NoAdjacentFree'
  BY <1>1 DEF NoAdjacentFree
<1>7. ASSUME NEW d \in DOMAIN chunk'
      PROVE  chunk'[d].allocated <=> d + Header \in DOMAIN live'
  <2>1. d \in DOMAIN chunk /\ (d + Header = ptr <=> d = c)
    BY <1>1, <1>3, <1>4 DEF Kept
  <2>2. chunk[d].allocated <=> d + Header \in DOMAIN live
    BY <2>1 DEF IInv, LiveIsAllocated
  <2>3. chunk'[d].allocated <=> chunk[d].allocated /\ d # c
    BY <2>1, <1>1 DEF Kept
  <2> QED
    BY <2>1, <2>2, <2>3, <1>2
<1>8. ASSUME NEW p \in DOMAIN live'
      PROVE  /\ p - Header \in DOMAIN chunk'
             /\ chunk'[p - Header].size \in live'[p] .. live'[p] + Header
  <2>1. /\ p \in DOMAIN live /\ p # ptr /\ live'[p] = live[p]
        /\ p - Header \in DOMAIN chunk
        /\ chunk[p - Header].size \in live[p] .. live[p] + Header
    BY <1>2 DEF IInv, LiveIsAllocated
  <2>2. p - Header # c /\ p - Header + Header = p
    BY <2>1, <1>1, <1>3, <1>4 DEF c
  <2>3. chunk[p - Header].allocated
    BY <2>1, <2>2 DEF IInv, LiveIsAllocated
  <2>4. p - Header \in DOMAIN chunk' /\ chunk'[p - Header].size = chunk[p - Header].size
    BY <2>1, <2>2, <2>3, <1>1 DEF Kept
  <2> QED
    BY <2>1, <2>4
<1>9. LiveIsAllocated'
  BY <1>7, <1>8 DEF LiveIsAllocated
<1>10. Untouched
  <2> SUFFICES ASSUME NEW p \in DOMAIN live, p # ptr
               PROVE  chunk'[p - Header].size = chunk[p - Header].size
    BY <1>2 DEF Untouched
  <2>1. p - Header \in DOMAIN chunk /\ chunk[p - Header].allocated
    BY HeldIsAllocated
  <2>2. p - Header # c
    BY <1>1, <1>3 DEF c
  <2> QED
    BY <2>1, <2>2, <1>1 DEF Kept
<1> QED
  BY <1>1, <1>5, <1>6, <1>9, <1>10 DEF IInv

-----------------------------------------------------------------------------
(* Every step of the manager keeps the inductive invariant and leaves the  *)
(* chunks that stay held alone.                                            *)
LEMMA NextStep == IInv /\ [Next]_vars => IInv' /\ (Untouched \/ UNCHANGED vars)
<1> SUFFICES ASSUME IInv, [Next]_vars
             PROVE  IInv' /\ (Untouched \/ UNCHANGED vars)
  OBVIOUS
<1>1. ASSUME UNCHANGED vars PROVE IInv'
  BY <1>1 DEF vars, IInv, TypeOK, NoAdjacentFree, LiveIsAllocated
<1>2. ASSUME NEW size \in Sizes, malloc(size)
      PROVE  IInv' /\ (Untouched \/ UNCHANGED vars)
  BY <1>1, <1>2, MallocSplitStep, MallocWholeStep DEF malloc, MallocFails
<1>3. ASSUME NEW ptr \in DOMAIN live, free(ptr)
      PROVE  IInv' /\ (Untouched \/ UNCHANGED vars)
  BY <1>3, FreeStep
<1>4. CASE Destroy
  <2>1. chunk' = chunk /\ live' = live /\ active' = FALSE
    BY <1>4 DEF Destroy
  <2> QED
    BY <2>1 DEF IInv, TypeOK, NoAdjacentFree, LiveIsAllocated, Untouched
<1>5. ASSUME NEW size \in Sizes, OperatorNew(size)
      PROVE  malloc(size) \/ UNCHANGED vars
  BY <1>5 DEF OperatorNew
<1>6. ASSUME NEW ptr \in DOMAIN live, OperatorDelete(ptr)
      PROVE  free(ptr) \/ UNCHANGED vars
  BY <1>6 DEF OperatorDelete
<1> QED
  BY <1>1, <1>2, <1>3, <1>4, <1>5, <1>6 DEF Next

(* The invariant that every other theorem about the heap rests on.         *)
THEOREM Invariance == Spec => []IInv
BY InitIInv, NextStep, PTL DEF Spec

(* The state of the manager is well typed for every heap and header size.  *)
THEOREM TypeCorrect == Spec => []TypeOK
<1>1. IInv => TypeOK
  BY DEF IInv
<1> QED
  BY <1>1, Invariance, PTL

(* malloc and free keep the chunks a doubly linked tiling of the heap.     *)
THEOREM ListAlwaysTiles == Spec => []ListTilesHeap
<1>1. IInv => ListTilesHeap
  <2> SUFFICES ASSUME IInv PROVE ListTilesHeap
    OBVIOUS
  <2>1. ASSUME NEW c \in DOMAIN chunk PROVE c + Header <= End(chunk, c)
    <3>1. ChunkTypes(chunk)
      BY DEF IInv, Linked
    <3>2. c \in Int /\ Header \in Int /\ chunk[c].size \in Nat
      BY <2>1, <3>1, HeapAssumption, HeaderAssumption
      DEF ChunkTypes, MemoryChunk, Address, HeapEnd
    <3> QED
      BY <3>2 DEF End
  <2> QED
    BY <2>1 DEF IInv, Linked, ListTilesHeap
<1> QED
  BY <1>1, Invariance, PTL

(* free's two merges suffice: no two neighbouring chunks are ever free.    *)
THEOREM AlwaysCoalesced == Spec => []NoAdjacentFree
<1>1. IInv => NoAdjacentFree
  BY DEF IInv
<1> QED
  BY <1>1, Invariance, PTL

(* Allocated chunks are the held blocks, with room for what was asked.     *)
THEOREM AllocatedIsHeld == Spec => []LiveIsAllocated
<1>1. IInv => LiveIsAllocated
  BY DEF IInv
<1> QED
  BY <1>1, Invariance, PTL

(* With nothing held, every chunk is free, so none has a successor; the    *)
(* first chunk then reaches the end of the heap and leaves room for no     *)
(* other.                                                                  *)
LEMMA NothingHeld == IInv => HeapRecovered
<1> SUFFICES ASSUME IInv, DOMAIN live = {} PROVE chunk = InitialChunks
  BY DEF HeapRecovered
<1>1. /\ ChunkTypes(chunk) /\ NextLinks(chunk) /\ PrevLinks(chunk)
      /\ ChunksApart(chunk) /\ Linked(chunk)
  BY DEF IInv, Linked
<1>2. \A c \in DOMAIN chunk : ~chunk[c].allocated
  BY DEF IInv, LiveIsAllocated
<1>3. \A c \in DOMAIN chunk : /\ c \in Nat /\ c >= HeapStart /\ c <= HeapEnd
                              /\ c # NULL
                              /\ chunk[c].size \in Nat
  BY <1>1, FieldTypes
<1>4. \A c \in DOMAIN chunk : chunk[c].next = NULL /\ End(chunk, c) = HeapEnd
  <2> TAKE c \in DOMAIN chunk
  <2>1. ~FreeAt(chunk, chunk[c].next)
    BY <1>2 DEF IInv, NoAdjacentFree
  <2>2. \/ chunk[c].next = NULL /\ End(chunk, c) = HeapEnd
        \/ chunk[c].next \in DOMAIN chunk
    BY <1>1 DEF NextLinks
  <2> QED
    BY <2>1, <2>2, <1>2, <1>3 DEF FreeAt
<1>5. \A c \in DOMAIN chunk : c = HeapStart
  <2> SUFFICES ASSUME NEW c \in DOMAIN chunk, c # HeapStart PROVE FALSE
    OBVIOUS
  <2>1. chunk[c].prev \in DOMAIN chunk /\ chunk[chunk[c].prev].next = c
    BY <1>1 DEF PrevLinks
  <2> QED
    BY <2>1, <1>3, <1>4
<1>6. CASE HeapSize < Header
  <2>1. DOMAIN chunk = {}
    <3> SUFFICES ASSUME NEW c \in DOMAIN chunk PROVE FALSE
      OBVIOUS
    <3> QED
      BY <1>3, <1>4, <1>6 DEF End, HeapEnd
  <2> QED
    BY <2>1, <1>1, <1>6 DEF ChunkTypes, InitialChunks
<1>7. CASE HeapSize >= Header
  <2>1. DOMAIN chunk = {HeapStart} /\ chunk = [c \in {HeapStart} |-> chunk[c]]
    BY <1>1, <1>5, <1>7 DEF ChunkTypes
  <2>2. chunk[HeapStart].prev = NULL
    <3> SUFFICES ASSUME chunk[HeapStart].prev \in DOMAIN chunk,
                        chunk[HeapStart].prev < HeapStart
                 PROVE  FALSE
      BY <2>1, <1>1 DEF PrevLinks
    <3> QED
      BY <1>3
  <2>3. /\ chunk[HeapStart].next = NULL
        /\ chunk[HeapStart].allocated = FALSE
        /\ chunk[HeapStart].size = HeapSize - Header
    <3>1. HeapStart \in DOMAIN chunk
      BY <2>1
    <3>2. chunk[HeapStart].allocated = FALSE
      BY <3>1, <1>1, <1>2, FieldTypes
    <3>3. chunk[HeapStart].size = HeapSize - Header
      BY <3>1, <1>3, <1>4 DEF End, HeapEnd
    <3> QED
      BY <3>1, <3>2, <3>3, <1>4
  <2>4. chunk[HeapStart] = [next |-> NULL, prev |-> NULL, allocated |-> FALSE,
                            size |-> HeapSize - Header]
    <3>1. chunk[HeapStart] =
            [next |-> chunk[HeapStart].next, prev |-> chunk[HeapStart].prev,
             allocated |-> chunk[HeapStart].allocated,
             size |-> chunk[HeapStart].size]
      BY <2>1, <1>1, FieldTypes
    <3> QED
      BY <3>1, <2>2, <2>3
  <2> QED
    BY <2>1, <2>4, <1>7 DEF InitialChunks
<1> QED
  BY <1>6, <1>7

(* Once every block is freed, in any order, the heap is as it was built.   *)
THEOREM NoLastingFragmentation == Spec => []HeapRecovered
BY NothingHeld, Invariance, PTL

(* A step never moves or resizes a chunk that is held before and after.    *)
THEOREM HeldChunksStay == Spec => LiveUntouched
<1>1. IInv /\ [Next]_vars => [Untouched]_vars
  BY NextStep
<1> QED
  BY <1>1, Invariance, PTL DEF Spec, LiveUntouched

-----------------------------------------------------------------------------
(* Implementation of Heap                                                  *)

(* Blocks that lie each in a chunk of its own, no longer than the chunk,   *)
(* are inside the heap and apart.                                          *)
LEMMA BlocksApart ==
    ASSUME NEW m, Linked(m), NEW l,
           \A p \in DOMAIN l : /\ p \in Nat /\ p - Header \in DOMAIN m
                               /\ l[p] \in Nat /\ l[p] <= m[p - Header].size,
           NEW p \in DOMAIN l
    PROVE  /\ p + l[p] \in Address
           /\ \A q \in DOMAIN l \ {p} : p + l[p] <= q \/ q + l[q] <= p
<1>1. ChunkTypes(m) /\ ChunksApart(m)
  BY DEF Linked
<1>2. ASSUME NEW q \in DOMAIN l
      PROVE  /\ q \in Nat /\ l[q] \in Nat /\ q + l[q] <= End(m, q - Header)
             /\ End(m, q - Header) \in Nat /\ q - Header >= HeapStart
             /\ End(m, q - Header) <= HeapEnd
  <2>1. q - Header \in DOMAIN m /\ q \in Nat /\ l[q] \in Nat
    OBVIOUS
  <2>2. m[q - Header].size \in Nat /\ q - Header >= HeapStart
    BY <2>1, <1>1, FieldTypes
  <2>3. End(m, q - Header) \in Nat /\ End(m, q - Header) <= HeapEnd
    BY <2>1, EndInHeap
  <2>4. q + l[q] <= End(m, q - Header)
    BY <2>1, <2>2 DEF End
  <2> QED
    BY <2>1, <2>2, <2>3, <2>4
<1>3. p + l[p] \in Address
  <2>1. /\ p \in Nat /\ l[p] \in Nat /\ p + l[p] <= End(m, p - Header)
        /\ End(m, p - Header) \in Nat /\ p - Header >= HeapStart
        /\ End(m, p - Header) <= HeapEnd
    BY <1>2
  <2> QED
    BY <2>1 DEF Address, HeapEnd
<1>4. ASSUME NEW q \in DOMAIN l \ {p}
      PROVE  p + l[p] <= q \/ q + l[q] <= p
  <2>1. /\ p \in Nat /\ q \in Nat /\ l[p] \in Nat /\ l[q] \in Nat
        /\ p + l[p] <= End(m, p - Header) /\ q + l[q] <= End(m, q - Header)
        /\ End(m, p - Header) \in Nat /\ End(m, q - Header) \in Nat
    BY <1>2
  <2>2. p - Header \in DOMAIN m /\ q - Header \in DOMAIN m
    OBVIOUS
  <2>3. CASE p - Header < q - Header
    <3>1. End(m, p - Header) <= q - Header
      BY <2>2, <2>3, <1>1 DEF ChunksApart
    <3> QED
      BY <2>1, <3>1
  <2>4. CASE q - Header < p - Header
    <3>1. End(m, q - Header) <= p - Header
      BY <2>2, <2>4, <1>1 DEF ChunksApart
    <3> QED
      BY <2>1, <3>1
  <2> QED
    BY <2>1, <2>3, <2>4
<1> QED
  BY <1>3, <1>4

(* A malloc that succeeds is an allocation of the promised heap.           *)
LEMMA HoldIsAlloc ==
    ASSUME IInv, IInv', NEW p, NEW size \in Sizes, Hold(p, size),
           p \notin DOMAIN live
    PROVE  HeapPromise!Next
<1>1. /\ DOMAIN live' = DOMAIN live \union {p}
      /\ live'[p] = size
      /\ \A q \in DOMAIN live : live'[q] = live[q]
      /\ live' = [q \in DOMAIN live \union {p} |->
                    IF q = p THEN size ELSE live[q]]
  BY DEF Hold
<1>2. /\ Linked(chunk')
      /\ \A q \in DOMAIN live' :
            /\ q \in Nat /\ q - Header \in DOMAIN chunk'
            /\ live'[q] \in Nat /\ live'[q] <= chunk'[q - Header].size
  <2>1. ASSUME NEW q \in DOMAIN live'
        PROVE  /\ q \in Nat /\ q - Header \in DOMAIN chunk'
               /\ live'[q] \in Nat /\ live'[q] <= chunk'[q - Header].size
    <3>1. /\ q \in Nat /\ live'[q] \in Nat
      BY DEF IInv, TypeOK, Address, HeapEnd
    <3>2. /\ q - Header \in DOMAIN chunk'
          /\ chunk'[q - Header].size \in live'[q] .. live'[q] + Header
      BY DEF IInv, LiveIsAllocated
    <3> QED
      BY <3>1, <3>2
  <2> QED
    BY <2>1 DEF IInv
<1>3. p \in DOMAIN live' /\ p \in Address
  BY <1>1 DEF IInv, TypeOK
<1>4. /\ p + size \in Address
      /\ \A q \in DOMAIN live : p + size <= q \/ q + live[q] <= p
  <2>1. /\ p + live'[p] \in Address
        /\ \A q \in DOMAIN live' \ {p} : p + live'[p] <= q \/ q + live'[q] <= p
    BY <1>2, <1>3, BlocksApart
  <2> QED
    BY <2>1, <1>1
<1>5. HeapPromise!Alloc(p, size)
  BY <1>1, <1>4 DEF HeapPromise!Alloc, HeapPromise!HeapBytes,
     HeapPromise!Apart, Address, HeapEnd
<1> QED
  BY <1>3, <1>5 DEF HeapPromise!Next, HeapPromise!HeapBytes, Address, HeapEnd

(* The free list implements the allocator's promise: blocks inside the     *)
(* heap, never overlapping, held until their owner frees them.             *)
THEOREM Implementation == Spec => ImplementsHeap
<1>1. Init => HeapPromise!Init
  BY DEF Init, HeapPromise!Init
<1>2. IInv /\ IInv' /\ [Next]_vars => [HeapPromise!Next]_live
  <2> SUFFICES ASSUME IInv, IInv', Next
               PROVE  HeapPromise!Next \/ UNCHANGED live
    BY DEF vars
  <2>1. ASSUME NEW size \in Sizes, malloc(size)
        PROVE  HeapPromise!Next \/ UNCHANGED live
    <3>1. ASSUME NEW c \in DOMAIN chunk, FirstFit(c, size), Hold(c + Header, size)
          PROVE  HeapPromise!Next
      <4>1. c + Header \notin DOMAIN live
        BY <3>1 DEF IInv, LiveIsAllocated, FirstFit, Fits
      <4> QED
        BY <3>1, <4>1, HoldIsAlloc
    <3> QED
      BY <2>1, <3>1 DEF malloc, MallocSplit, MallocWhole, MallocFails, vars
  <2>2. ASSUME NEW ptr \in DOMAIN live, free(ptr)
        PROVE  HeapPromise!Next
    BY <2>2 DEF free, HeapPromise!Next, HeapPromise!Release
  <2>3. ASSUME NEW size \in Sizes, OperatorNew(size)
        PROVE  malloc(size) \/ UNCHANGED vars
    BY <2>3 DEF OperatorNew
  <2>4. ASSUME NEW ptr \in DOMAIN live, OperatorDelete(ptr)
        PROVE  free(ptr) \/ UNCHANGED vars
    BY <2>4 DEF OperatorDelete
  <2> QED
    BY <2>1, <2>2, <2>3, <2>4 DEF Next, Destroy, vars
<1> QED
  BY <1>1, <1>2, Invariance, PTL DEF Spec, ImplementsHeap, HeapPromise!Spec
=============================================================================
