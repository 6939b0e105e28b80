---------------------------- MODULE ShellProofs ----------------------------
(***************************************************************************)
(* The line editor for every length of the line, every set of characters   *)
(* and whatever is in the buffer at first.                                 *)
(***************************************************************************)
EXTENDS Shell, SequenceTheorems, WellFoundedInduction, TLAPS

Char == Letters \cup Blank \cup {NUL}

\* BufferIsScreen needs nothing but the type of what was typed.
ShellInv == BufferIsScreen /\ typed \in Seq(Char)

LEMMA SizeFacts == LineSize \in Nat \ {0} /\ Index = 0 .. LineSize - 1 /\ 0 \in Index
  BY ShellAssumption DEF Index

\* A set of numbers has a least one.
LEMMA MinFacts ==
  ASSUME NEW S \in SUBSET Nat, S # {}
  PROVE  Min(S) \in S /\ \A y \in S : Min(S) <= y
<1> DEFINE R == OpToRel(<, Nat)
<1>1. IsWellFoundedOn(R, Nat)
  BY NatLessThanWellFounded, Zenon
<1> HIDE DEF R
<1>2. PICK x \in S : \A y \in S : ~(<<y, x>> \in R)
  BY <1>1, WFMin
<1>3. \A y \in S : ~(y < x)
  BY <1>2 DEF R, OpToRel
<1>4. \A y \in S : x <= y
  BY <1>3
<1> QED
  BY <1>4 DEF Min

\* The first index from i on where a condition holds, or the one behind.
LEMMA SkipFacts ==
  ASSUME NEW i \in Nat
  PROVE  LET x == SkipBlanks(i)
         IN  /\ x \in Nat /\ (x \in i .. LineSize - 1 \/ x = LineSize)
             /\ x < LineSize => line[x] \notin Blank
             /\ \A j \in i .. LineSize - 1 : j < x => line[j] \in Blank
<1> DEFINE S == {j \in i .. LineSize - 1 : line[j] \notin Blank} \cup {LineSize}
<1>1. S \in SUBSET Nat /\ S # {}
  BY SizeFacts
<1>2. \A j \in i .. LineSize - 1 : line[j] \notin Blank => j \in S
  OBVIOUS
<1>3. \A x \in S : x = LineSize \/ (x \in i .. LineSize - 1 /\ line[x] \notin Blank)
  OBVIOUS
<1>4. SkipBlanks(i) = Min(S)
  BY DEF SkipBlanks
<1> HIDE DEF S
<1>5. SkipBlanks(i) \in S /\ \A y \in S : SkipBlanks(i) <= y
  BY <1>1, <1>4, MinFacts
<1>6. SkipBlanks(i) \in Nat
  BY <1>1, <1>5
<1>7. \A j \in i .. LineSize - 1 : j < SkipBlanks(i) => line[j] \in Blank
  BY <1>2, <1>5, <1>6
<1> QED
  BY <1>3, <1>5, <1>6, <1>7

LEMMA EndFacts ==
  ASSUME NEW i \in Nat
  PROVE  LET x == EndOf(i)
         IN  /\ x \in Nat /\ (x \in i .. LineSize - 1 \/ x = LineSize)
             /\ x < LineSize => line[x] = NUL
             /\ \A j \in i .. LineSize - 1 : j < x => line[j] # NUL
<1> DEFINE S == {j \in i .. LineSize - 1 : line[j] = NUL} \cup {LineSize}
<1>1. S \in SUBSET Nat /\ S # {}
  BY SizeFacts
<1>2. \A j \in i .. LineSize - 1 : line[j] = NUL => j \in S
  OBVIOUS
<1>3. \A x \in S : x = LineSize \/ (x \in i .. LineSize - 1 /\ line[x] = NUL)
  OBVIOUS
<1>4. EndOf(i) = Min(S)
  BY DEF EndOf
<1> HIDE DEF S
<1>5. EndOf(i) \in S /\ \A y \in S : EndOf(i) <= y
  BY <1>1, <1>4, MinFacts
<1>6. EndOf(i) \in Nat
  BY <1>1, <1>5
<1>7. \A j \in i .. LineSize - 1 : j < EndOf(i) => line[j] # NUL
  BY <1>2, <1>5, <1>6
<1> QED
  BY <1>3, <1>5, <1>6, <1>7
-----------------------------------------------------------------------------
(* The buffer and the screen.                                              *)

\* An empty line.
LEMMA EmptyLine ==
  ASSUME line' = Zeroes, lineCount' = 0, typed' = <<>>, clean' \in BOOLEAN,
         outside' \in BOOLEAN, up' \in BOOLEAN
  PROVE  ShellInv'
<1>1. TypeOK' /\ typed' \in Seq(Char) /\ Len(typed') = 0
  BY SizeFacts DEF TypeOK, Zeroes, Char
<1>2. \A j \in 0 .. LineSize - 1 : line'[j] = NUL
  BY DEF Zeroes, Index
<1> QED
  BY <1>1, <1>2, SizeFacts DEF ShellInv, BufferIsScreen

LEMMA InitShell == Init => ShellInv
<1> SUFFICES ASSUME Init PROVE ShellInv
  OBVIOUS
<1>1. TypeOK /\ typed \in Seq(Char) /\ Len(typed) = 0 /\ lineCount = 0
  BY SizeFacts, ShellAssumption DEF Init, TypeOK
<1>2. clean => \A j \in 0 .. LineSize - 1 : line[j] = NUL
  BY DEF Init, Zeroes, Index
<1> QED
  BY <1>1, <1>2, SizeFacts DEF ShellInv, BufferIsScreen

LEMMA EnterBlankShell ==
  ASSUME ShellInv, EnterBlank
  PROVE  ShellInv'
<1>1. /\ line' = line /\ lineCount' = lineCount /\ typed' = <<>> /\ clean' = clean
      /\ TypeOK /\ outside' \in BOOLEAN /\ up' = up
  BY DEF ShellInv, BufferIsScreen, EnterBlank
<1>2. TypeOK' /\ typed' \in Seq(Char) /\ Len(typed') = 0
  BY <1>1 DEF TypeOK
<1>3. lineCount \in 0 .. LineSize - 1 /\ lineCount \in Nat
  BY <1>1, SizeFacts DEF TypeOK
<1>4. clean => \A j \in lineCount .. LineSize - 1 : line[j] = NUL
  BY DEF ShellInv, BufferIsScreen
<1> DEFINE x == SkipBlanks(0)
<1> HIDE DEF x
<1>5. /\ x \in Nat /\ (x \in 0 .. LineSize - 1 \/ x = LineSize)
      /\ \A j \in 0 .. LineSize - 1 : j < x => line[j] \in Blank
  <2>1. 0 \in Nat
    OBVIOUS
  <2> QED
    BY <2>1, SkipFacts DEF x
<1>6. x < LineSize => line[x] = NUL
  BY <1>5, SizeFacts DEF EnterBlank, isEmpty, x
<1>7. \/ \A j \in 0 .. lineCount - 1 : line[j] \in Blank
      \/ \E j \in 0 .. lineCount - 1 : line[j] = NUL /\ \A k \in 0 .. j - 1 : line[k] \in Blank
  <2>1. CASE x < lineCount
    <3>1. x \in 0 .. lineCount - 1 /\ line[x] = NUL /\ \A k \in 0 .. x - 1 : line[k] \in Blank
      BY <2>1, <1>3, <1>5, <1>6, SizeFacts
    <3> QED
      BY <3>1
  <2>2. CASE lineCount <= x
    BY <2>2, <1>3, <1>5, SizeFacts
  <2> QED
    BY <2>1, <2>2, <1>3, <1>5
<1> QED
  BY <1>1, <1>2, <1>3, <1>4, <1>7 DEF ShellInv, BufferIsScreen

LEMMA DeleteShell ==
  ASSUME ShellInv, Delete
  PROVE  ShellInv'
<1>0. outside' \in BOOLEAN
  <2>1. outside' = FALSE
    BY DEF Delete, NoCall
  <2> QED BY <2>1
<1>1. /\ TypeOK /\ typed \in Seq(Char) /\ Len(typed) \in Nat
      /\ clean' = clean /\ outside' \in BOOLEAN /\ up' = up
  BY <1>0 DEF ShellInv, BufferIsScreen, Delete
<1>2. lineCount \in 0 .. LineSize - 1 /\ line \in [Index -> Char]
  BY <1>1, SizeFacts DEF TypeOK, Char
<1>3. CASE ~(lineCount > 0)
  BY <1>1, <1>3 DEF Delete, ShellInv, BufferIsScreen, TypeOK
<1>4. CASE lineCount > 0
  <2>1. /\ line' = [line EXCEPT ![lineCount - 1] = NUL] /\ lineCount' = lineCount - 1
        /\ typed' = IF typed = <<>> THEN <<>> ELSE Front(typed)
    BY <1>4 DEF Delete, Erased
  <2>2. /\ lineCount - 1 \in Index /\ lineCount' \in Index /\ line' \in [Index -> Char]
        /\ \A j \in Index : line'[j] = IF j = lineCount - 1 THEN NUL ELSE line[j]
    BY <1>2, <1>4, <2>1, SizeFacts DEF Char
  <2>3. TypeOK'
    BY <1>1, <2>2 DEF TypeOK, Char
  <2>4. /\ typed' \in Seq(Char) /\ Len(typed') \in Nat
        /\ typed = <<>> => Len(typed) = 0 /\ Len(typed') = 0
        /\ typed # <<>> => /\ Len(typed') = Len(typed) - 1
                           /\ \A j \in 1 .. Len(typed') : typed'[j] = typed[j]
    <3>1. CASE typed = <<>>
      BY <3>1, <2>1
    <3>2. CASE typed # <<>>
      <4>1. Len(typed) >= 1 /\ typed' = SubSeq(typed, 1, Len(typed) - 1)
        BY <1>1, <2>1, <3>2 DEF Front
      <4>2. /\ typed' \in Seq(Char) /\ Len(typed') = Len(typed) - 1
            /\ \A j \in 1 .. Len(typed) - 1 : typed'[j] = typed[j]
        <5>1. Len(typed) - 1 \in Int /\ 1 \in Int /\ Len(typed) - 1 - 1 + 1 = Len(typed) - 1
          BY <1>1
        <5>2. \A i \in 1 .. Len(typed) - 1 : typed[i] \in Char
          BY <1>1
        <5>3. /\ typed' \in Seq(Char)
              /\ Len(typed') = IF 1 <= Len(typed) - 1 THEN Len(typed) - 1 - 1 + 1 ELSE 0
              /\ \A i \in 1 .. Len(typed) - 1 - 1 + 1 : typed'[i] = typed[1 + i - 1]
          BY <4>1, <5>1, <5>2, SubSeqProperties
        <5> QED
          BY <5>1, <5>3, <4>1, <1>1
      <4> QED
        BY <4>2, <3>2, <1>1, <4>1
    <3> QED
      BY <3>1, <3>2
  <2>5. ASSUME clean
        PROVE  LET kept == lineCount' - Len(typed')
               IN  /\ kept >= 0
                   /\ \A j \in 1 .. Len(typed') : line'[kept + j - 1] = typed'[j]
                   /\ \/ \A j \in 0 .. kept - 1 : line'[j] \in Blank
                      \/ \E j \in 0 .. kept - 1 :
                           line'[j] = NUL /\ \A k \in 0 .. j - 1 : line'[k] \in Blank
                   /\ \A j \in lineCount' .. LineSize - 1 : line'[j] = NUL
    <3> DEFINE m == lineCount - Len(typed)
    <3>1. /\ m >= 0 /\ \A j \in 1 .. Len(typed) : line[m + j - 1] = typed[j]
          /\ \A j \in lineCount .. LineSize - 1 : line[j] = NUL
      BY <2>5 DEF ShellInv, BufferIsScreen
    <3>2. \/ \A j \in 0 .. m - 1 : line[j] \in Blank
          \/ \E j \in 0 .. m - 1 : line[j] = NUL /\ \A k \in 0 .. j - 1 : line[k] \in Blank
      BY <2>5 DEF ShellInv, BufferIsScreen
    <3>3. \A j \in lineCount' .. LineSize - 1 : line'[j] = NUL
      BY <1>2, <1>4, <2>1, <2>2, <3>1 DEF Index
    <3>4. CASE typed # <<>>
      <4>1. lineCount' - Len(typed') = m /\ m \in Nat /\ m + Len(typed) = lineCount
            /\ Len(typed') = Len(typed) - 1
        <5>1. lineCount' = lineCount - 1 /\ Len(typed') = Len(typed) - 1
          BY <2>1, <2>4, <3>4
        <5>2. m \in Nat
          BY <1>1, <1>2, <3>1, SizeFacts
        <5> QED
          BY <5>1, <5>2, <1>1, <1>2, SizeFacts
      <4> HIDE DEF m
      <4>2. \A j \in 0 .. lineCount - 2 : line'[j] = line[j]
        <5>1. \A j \in 0 .. lineCount - 2 : j \in Index /\ j # lineCount - 1
          BY <1>2, SizeFacts
        <5> QED
          BY <5>1, <2>2
      <4>3. \A j \in 1 .. Len(typed') : line'[m + j - 1] = typed'[j]
        <5> SUFFICES ASSUME NEW j \in 1 .. Len(typed') PROVE line'[m + j - 1] = typed'[j]
          OBVIOUS
        <5>1. j \in 1 .. Len(typed) /\ m + j - 1 \in 0 .. lineCount - 2
          BY <1>1, <1>2, <4>1
        <5>2. typed'[j] = typed[j]
          BY <2>4, <3>4
        <5> QED
          BY <3>1, <4>2, <5>1, <5>2
      <4>4. \A j \in 0 .. m - 1 : line'[j] = line[j]
        BY <1>1, <1>2, <2>4, <4>1, <4>2
      <4>5. \/ \A j \in 0 .. m - 1 : line'[j] \in Blank
            \/ \E j \in 0 .. m - 1 : line'[j] = NUL /\ \A k \in 0 .. j - 1 : line'[k] \in Blank
        BY <3>2, <4>1, <4>4
      <4> QED
        BY <3>3, <4>1, <4>3, <4>5
    <3>5. CASE typed = <<>>
      <4>1. m = lineCount /\ lineCount' - Len(typed') = lineCount - 1 /\ Len(typed') = 0
        BY <1>2, <2>1, <2>4, <3>5
      <4>2. \A j \in 0 .. lineCount - 2 : line'[j] = line[j]
        <5>1. \A j \in 0 .. lineCount - 2 : j \in Index /\ j # lineCount - 1
          BY <1>2, SizeFacts
        <5> QED
          BY <5>1, <2>2
      <4>3. \/ \A j \in 0 .. lineCount - 2 : line'[j] \in Blank
            \/ \E j \in 0 .. lineCount - 2 :
                 line'[j] = NUL /\ \A k \in 0 .. j - 1 : line'[k] \in Blank
        <5>1. CASE \A j \in 0 .. lineCount - 1 : line[j] \in Blank
          BY <5>1, <4>2, <1>2
        <5>2. ASSUME NEW j \in 0 .. lineCount - 1, line[j] = NUL,
                     \A k \in 0 .. j - 1 : line[k] \in Blank
              PROVE  \/ \A i \in 0 .. lineCount - 2 : line'[i] \in Blank
                     \/ \E i \in 0 .. lineCount - 2 :
                          line'[i] = NUL /\ \A k \in 0 .. i - 1 : line'[k] \in Blank
          <6>1. CASE j = lineCount - 1
            BY <6>1, <5>2, <4>2, <1>2
          <6>2. CASE j # lineCount - 1
            <7>1. j \in 0 .. lineCount - 2 /\ line'[j] = NUL
                  /\ \A k \in 0 .. j - 1 : line'[k] \in Blank
              BY <6>2, <5>2, <4>2, <1>2
            <7> QED
              BY <7>1
          <6> QED
            BY <6>1, <6>2
        <5> QED
          BY <5>1, <5>2, <3>2, <4>1
      <4> QED
        BY <3>3, <4>1, <4>3, <1>2, <1>4
    <3> QED
      BY <3>4, <3>5
  <2> QED
    BY <1>1, <2>3, <2>4, <2>5 DEF ShellInv, BufferIsScreen
<1> QED
  BY <1>3, <1>4

LEMMA TypeShell ==
  ASSUME ShellInv, NEW c \in Char, Type(c)
  PROVE  ShellInv'
<1>0. outside' \in BOOLEAN
  <2>1. outside' = FALSE
    BY DEF Type, NoCall
  <2> QED BY <2>1
<1>1. /\ TypeOK /\ typed \in Seq(Char) /\ Len(typed) \in Nat
      /\ clean' = clean /\ outside' \in BOOLEAN /\ up' = up
  BY <1>0 DEF ShellInv, BufferIsScreen, Type
<1>2. lineCount \in 0 .. LineSize - 1 /\ line \in [Index -> Char]
  BY <1>1, SizeFacts DEF TypeOK, Char
<1>3. CASE ~HasPlace
  BY <1>1, <1>3 DEF Type, ShellInv, BufferIsScreen, TypeOK
<1>4. CASE HasPlace
  <2>1. /\ line' = [line EXCEPT ![lineCount] = c] /\ lineCount' = lineCount + 1
        /\ typed' = Append(typed, c)
    BY <1>4 DEF Type
  <2>2. /\ lineCount \in Index /\ lineCount' \in Index /\ line' \in [Index -> Char]
        /\ \A j \in Index : line'[j] = IF j = lineCount THEN c ELSE line[j]
    BY <1>2, <1>4, <2>1, SizeFacts DEF HasPlace
  <2>3. TypeOK'
    BY <1>1, <2>2 DEF TypeOK, Char
  <2>4. /\ typed' \in Seq(Char) /\ Len(typed') = Len(typed) + 1
        /\ typed'[Len(typed) + 1] = c /\ \A j \in 1 .. Len(typed) : typed'[j] = typed[j]
    BY <1>1, <2>1
  <2>5. ASSUME clean
        PROVE  LET kept == lineCount' - Len(typed')
               IN  /\ kept >= 0
                   /\ \A j \in 1 .. Len(typed') : line'[kept + j - 1] = typed'[j]
                   /\ \/ \A j \in 0 .. kept - 1 : line'[j] \in Blank
                      \/ \E j \in 0 .. kept - 1 :
                           line'[j] = NUL /\ \A k \in 0 .. j - 1 : line'[k] \in Blank
                   /\ \A j \in lineCount' .. LineSize - 1 : line'[j] = NUL
    <3> DEFINE m == lineCount - Len(typed)
    <3>1. /\ m >= 0 /\ \A j \in 1 .. Len(typed) : line[m + j - 1] = typed[j]
          /\ \A j \in lineCount .. LineSize - 1 : line[j] = NUL
      BY <2>5 DEF ShellInv, BufferIsScreen
    <3>2. \/ \A j \in 0 .. m - 1 : line[j] \in Blank
          \/ \E j \in 0 .. m - 1 : line[j] = NUL /\ \A k \in 0 .. j - 1 : line[k] \in Blank
      BY <2>5 DEF ShellInv, BufferIsScreen
    <3>3. \A j \in lineCount' .. LineSize - 1 : line'[j] = NUL
      BY <1>2, <2>1, <2>2, <3>1 DEF Index
    <3>4. lineCount' - Len(typed') = m /\ m \in Nat /\ m + Len(typed) = lineCount
      BY <1>1, <1>2, <2>1, <2>4, <3>1
    <3> HIDE DEF m
    <3>5. \A j \in 0 .. lineCount - 1 : line'[j] = line[j]
      <4>1. \A j \in 0 .. lineCount - 1 : j \in Index /\ j # lineCount
        BY <1>2, SizeFacts
      <4> QED
        BY <4>1, <2>2
    <3>6. \A j \in 1 .. Len(typed') : line'[m + j - 1] = typed'[j]
      <4> SUFFICES ASSUME NEW j \in 1 .. Len(typed') PROVE line'[m + j - 1] = typed'[j]
        OBVIOUS
      <4>1. CASE j = Len(typed) + 1
        <5>1. m + j - 1 = lineCount
          BY <4>1, <1>1, <1>2, <3>4
        <5> QED
          BY <5>1, <4>1, <2>2, <2>4
      <4>2. CASE j # Len(typed) + 1
        <5>1. j \in 1 .. Len(typed) /\ m + j - 1 \in 0 .. lineCount - 1
          BY <4>2, <1>1, <1>2, <2>4, <3>4
        <5> QED
          BY <5>1, <2>4, <3>1, <3>5
      <4> QED
        BY <4>1, <4>2
    <3>7. \A j \in 0 .. m - 1 : line'[j] = line[j]
      BY <1>1, <1>2, <3>4, <3>5
    <3>8. \/ \A j \in 0 .. m - 1 : line'[j] \in Blank
          \/ \E j \in 0 .. m - 1 : line'[j] = NUL /\ \A k \in 0 .. j - 1 : line'[k] \in Blank
      BY <3>2, <3>4, <3>7
    <3> QED
      BY <3>3, <3>4, <3>6, <3>8
  <2> QED
    BY <1>1, <2>3, <2>4, <2>5 DEF ShellInv, BufferIsScreen
<1> QED
  BY <1>3, <1>4

LEMMA StepShell == ShellInv /\ [Next]_vars => ShellInv'
<1> SUFFICES ASSUME ShellInv, [Next]_vars PROVE ShellInv'
  OBVIOUS
<1>1. outside \in BOOLEAN /\ up \in BOOLEAN
  BY DEF ShellInv, BufferIsScreen, TypeOK
<1>2. CASE EnterBlank
  BY <1>2, EnterBlankShell
<1>3. CASE EnterCommand
  BY <1>1, <1>3, EmptyLine DEF EnterCommand, Escapes
<1>4. CASE CtrlC
  BY <1>1, <1>4, EmptyLine DEF CtrlC, NoCall
<1>5. CASE Delete
  BY <1>5, DeleteShell
<1>6. ASSUME NEW c \in Char, Type(c)
      PROVE  ShellInv'
  BY <1>6, TypeShell
<1>7. CASE UNCHANGED vars
  BY <1>7 DEF vars, ShellInv, BufferIsScreen, TypeOK
<1> QED
  BY <1>2, <1>3, <1>4, <1>5, <1>6, <1>7 DEF Next, Down, Char

LEMMA ShellInvariant == Spec => []ShellInv
  BY InitShell, StepShell, PTL DEF Spec

\* Whatever is typed, deleted, interrupted and kept over blank lines, lineCount
\* stays in line and the screen shows what the buffer holds.
THEOREM ScreenIsBuffer == Spec => []BufferIsScreen
<1>1. ShellInv => BufferIsScreen
  BY DEF ShellInv
<1> QED
  BY <1>1, ShellInvariant, PTL
-----------------------------------------------------------------------------
(* Reads of the buffer.                                                    *)

\* A string that ends in line is the part of line up to its end.
LEMMA TextFacts ==
  ASSUME NEW i \in Nat, line \in [Index -> Char], EndOf(i) # LineSize, NEW g
  PROVE  /\ EndOf(i) - i \in Nat /\ EndOf(i) \in i .. LineSize - 1
         /\ TextAt(i, g) \in Seq(Char) /\ Len(TextAt(i, g)) = EndOf(i) - i
         /\ \A j \in 1 .. EndOf(i) - i : TextAt(i, g)[j] = line[i + j - 1]
<1> DEFINE e == EndOf(i)
           h == [j \in 1 .. e - i |-> line[i + j - 1]]
<1>1. e \in Nat /\ e \in i .. LineSize - 1
  BY EndFacts
<1>2. TextAt(i, g) = h \o <<>>
  BY DEF TextAt
<1> HIDE DEF e
<1>3. e - i \in Nat
  BY <1>1, SizeFacts
<1>4. \A j \in 1 .. e - i : i + j - 1 \in Index
  BY <1>1, SizeFacts
<1>5. \A j \in 1 .. e - i : line[i + j - 1] \in Char
  BY <1>4
<1>6. h \in Seq(Char) /\ Len(h) = e - i
  BY <1>3, <1>5
<1>7. \A j \in 1 .. e - i : h[j] = line[i + j - 1]
  OBVIOUS
<1> HIDE DEF h
<1>8. TextAt(i, g) = h
  BY <1>2, <1>6
<1> QED
  BY <1>1, <1>3, <1>6, <1>7, <1>8 DEF e

\* With a zero in its last place, a string that begins in line ends in it.
LEMMA EndsInside ==
  ASSUME NEW i \in Index, line[LineSize - 1] = NUL
  PROVE  EndOf(i) # LineSize /\ SkipBlanks(i) \in Index
<1>1. i \in Nat /\ LineSize - 1 \in i .. LineSize - 1 /\ LineSize - 1 < LineSize
  BY SizeFacts
<1>2. EndOf(i) # LineSize
  BY <1>1, EndFacts
<1>3. NUL \notin Blank
  BY DEF NUL, Blank
<1>4. SkipBlanks(i) # LineSize
  BY <1>1, <1>3, SkipFacts
<1>5. SkipBlanks(i) \in i .. LineSize - 1
  BY <1>1, <1>4, SkipFacts
<1> QED
  BY <1>1, <1>2, <1>5, SizeFacts

\* A word of two letters is followed by a place in line.
LEMMA WordOfTwo ==
  ASSUME NEW i \in Nat, line \in [Index -> Char], EndOf(i) # LineSize,
         NEW a, NEW b, Begins(i, <<a, b>>)
  PROVE  i + 2 <= EndOf(i) /\ EndOf(i) <= LineSize - 1
<1>1. IsPrefix(<<a, b>>, TextAt(i, <<>>))
  BY DEF Begins
<1>2. Len(<<a, b>>) <= Len(TextAt(i, <<>>))
  BY <1>1 DEF IsPrefix
<1>3. EndOf(i) - i \in Nat /\ EndOf(i) \in i .. LineSize - 1
      /\ Len(TextAt(i, <<>>)) = EndOf(i) - i
  BY TextFacts
<1> QED
  BY <1>2, <1>3, SizeFacts

LEMMA EscapeIsEdge ==
  ASSUME ShellInv, clean, ~isEmpty, Escapes(SkipBlanks(0))
  PROVE  lineCount = LineSize - 1 /\ SkipBlanks(0) = LineSize - 3
<1>1. /\ lineCount \in 0 .. LineSize - 1 /\ line \in [Index -> Char]
      /\ \A j \in lineCount .. LineSize - 1 : line[j] = NUL
  BY SizeFacts DEF ShellInv, BufferIsScreen, TypeOK, Char
<1>2. line[LineSize - 1] = NUL
  BY <1>1, SizeFacts
<1> DEFINE i == SkipBlanks(0)
<1> HIDE DEF i
<1>3. i \in Index /\ i \in Nat
  BY SizeFacts DEF isEmpty, i
<1>4. EndOf(i) # LineSize
  BY <1>2, <1>3, EndsInside
<1>5. /\ Begins(i, <<"l", "s">>) \/ Begins(i, <<"c", "d">>)
      /\ EndOf(ArgAt(i)) = LineSize
  BY <1>4 DEF Escapes, i
<1>6. i + 2 <= EndOf(i) /\ EndOf(i) <= LineSize - 1 /\ EndOf(i) \in Nat
  BY <1>1, <1>3, <1>4, <1>5, WordOfTwo, EndFacts
<1>7. ArgAt(i) \notin Index
  BY <1>2, <1>5, EndsInside
<1>8. i + 3 \notin Index
  BY <1>2, <1>7, EndsInside DEF ArgAt
<1>9. i = LineSize - 3
  BY <1>3, <1>6, <1>8, SizeFacts
<1>10. LineSize - 2 \in i .. LineSize - 1 /\ LineSize - 2 < EndOf(i)
  BY <1>3, <1>6, <1>9, SizeFacts
<1>11. line[LineSize - 2] # NUL
  BY <1>3, <1>10, EndFacts
<1>12. lineCount = LineSize - 1
  BY <1>1, <1>10, <1>11, SizeFacts
<1> QED
  BY <1>9, <1>12 DEF i

\* For every size of the line, once it has been emptied only ls and cd as the
\* last two characters of a full line make the shell read behind the buffer.
THEOREM ReadsAreInside == Spec => ReadsStayInside
<1>1. ASSUME ShellInv, Next, vars' # vars
      PROVE  outside' => asked'.edge \/ ~clean
  <2>1. CASE EnterCommand
    <3>1. outside' = Escapes(SkipBlanks(0)) /\ ~isEmpty
      BY <2>1 DEF EnterCommand
    <3>2. asked'.edge = (lineCount = LineSize - 1 /\ SkipBlanks(0) = LineSize - 3)
      BY <2>1 DEF EnterCommand
    <3> QED
      BY <1>1, <3>1, <3>2, EscapeIsEdge
  <2>2. CASE ~EnterCommand
    BY <1>1, <2>2 DEF Next, EnterBlank, CtrlC, Delete, Type, Down, NoCall, vars
  <2> QED
    BY <2>1, <2>2
<1>2. ShellInv /\ [Next]_vars => [outside' => asked'.edge \/ ~clean]_vars
  BY <1>1
<1> QED
  BY <1>2, ShellInvariant, PTL DEF Spec, ReadsStayInside
-----------------------------------------------------------------------------
(* What is done and what was typed.  Behind m blanks, line holds the text   *)
(* typed, without a NUL, and zeroes.                                       *)

Window(m) ==
  /\ m \in Nat /\ lineCount = m + Len(typed)
  /\ lineCount \in Index
  /\ line \in [Index -> Char]
  /\ typed \in Seq(Char)
  /\ \A j \in 0 .. m - 1 : line[j] \in Blank
  /\ \A j \in 1 .. Len(typed) : line[m + j - 1] = typed[j] /\ typed[j] # NUL
  /\ \A j \in lineCount .. LineSize - 1 : line[j] = NUL

LEMMA PlainIsWindow ==
  ASSUME ShellInv, Plain
  PROVE  Window(lineCount - Len(typed))
<1> DEFINE m == lineCount - Len(typed)
<1>1. /\ lineCount \in Index /\ line \in [Index -> Char] /\ typed \in Seq(Char)
      /\ clean /\ \A j \in 0 .. lineCount - 1 : line[j] # NUL
  BY DEF ShellInv, BufferIsScreen, TypeOK, Char, Plain
<1>2. /\ m >= 0
      /\ \A j \in 1 .. Len(typed) : line[m + j - 1] = typed[j]
      /\ \A j \in lineCount .. LineSize - 1 : line[j] = NUL
  BY <1>1 DEF ShellInv, BufferIsScreen
<1>3. \/ \A j \in 0 .. m - 1 : line[j] \in Blank
      \/ \E j \in 0 .. m - 1 : line[j] = NUL /\ \A k \in 0 .. j - 1 : line[k] \in Blank
  BY <1>1 DEF ShellInv, BufferIsScreen
<1>4. Len(typed) \in Nat /\ lineCount \in Nat
  BY <1>1, SizeFacts
<1>5. m \in Nat /\ lineCount = m + Len(typed)
  BY <1>2, <1>4
<1> HIDE DEF m
<1>6. \A j \in 0 .. m - 1 : j \in 0 .. lineCount - 1
  BY <1>4, <1>5
<1>7. \A j \in 0 .. m - 1 : line[j] \in Blank
  BY <1>1, <1>3, <1>6
<1>8. \A j \in 1 .. Len(typed) : m + j - 1 \in 0 .. lineCount - 1
  BY <1>4, <1>5
<1>9. \A j \in 1 .. Len(typed) : line[m + j - 1] = typed[j] /\ typed[j] # NUL
  BY <1>1, <1>2, <1>8
<1>10. Window(m)
  BY <1>1, <1>2, <1>5, <1>7, <1>9 DEF Window
<1> QED
  BY <1>10 DEF m

\* The places of a window.
LEMMA WindowFacts ==
  ASSUME NEW m, Window(m)
  PROVE  /\ m \in Nat /\ Len(typed) \in Nat /\ typed \in Seq(Char)
         /\ lineCount = m + Len(typed) /\ m + Len(typed) < LineSize /\ LineSize \in Nat
         /\ \A a \in 0 .. Len(typed) - 1 : line[m + a] = typed[a + 1] /\ line[m + a] # NUL
         /\ \A j \in lineCount .. LineSize - 1 : line[j] = NUL
<1>1. /\ m \in Nat /\ Len(typed) \in Nat /\ typed \in Seq(Char)
      /\ lineCount = m + Len(typed) /\ m + Len(typed) < LineSize /\ LineSize \in Nat
  BY SizeFacts DEF Window
<1>2. \A j \in lineCount .. LineSize - 1 : line[j] = NUL
  BY DEF Window
<1>3. ASSUME NEW a \in 0 .. Len(typed) - 1
      PROVE  line[m + a] = typed[a + 1] /\ line[m + a] # NUL
  <2>1. a + 1 \in 1 .. Len(typed) /\ m + (a + 1) - 1 = m + a
    BY <1>1
  <2>2. line[m + (a + 1) - 1] = typed[a + 1] /\ typed[a + 1] # NUL
    BY <2>1 DEF Window
  <2> QED
    BY <2>1, <2>2
<1> QED
  BY <1>1, <1>2, <1>3

\* What is left of a text without its first a characters.
LEMMA SuffixFacts ==
  ASSUME NEW t \in Seq(Char), NEW a \in 0 .. Len(t)
  PROVE  LET u == SubSeq(t, a + 1, Len(t))
         IN  /\ u \in Seq(Char) /\ Len(u) = Len(t) - a /\ Len(t) - a \in Nat
             /\ \A j \in 1 .. Len(t) - a : u[j] = t[a + j]
<1> DEFINE n == Len(t)
           u == SubSeq(t, a + 1, n)
<1>1. n \in Nat /\ a \in Nat /\ a <= n
  OBVIOUS
<1>2. a + 1 \in Int /\ n \in Int /\ \A j \in a + 1 .. n : t[j] \in Char
  BY <1>1
<1>3. /\ u \in Seq(Char) /\ Len(u) = IF a + 1 <= n THEN n - (a + 1) + 1 ELSE 0
      /\ \A j \in 1 .. n - (a + 1) + 1 : u[j] = t[(a + 1) + j - 1]
  BY <1>2, SubSeqProperties
<1> HIDE DEF u, n
<1>4. n - (a + 1) + 1 = n - a /\ \A j \in 1 .. n - a : (a + 1) + j - 1 = a + j
  BY <1>1
<1>5. Len(u) = n - a /\ n - a \in Nat
  BY <1>1, <1>3
<1>6. \A j \in 1 .. n - a : u[j] = t[a + j]
  BY <1>3, <1>4
<1> QED
  BY <1>3, <1>5, <1>6 DEF u, n

LEMMA SuffixOfSuffix ==
  ASSUME NEW t \in Seq(Char), NEW a \in 0 .. Len(t), NEW b \in 0 .. Len(t) - a
  PROVE  LET u == SubSeq(t, a + 1, Len(t))
         IN  SubSeq(u, b + 1, Len(u)) = SubSeq(t, (a + b) + 1, Len(t))
<1> DEFINE u == SubSeq(t, a + 1, Len(t))
           v == SubSeq(u, b + 1, Len(u))
           w == SubSeq(t, (a + b) + 1, Len(t))
<1>1. /\ u \in Seq(Char) /\ Len(u) = Len(t) - a /\ Len(t) - a \in Nat
      /\ \A j \in 1 .. Len(t) - a : u[j] = t[a + j]
  BY SuffixFacts
<1>2. a + b \in 0 .. Len(t) /\ Len(t) \in Nat
  OBVIOUS
<1>3. /\ w \in Seq(Char) /\ Len(w) = Len(t) - (a + b)
      /\ \A j \in 1 .. Len(t) - (a + b) : w[j] = t[(a + b) + j]
  BY <1>2, SuffixFacts
<1> HIDE DEF u, w
<1>4. b \in 0 .. Len(u)
  BY <1>1
<1>5. /\ v \in Seq(Char) /\ Len(v) = Len(u) - b
      /\ \A j \in 1 .. Len(u) - b : v[j] = u[b + j]
  BY <1>1, <1>4, SuffixFacts
<1> HIDE DEF v
<1>6. Len(v) = Len(w)
  BY <1>1, <1>2, <1>3, <1>5
<1>7. ASSUME NEW j \in 1 .. Len(v)
      PROVE  v[j] = w[j]
  <2>1. j \in 1 .. Len(u) - b /\ j \in 1 .. Len(t) - (a + b)
    BY <1>3, <1>5, <1>6
  <2>2. b + j \in 1 .. Len(t) - a /\ a + (b + j) = (a + b) + j
    BY <1>1, <1>2, <2>1
  <2> QED
    BY <1>1, <1>3, <1>5, <2>1, <2>2
<1> QED
  BY <1>3, <1>5, <1>6, <1>7, SeqEqual DEF u, v, w

\* What Stripped and FirstWord do: they stop at the first character that is
\* none, or is one, of the blanks.
LEMMA StripFacts ==
  ASSUME NEW t \in Seq(Char)
  PROVE  \E c \in 0 .. Len(t) :
           /\ Stripped(t) = SubSeq(t, c + 1, Len(t))
           /\ \A j \in 1 .. c : t[j] \in Blank
           /\ c < Len(t) => t[c + 1] \notin Blank
<1> DEFINE S == {j \in 1 .. Len(t) : t[j] \notin Blank} \cup {Len(t) + 1}
           f == Min(S)
<1>1. Len(t) \in Nat
  OBVIOUS
<1>2. S \in SUBSET Nat /\ S # {}
  BY <1>1
<1>3. f \in S /\ \A y \in S : f <= y
  BY <1>2, MinFacts
<1>4. Stripped(t) = SubSeq(t, f, Len(t))
  BY DEF Stripped
<1> HIDE DEF f
<1>5. f \in 1 .. Len(t) + 1 /\ (f <= Len(t) => t[f] \notin Blank)
  BY <1>1, <1>3
<1>6. \A j \in 1 .. f - 1 : t[j] \in Blank
  BY <1>1, <1>3, <1>5
<1>7. f - 1 \in 0 .. Len(t) /\ (f - 1) + 1 = f
  BY <1>1, <1>5
<1>8. f - 1 < Len(t) => t[(f - 1) + 1] \notin Blank
  BY <1>1, <1>5, <1>7
<1> QED
  BY <1>4, <1>6, <1>7, <1>8

LEMMA WordFacts ==
  ASSUME NEW t \in Seq(Char)
  PROVE  \E c \in 0 .. Len(t) :
           /\ FirstWord(t) = SubSeq(t, 1, c)
           /\ \A j \in 1 .. c : t[j] \notin Blank
           /\ c < Len(t) => t[c + 1] \in Blank
<1> DEFINE S == {j \in 1 .. Len(t) : t[j] \in Blank} \cup {Len(t) + 1}
           f == Min(S)
<1>1. Len(t) \in Nat
  OBVIOUS
<1>2. S \in SUBSET Nat /\ S # {}
  BY <1>1
<1>3. f \in S /\ \A y \in S : f <= y
  BY <1>2, MinFacts
<1>4. FirstWord(t) = SubSeq(t, 1, f - 1)
  BY DEF FirstWord
<1> HIDE DEF f
<1>5. f \in 1 .. Len(t) + 1 /\ (f <= Len(t) => t[f] \in Blank)
  BY <1>1, <1>3
<1>6. \A j \in 1 .. f - 1 : t[j] \notin Blank
  BY <1>1, <1>3, <1>5
<1>7. f - 1 \in 0 .. Len(t) /\ (f - 1) + 1 = f
  BY <1>1, <1>5
<1>8. f - 1 < Len(t) => t[(f - 1) + 1] \in Blank
  BY <1>1, <1>5, <1>7
<1> QED
  BY <1>4, <1>6, <1>7, <1>8

\* What follows a character in line is what follows it in the text.
LEMMA TextIsSuffix ==
  ASSUME NEW m, Window(m), NEW a \in 0 .. Len(typed), NEW g
  PROVE  TextAt(m + a, g) = SubSeq(typed, a + 1, Len(typed))
<1> DEFINE n == Len(typed)
<1>1. /\ m \in Nat /\ n \in Nat /\ typed \in Seq(Char)
      /\ lineCount = m + n /\ m + n < LineSize /\ LineSize \in Nat
      /\ \A b \in 0 .. n - 1 : line[m + b] = typed[b + 1] /\ line[m + b] # NUL
      /\ \A j \in lineCount .. LineSize - 1 : line[j] = NUL
  BY WindowFacts
<1>2. line \in [Index -> Char]
  BY DEF Window
<1> HIDE DEF n
<1>3. m + a \in Nat /\ a \in 0 .. n /\ a \in Nat
  BY <1>1 DEF n
<1> DEFINE e == EndOf(m + a)
<1> HIDE DEF e
<1>4. /\ e \in Nat /\ (e \in m + a .. LineSize - 1 \/ e = LineSize)
      /\ e < LineSize => line[e] = NUL
      /\ \A j \in m + a .. LineSize - 1 : j < e => line[j] # NUL
  BY <1>3, EndFacts DEF e
<1>5. ~(m + n < e)
  <2>1. m + n \in m + a .. LineSize - 1 /\ line[m + n] = NUL
    BY <1>1, <1>3
  <2> QED
    BY <1>4, <2>1
<1>6. ~(e < m + n)
  <2> SUFFICES ASSUME e < m + n PROVE FALSE
    OBVIOUS
  <2>1. e - m \in 0 .. n - 1 /\ m + (e - m) = e /\ e < LineSize
    BY <1>1, <1>3, <1>4
  <2> QED
    BY <1>1, <1>4, <2>1
<1>7. e = m + n /\ e # LineSize /\ e - (m + a) = n - a /\ n - a \in Nat
  BY <1>1, <1>3, <1>4, <1>5, <1>6
<1>8. /\ TextAt(m + a, g) \in Seq(Char) /\ Len(TextAt(m + a, g)) = n - a
      /\ \A j \in 1 .. n - a : TextAt(m + a, g)[j] = line[(m + a) + j - 1]
  BY <1>2, <1>3, <1>7, TextFacts DEF e
<1> DEFINE u == SubSeq(typed, a + 1, n)
<1>9. u \in Seq(Char) /\ Len(u) = n - a /\ \A j \in 1 .. n - a : u[j] = typed[a + j]
  BY <1>1, <1>3, SuffixFacts DEF n
<1>10. \A j \in 1 .. n - a : line[(m + a) + j - 1] = typed[a + j]
  <2> SUFFICES ASSUME NEW j \in 1 .. n - a PROVE line[(m + a) + j - 1] = typed[a + j]
    OBVIOUS
  <2>1. a + j - 1 \in 0 .. n - 1 /\ m + (a + j - 1) = (m + a) + j - 1 /\ (a + j - 1) + 1 = a + j
    BY <1>1, <1>3
  <2> QED
    BY <1>1, <2>1
<1> HIDE DEF u
<1>11. TextAt(m + a, g) = u
  <2>1. \A j \in 1 .. n - a : TextAt(m + a, g)[j] = u[j]
    BY <1>8, <1>9, <1>10
  <2> QED
    BY <1>7, <1>8, <1>9, <2>1, SeqEqual
<1> QED
  BY <1>11 DEF u, n

\* The blanks that are skipped in line are the ones the text begins with.
LEMMA SkipIsStrip ==
  ASSUME NEW m, Window(m), NEW a \in 0 .. Len(typed)
  PROVE  \E b \in a .. Len(typed) :
           /\ SkipBlanks(m + a) = m + b
           /\ Stripped(SubSeq(typed, a + 1, Len(typed))) = SubSeq(typed, b + 1, Len(typed))
<1> DEFINE n == Len(typed)
           u == SubSeq(typed, a + 1, n)
           x == SkipBlanks(m + a)
<1>1. /\ m \in Nat /\ n \in Nat /\ typed \in Seq(Char)
      /\ lineCount = m + n /\ m + n < LineSize /\ LineSize \in Nat
      /\ \A b \in 0 .. n - 1 : line[m + b] = typed[b + 1] /\ line[m + b] # NUL
      /\ \A j \in lineCount .. LineSize - 1 : line[j] = NUL
  BY WindowFacts
<1>2. /\ u \in Seq(Char) /\ Len(u) = n - a /\ n - a \in Nat
      /\ \A j \in 1 .. n - a : u[j] = typed[a + j]
  BY <1>1, SuffixFacts
<1>3. m + a \in Nat /\ a \in 0 .. n /\ a \in Nat
  BY <1>1
<1>4. /\ x \in Nat /\ (x \in m + a .. LineSize - 1 \/ x = LineSize)
      /\ x < LineSize => line[x] \notin Blank
      /\ \A j \in m + a .. LineSize - 1 : j < x => line[j] \in Blank
  BY <1>3, SkipFacts
<1> HIDE DEF n, u, x
<1>5. PICK c \in 0 .. Len(u) : /\ Stripped(u) = SubSeq(u, c + 1, Len(u))
                               /\ \A j \in 1 .. c : u[j] \in Blank
                               /\ c < Len(u) => u[c + 1] \notin Blank
  BY <1>2, StripFacts
<1> DEFINE b == a + c
<1>6. b \in a .. n /\ c \in 0 .. n - a /\ c \in Nat /\ b \in Nat
  BY <1>1, <1>2, <1>3
<1>7. Stripped(u) = SubSeq(typed, b + 1, n)
  BY <1>1, <1>3, <1>5, <1>6, SuffixOfSuffix DEF u, n
<1> HIDE DEF b
<1>8. line[m + b] \notin Blank
  <2>1. CASE b < n
    <3>1. b \in 0 .. n - 1 /\ c + 1 \in 1 .. n - a /\ a + (c + 1) = b + 1 /\ c < Len(u)
      BY <2>1, <1>1, <1>2, <1>3, <1>6 DEF b
    <3> QED
      <4>1. line[m + b] = typed[b + 1]
        BY <3>1, <1>1
      <4>2. u[c + 1] = typed[a + (c + 1)] /\ u[c + 1] \notin Blank
        BY <3>1, <1>2, <1>5
      <4> QED
        BY <3>1, <4>1, <4>2
  <2>2. CASE b = n
    <3>1. line[m + b] = NUL
      BY <2>2, <1>1
    <3> QED
      BY <3>1 DEF NUL, Blank
  <2> QED
    BY <2>1, <2>2, <1>1, <1>6
<1>9. ASSUME NEW j \in m + a .. m + b - 1
      PROVE  line[j] \in Blank
  <2>1. j - m \in 0 .. n - 1 /\ m + (j - m) = j
    BY <1>1, <1>3, <1>6
  <2>2. (j - m) + 1 - a \in 1 .. c /\ (j - m) + 1 - a \in 1 .. n - a /\ a + ((j - m) + 1 - a) = (j - m) + 1
    BY <1>1, <1>3, <1>6 DEF b
  <2>3. u[(j - m) + 1 - a] = typed[(j - m) + 1] /\ u[(j - m) + 1 - a] \in Blank
    BY <1>2, <1>5, <2>2
  <2> QED
    BY <1>1, <2>1, <2>3
<1>10. m + b \in m + a .. LineSize - 1
  BY <1>1, <1>3, <1>6
<1>11. ~(m + b < x)
  BY <1>4, <1>8, <1>10
<1>12. ~(x < m + b)
  BY <1>1, <1>4, <1>6, <1>9
<1>13. x = m + b
  BY <1>1, <1>4, <1>6, <1>11, <1>12
<1> QED
  BY <1>6, <1>7, <1>13 DEF u, n, x

\* Skipping may start behind a blank.
LEMMA SkipFurther ==
  ASSUME NEW i \in Nat, NEW k \in Index, i <= k, \A j \in i .. k - 1 : line[j] \in Blank
  PROVE  SkipBlanks(i) = SkipBlanks(k)
<1> DEFINE x == SkipBlanks(i)
           y == SkipBlanks(k)
<1>1. k \in Nat /\ k <= LineSize - 1 /\ LineSize \in Nat
  BY SizeFacts
<1>2. /\ x \in Nat /\ (x \in i .. LineSize - 1 \/ x = LineSize)
      /\ x < LineSize => line[x] \notin Blank
      /\ \A j \in i .. LineSize - 1 : j < x => line[j] \in Blank
  BY SkipFacts
<1>3. /\ y \in Nat /\ (y \in k .. LineSize - 1 \/ y = LineSize)
      /\ y < LineSize => line[y] \notin Blank
      /\ \A j \in k .. LineSize - 1 : j < y => line[j] \in Blank
  BY <1>1, SkipFacts
<1> HIDE DEF x, y
<1>4. k <= x
  BY <1>1, <1>2
<1>5. ~(x < y)
  BY <1>1, <1>2, <1>3, <1>4
<1>6. ~(y < x)
  BY <1>1, <1>2, <1>3
<1> QED
  BY <1>2, <1>3, <1>5, <1>6 DEF x, y

\* A prefix, place by place.
LEMMA PrefixFacts ==
  ASSUME NEW V, NEW w \in Seq(V), NEW s \in Seq(V)
  PROVE  IsPrefix(w, s) <=> Len(w) <= Len(s) /\ \A j \in 1 .. Len(w) : w[j] = s[j]
<1> DEFINE k == Len(w)
           p == SubSeq(s, 1, k)
<1>1. k \in Nat /\ Len(s) \in Nat
  OBVIOUS
<1>2. SubSeq(w, 1, Len(w)) = w
  BY SubSeqFull
<1>3. CASE k <= Len(s)
  <2>1. 1 \in Int /\ k \in Int /\ \A j \in 1 .. k : s[j] \in V
    BY <1>1, <1>3
  <2>2. /\ p \in Seq(V) /\ Len(p) = IF 1 <= k THEN k - 1 + 1 ELSE 0
        /\ \A j \in 1 .. k - 1 + 1 : p[j] = s[1 + j - 1]
    BY <2>1, SubSeqProperties
  <2>3. p \in Seq(V) /\ Len(p) = k /\ \A j \in 1 .. k : p[j] = s[j]
    BY <1>1, <2>2
  <2>4. IsPrefix(w, s) <=> w = p
    BY <1>2, <1>3 DEF IsPrefix
  <2> HIDE DEF p
  <2>5. (\A j \in 1 .. k : w[j] = s[j]) => w = p
    BY <2>3, SeqEqual
  <2> QED
    BY <1>3, <2>3, <2>4, <2>5
<1>4. CASE ~(k <= Len(s))
  BY <1>4 DEF IsPrefix
<1> QED
  BY <1>3, <1>4

\* A text begins with a word and a blank, or is that word, if that is its first
\* word.
LEMMA FirstWordIs ==
  ASSUME NEW V, NEW w \in Seq(V), NEW s \in Seq(Char), \A j \in 1 .. Len(w) : w[j] \notin Blank
  PROVE  FirstWord(s) = w <=> /\ Len(w) <= Len(s)
                              /\ \A j \in 1 .. Len(w) : w[j] = s[j]
                              /\ Len(w) < Len(s) => s[Len(w) + 1] \in Blank
<1> DEFINE k == Len(w)
<1>1. k \in Nat /\ Len(s) \in Nat
  OBVIOUS
<1>2. PICK c \in 0 .. Len(s) : /\ FirstWord(s) = SubSeq(s, 1, c)
                               /\ \A j \in 1 .. c : s[j] \notin Blank
                               /\ c < Len(s) => s[c + 1] \in Blank
  BY WordFacts
<1> DEFINE p == SubSeq(s, 1, c)
<1>3. p \in Seq(Char) /\ Len(p) = c /\ \A j \in 1 .. c : p[j] = s[j]
  <2>1. 1 \in Int /\ c \in Int /\ \A j \in 1 .. c : s[j] \in Char
    BY <1>1
  <2>2. /\ p \in Seq(Char) /\ Len(p) = IF 1 <= c THEN c - 1 + 1 ELSE 0
        /\ \A j \in 1 .. c - 1 + 1 : p[j] = s[1 + j - 1]
    BY <2>1, SubSeqProperties
  <2> QED
    BY <1>1, <2>2
<1> HIDE DEF p
<1>4. FirstWord(s) = p
  BY <1>2 DEF p
<1>5. ASSUME p = w
      PROVE  k <= Len(s) /\ (\A j \in 1 .. k : w[j] = s[j]) /\ (k < Len(s) => s[k + 1] \in Blank)
  <2>1. k = c
    BY <1>3, <1>5
  <2> QED
    BY <1>1, <1>2, <1>3, <1>5, <2>1
<1>6. ASSUME k <= Len(s), \A j \in 1 .. k : w[j] = s[j], k < Len(s) => s[k + 1] \in Blank
      PROVE  p = w
  <2>1. ~(c < k)
    <3> SUFFICES ASSUME c < k PROVE FALSE
      OBVIOUS
    <3>1. c + 1 \in 1 .. k /\ c < Len(s)
      BY <1>1, <1>6
    <3> QED
      BY <1>2, <1>6, <3>1
  <2>2. ~(k < c)
    <3> SUFFICES ASSUME k < c PROVE FALSE
      OBVIOUS
    <3>1. k + 1 \in 1 .. c /\ k < Len(s)
      BY <1>1
    <3> QED
      BY <1>2, <1>6, <3>1
  <2>3. k = c
    BY <1>1, <2>1, <2>2
  <2>4. \A j \in 1 .. k : p[j] = w[j]
    BY <1>3, <1>6, <2>3
  <2>5. p \in Seq(Char \cup V) /\ w \in Seq(Char \cup V)
    BY <1>3, SeqMonotonic
  <2> QED
    BY <1>3, <2>3, <2>4, <2>5, SeqEqual
<1> QED
  BY <1>4, <1>5, <1>6

\* The comparison in line finds the first word of the text.
LEMMA BeginsIsWord ==
  ASSUME NEW m, Window(m), NEW b \in 0 .. Len(typed), NEW V, NEW w \in Seq(V),
         \A j \in 1 .. Len(w) : w[j] \notin Blank
  PROVE  Begins(m + b, w) <=> FirstWord(SubSeq(typed, b + 1, Len(typed))) = w
<1> DEFINE n == Len(typed)
           s == SubSeq(typed, b + 1, n)
           k == Len(w)
<1>1. /\ m \in Nat /\ n \in Nat /\ typed \in Seq(Char)
      /\ lineCount = m + n /\ m + n < LineSize /\ LineSize \in Nat
      /\ \A a \in 0 .. n - 1 : line[m + a] = typed[a + 1] /\ line[m + a] # NUL
      /\ \A j \in lineCount .. LineSize - 1 : line[j] = NUL
  BY WindowFacts
<1>2. /\ s \in Seq(Char) /\ Len(s) = n - b /\ n - b \in Nat
      /\ \A j \in 1 .. n - b : s[j] = typed[b + j]
  BY <1>1, SuffixFacts
<1>3. TextAt(m + b, <<>>) = s
  BY TextIsSuffix
<1> HIDE DEF s
<1>4. k \in Nat /\ b \in Nat
  BY <1>1
<1>5. s \in Seq(Char \cup V) /\ w \in Seq(Char \cup V)
  BY <1>2, SeqMonotonic
<1>6. IsPrefix(w, s) <=> k <= Len(s) /\ \A j \in 1 .. k : w[j] = s[j]
  BY <1>5, PrefixFacts
<1> HIDE DEF n, k
<1>7. ASSUME k <= Len(s)
      PROVE  (m + b + k < LineSize => line[m + b + k] \in Blank \cup {NUL})
               <=> (k < Len(s) => s[k + 1] \in Blank)
  <2>1. m + b + k < LineSize
    BY <1>1, <1>2, <1>4, <1>7
  <2>2. CASE k < Len(s)
    <3>1. b + k \in 0 .. n - 1 /\ m + (b + k) = m + b + k /\ k + 1 \in 1 .. n - b /\ b + (k + 1) = (b + k) + 1
      BY <1>1, <1>2, <1>4, <2>2
    <3>2. line[m + b + k] = s[k + 1] /\ line[m + b + k] # NUL
      BY <1>1, <1>2, <3>1
    <3> QED
      BY <2>1, <2>2, <3>2
  <2>3. CASE k = Len(s)
    <3>1. m + b + k \in lineCount .. LineSize - 1
      BY <1>1, <1>2, <1>4, <2>3
    <3>2. ~(k < Len(s))
      BY <1>4, <2>3
    <3> QED
      BY <1>1, <3>1, <3>2
  <2> QED
    BY <1>2, <1>4, <1>7, <2>2, <2>3
<1>8. Begins(m + b, w) <=> /\ k <= Len(s) /\ \A j \in 1 .. k : w[j] = s[j]
                           /\ k < Len(s) => s[k + 1] \in Blank
  BY <1>3, <1>6, <1>7 DEF Begins, k
<1>9. FirstWord(s) = w <=> /\ k <= Len(s) /\ \A j \in 1 .. k : w[j] = s[j]
                           /\ k < Len(s) => s[k + 1] \in Blank
  BY <1>2, FirstWordIs DEF k
<1> QED
  BY <1>8, <1>9 DEF s, n

\* The argument that begins three places behind a word of two is what follows
\* the word in the text, unless the word ends a full line.
LEMMA ArgIsRest ==
  ASSUME NEW m, Window(m), NEW b \in 0 .. Len(typed), NEW g, NEW w, Len(w) = 2,
         Begins(m + b, w), ~(lineCount = LineSize - 1 /\ m + b = LineSize - 3)
  PROVE  LET s == SubSeq(typed, b + 1, Len(typed))
         IN  TextAt(ArgAt(m + b), g) = Stripped(SubSeq(s, Len(w) + 1, Len(s)))
<1> DEFINE n == Len(typed)
           s == SubSeq(typed, b + 1, n)
<1>1. /\ m \in Nat /\ n \in Nat /\ typed \in Seq(Char)
      /\ lineCount = m + n /\ m + n < LineSize /\ LineSize \in Nat
      /\ \A a \in 0 .. n - 1 : line[m + a] = typed[a + 1] /\ line[m + a] # NUL
      /\ \A j \in lineCount .. LineSize - 1 : line[j] = NUL
  BY WindowFacts
<1>2. /\ s \in Seq(Char) /\ Len(s) = n - b /\ n - b \in Nat
  BY <1>1, SuffixFacts
<1>3. TextAt(m + b, <<>>) = s
  BY TextIsSuffix
<1>4. 2 <= n - b /\ (m + b + 2 < LineSize => line[m + b + 2] \in Blank \cup {NUL})
  BY <1>2, <1>3 DEF Begins, IsPrefix
<1>5. b + 2 \in 0 .. n /\ 2 \in 0 .. Len(typed) - b /\ m + b + 2 < LineSize /\ b \in Nat
  BY <1>1, <1>2, <1>4
<1>6. SubSeq(s, Len(w) + 1, Len(s)) = SubSeq(typed, (b + 2) + 1, n)
  <2>1. SubSeq(s, 2 + 1, Len(s)) = SubSeq(typed, (b + 2) + 1, n)
    BY <1>1, <1>5, SuffixOfSuffix
  <2> QED
    BY <2>1
<1>7. PICK d \in b + 2 .. n :
        /\ SkipBlanks(m + (b + 2)) = m + d
        /\ Stripped(SubSeq(typed, (b + 2) + 1, n)) = SubSeq(typed, d + 1, n)
  BY <1>5, SkipIsStrip
<1> HIDE DEF s
<1>8. CASE b + 2 < n
  <2>1. m + b + 2 = m + (b + 2) /\ b + 2 \in 0 .. n - 1
    BY <1>1, <1>5, <1>8
  <2>2. line[m + b + 2] \in Blank
    BY <1>1, <1>4, <1>5, <2>1
  <2>3. m + b + 3 \in Index /\ m + (b + 2) \in Nat /\ m + (b + 2) <= m + b + 3
    BY <1>1, <1>5, <1>8, SizeFacts
  <2>4. \A j \in m + (b + 2) .. (m + b + 3) - 1 : line[j] \in Blank
    <3>1. \A j \in m + (b + 2) .. (m + b + 3) - 1 : j = m + b + 2
      BY <1>1, <1>5
    <3> QED
      BY <3>1, <2>2
  <2>5. SkipBlanks(m + (b + 2)) = SkipBlanks(m + b + 3)
    <3> DEFINE p == m + (b + 2)
               q == m + b + 3
    <3>1. p \in Nat /\ q \in Index /\ p <= q /\ \A j \in p .. q - 1 : line[j] \in Blank
      BY <2>3, <2>4
    <3> HIDE DEF p, q
    <3>2. SkipBlanks(p) = SkipBlanks(q)
      BY <3>1, SkipFurther
    <3> QED
      BY <3>2 DEF p, q
  <2>6. ArgAt(m + b) = m + d
    BY <1>7, <2>5 DEF ArgAt
  <2>7. d \in 0 .. Len(typed)
    BY <1>1, <1>5
  <2>8. TextAt(m + d, g) = SubSeq(typed, d + 1, n)
    BY <2>7, TextIsSuffix
  <2> QED
    BY <1>6, <1>7, <2>6, <2>8 DEF s
<1>9. CASE b + 2 = n
  <2>1. d = n
    BY <1>1, <1>9
  <2>2. SubSeq(typed, d + 1, n) = <<>>
    BY <1>1, <2>1, SubSeqEmpty
  <2> DEFINE i == m + b + 3
  <2>3. i \in Index /\ i \in Nat /\ i \in lineCount .. LineSize - 1 /\ i \in i .. LineSize - 1 /\ i < LineSize
    BY <1>1, <1>5, <1>9, SizeFacts
  <2>4. line[i] = NUL
    BY <1>1, <2>3
  <2> HIDE DEF i
  <2>5. line[i] \notin Blank
    BY <2>4 DEF NUL, Blank
  <2>6. SkipBlanks(i) = i
    <3>1. SkipBlanks(i) \in Nat /\ (SkipBlanks(i) \in i .. LineSize - 1 \/ SkipBlanks(i) = LineSize)
          /\ (i < SkipBlanks(i) => line[i] \in Blank)
      BY <2>3, SkipFacts
    <3> QED
      BY <1>1, <2>3, <2>5, <3>1
  <2>7. EndOf(i) = i
    <3>1. EndOf(i) \in Nat /\ (EndOf(i) \in i .. LineSize - 1 \/ EndOf(i) = LineSize)
          /\ (i < EndOf(i) => line[i] # NUL)
      BY <2>3, EndFacts
    <3> QED
      BY <1>1, <2>3, <2>4, <3>1
  <2>8. TextAt(i, g) \in Seq(Char) /\ Len(TextAt(i, g)) = 0
    <3>1. line \in [Index -> Char] /\ EndOf(i) # LineSize /\ EndOf(i) - i = 0
      BY <1>1, <2>3, <2>7 DEF Window
    <3> QED
      BY <2>3, <3>1, TextFacts
  <2>9. TextAt(i, g) = <<>>
    BY <2>8
  <2> QED
    BY <1>6, <1>7, <2>2, <2>6, <2>9 DEF s, i, ArgAt
<1> QED
  BY <1>1, <1>5, <1>8, <1>9

\* Where a line's first word is, and the text it begins.
LEMMA FirstPlace ==
  ASSUME NEW m, Window(m)
  PROVE  \E b \in 0 .. Len(typed) : /\ SkipBlanks(0) = m + b
                                    /\ Stripped(typed) = SubSeq(typed, b + 1, Len(typed))
<1>1. /\ m \in Nat /\ Len(typed) \in Nat /\ typed \in Seq(Char)
      /\ m + Len(typed) < LineSize /\ LineSize \in Nat
  BY WindowFacts
<1>2. 0 \in 0 .. Len(typed) /\ m + 0 = m /\ 0 + 1 = 1 /\ m \in Index /\ 0 <= m /\ 0 \in Nat
  BY <1>1, SizeFacts
<1>3. SkipBlanks(0) = SkipBlanks(m)
  BY <1>2, SkipFurther DEF Window
<1>4. PICK b \in 0 .. Len(typed) :
        /\ SkipBlanks(m + 0) = m + b
        /\ Stripped(SubSeq(typed, 0 + 1, Len(typed))) = SubSeq(typed, b + 1, Len(typed))
  BY <1>2, SkipIsStrip
<1>5. SubSeq(typed, 1, Len(typed)) = typed
  BY <1>1, SubSeqFull
<1> QED
  BY <1>2, <1>3, <1>4, <1>5

LEMMA DispatchIsCommand ==
  ASSUME NEW m, Window(m), ~isEmpty, NEW g,
         ~(lineCount = LineSize - 1 /\ SkipBlanks(0) = LineSize - 3)
  PROVE  Dispatch(SkipBlanks(0), g) = Command(typed)
<1>1. PICK b \in 0 .. Len(typed) : /\ SkipBlanks(0) = m + b
                                   /\ Stripped(typed) = SubSeq(typed, b + 1, Len(typed))
  BY FirstPlace
<1> DEFINE i == m + b
           s == SubSeq(typed, b + 1, Len(typed))
           a == Stripped(SubSeq(s, Len(FirstWord(s)) + 1, Len(s)))
           arg == TextAt(ArgAt(i), g)
           ls == <<"l", "s">>
           cd == <<"c", "d">>
           pwd == <<"p", "w", "d">>
<1>2. TextAt(i, g) = s
  BY TextIsSuffix
<1>3. s # <<>>
  <2>1. /\ m \in Nat /\ Len(typed) \in Nat /\ typed \in Seq(Char)
        /\ lineCount = m + Len(typed) /\ m + Len(typed) < LineSize /\ LineSize \in Nat
        /\ \A j \in lineCount .. LineSize - 1 : line[j] = NUL
    BY WindowFacts
  <2>2. line[i] # NUL
    BY <1>1 DEF isEmpty
  <2>3. i # lineCount
    BY <2>1, <2>2
  <2>4. Len(s) = Len(typed) - b
    BY <2>1, SuffixFacts
  <2>5. Len(s) # 0
    BY <2>1, <2>3, <2>4
  <2>6. Len(<<>>) = 0
    OBVIOUS
  <2> HIDE DEF s
  <2> QED
    BY <2>5, <2>6
<1>4. ls \in Seq({"l", "s"}) /\ Len(ls) = 2 /\ \A j \in 1 .. Len(ls) : ls[j] \notin Blank
  <2>1. ls \in Seq({"l", "s"}) /\ Len(ls) = 2 /\ ls[1] = "l" /\ ls[2] = "s"
    OBVIOUS
  <2>2. "l" \notin Blank /\ "s" \notin Blank
    BY DEF Blank
  <2> HIDE DEF ls
  <2>3. \A j \in 1 .. Len(ls) : j = 1 \/ j = 2
    BY <2>1
  <2> QED
    BY <2>1, <2>2, <2>3
<1>5. cd \in Seq({"c", "d"}) /\ Len(cd) = 2 /\ \A j \in 1 .. Len(cd) : cd[j] \notin Blank
  <2>1. cd \in Seq({"c", "d"}) /\ Len(cd) = 2 /\ cd[1] = "c" /\ cd[2] = "d"
    OBVIOUS
  <2>2. "c" \notin Blank /\ "d" \notin Blank
    BY DEF Blank
  <2> HIDE DEF cd
  <2>3. \A j \in 1 .. Len(cd) : j = 1 \/ j = 2
    BY <2>1
  <2> QED
    BY <2>1, <2>2, <2>3
<1>6. pwd \in Seq({"p", "w", "d"}) /\ \A j \in 1 .. Len(pwd) : pwd[j] \notin Blank
  <2>1. pwd \in Seq({"p", "w", "d"}) /\ Len(pwd) = 3 /\ pwd[1] = "p" /\ pwd[2] = "w" /\ pwd[3] = "d"
    OBVIOUS
  <2>2. "p" \notin Blank /\ "w" \notin Blank /\ "d" \notin Blank
    BY DEF Blank
  <2> HIDE DEF pwd
  <2>3. \A j \in 1 .. Len(pwd) : j = 1 \/ j = 2 \/ j = 3
    BY <2>1
  <2> QED
    BY <2>1, <2>2, <2>3
<1> HIDE DEF ls, cd, pwd, s, i
<1>7. /\ Begins(i, ls) <=> FirstWord(s) = ls
      /\ Begins(i, cd) <=> FirstWord(s) = cd
      /\ Begins(i, pwd) <=> FirstWord(s) = pwd
  BY <1>4, <1>5, <1>6, BeginsIsWord DEF s, i
<1>8. ~(lineCount = LineSize - 1 /\ i = LineSize - 3)
  BY <1>1 DEF i
<1>9. Begins(i, ls) => arg = a
  BY <1>4, <1>7, <1>8, ArgIsRest DEF i, s
<1>10. Begins(i, cd) => arg = a
  BY <1>5, <1>7, <1>8, ArgIsRest DEF i, s
<1> HIDE DEF arg, a
<1>11. Dispatch(i, g) =
         IF s = SHUTDOWN THEN [call |-> "shutdown", arg |-> <<>>]
         ELSE IF Begins(i, ls) THEN [call |-> "ls", arg |-> arg]
         ELSE IF Begins(i, cd) THEN IF arg = <<>> THEN Nothing ELSE [call |-> "cd", arg |-> arg]
         ELSE IF Begins(i, pwd) THEN [call |-> "pwd", arg |-> <<>>]
         ELSE [call |-> "exec", arg |-> s]
  BY <1>2 DEF Dispatch, arg, ls, cd, pwd
<1>12. Command(typed) =
         IF s = <<>> THEN Nothing
         ELSE IF s = SHUTDOWN THEN [call |-> "shutdown", arg |-> <<>>]
         ELSE IF FirstWord(s) = ls THEN [call |-> "ls", arg |-> a]
         ELSE IF FirstWord(s) = cd THEN IF a = <<>> THEN Nothing ELSE [call |-> "cd", arg |-> a]
         ELSE IF FirstWord(s) = pwd THEN [call |-> "pwd", arg |-> <<>>]
         ELSE [call |-> "exec", arg |-> s]
  BY <1>1 DEF Command, a, s, ls, cd, pwd
<1>13. Dispatch(i, g) = Command(typed)
  BY <1>3, <1>7, <1>9, <1>10, <1>11, <1>12
<1> QED
  BY <1>1, <1>13 DEF i

LEMMA BlankIsNothing ==
  ASSUME NEW m, Window(m), isEmpty
  PROVE  Command(typed) = Nothing
<1>1. PICK b \in 0 .. Len(typed) : /\ SkipBlanks(0) = m + b
                                   /\ Stripped(typed) = SubSeq(typed, b + 1, Len(typed))
  BY FirstPlace
<1>2. /\ m \in Nat /\ Len(typed) \in Nat
      /\ lineCount = m + Len(typed) /\ m + Len(typed) < LineSize /\ LineSize \in Nat
      /\ \A a \in 0 .. Len(typed) - 1 : line[m + a] = typed[a + 1] /\ line[m + a] # NUL
  BY WindowFacts
<1>3. m + b \in Index
  BY <1>2, SizeFacts
<1>4. line[m + b] = NUL
  BY <1>1, <1>3 DEF isEmpty
<1>5. b = Len(typed)
  BY <1>2, <1>4
<1>6. Stripped(typed) = <<>>
  BY <1>1, <1>2, <1>5, SubSeqEmpty
<1> QED
  BY <1>6 DEF Command

\* For every size of the line, every set of characters and every text, the
\* shell makes the call that what was typed since the last prompt stands for.
THEOREM ShellObeys == Spec => []DoesWhatWasTyped
<1> DEFINE Inv == ShellInv /\ DoesWhatWasTyped
<1>1. Init => Inv
  BY InitShell DEF Init, NoQuestion, DoesWhatWasTyped
<1>2. ASSUME Inv, [Next]_vars
      PROVE  DoesWhatWasTyped'
  <2>1. CASE EnterBlank
    <3>1. asked' = [text |-> typed, plain |-> Plain, edge |-> FALSE] /\ did' = Nothing /\ isEmpty
      BY <2>1 DEF EnterBlank
    <3>2. asked'.text = typed /\ asked'.plain = Plain
      BY <3>1
    <3>3. Plain => did' = Command(typed)
      BY <1>2, <3>1, PlainIsWindow, BlankIsNothing
    <3> QED
      BY <3>2, <3>3 DEF DoesWhatWasTyped
  <2>2. CASE EnterCommand
    <3> DEFINE edge == lineCount = LineSize - 1 /\ SkipBlanks(0) = LineSize - 3
    <3>1. PICK g \in Behind : did' = Dispatch(SkipBlanks(0), g)
      BY <2>2 DEF EnterCommand
    <3>2. asked' = [text |-> typed, plain |-> Plain, edge |-> edge] /\ ~isEmpty
      BY <2>2 DEF EnterCommand
    <3>3. asked'.text = typed /\ asked'.plain = Plain /\ asked'.edge = edge
      BY <3>2
    <3>4. Plain /\ ~edge => did' = Command(typed)
      BY <1>2, <3>1, <3>2, PlainIsWindow, DispatchIsCommand
    <3> HIDE DEF edge
    <3> QED
      BY <3>3, <3>4 DEF DoesWhatWasTyped
  <2>3. CASE asked' = NoQuestion
    BY <2>3 DEF NoQuestion, DoesWhatWasTyped
  <2>4. CASE UNCHANGED vars
    BY <1>2, <2>4 DEF vars, DoesWhatWasTyped
  <2> QED
    BY <1>2, <2>1, <2>2, <2>3, <2>4 DEF Next, CtrlC, Delete, Type, Down, NoCall
<1>3. Inv /\ [Next]_vars => Inv'
  BY <1>2, StepShell
<1>4. Inv => DoesWhatWasTyped
  OBVIOUS
<1> QED
  BY <1>1, <1>3, <1>4, PTL DEF Spec
=============================================================================
