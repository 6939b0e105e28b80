-------------------------------- MODULE Shell --------------------------------
(***************************************************************************)
(* user/sh.c: the line editor and the dispatch of a line.  The shell is    *)
(* one thread that reads one character after the other; a step is one pass *)
(* of its loop.  The calls it makes are FileTable's.                       *)
(*                                                                         *)
(* line is not initialised.  Its place on the user stack is zero unless    *)
(* initHeap, which runs before main, has left something there.             *)
(***************************************************************************)
EXTENDS Integers, SequencesExt, FiniteSetsExt

CONSTANTS LineSize,     \* 256, the length of line
          Letters,      \* the characters that are typed, blanks aside
          SHUTDOWN,     \* the word "shutdown"
          Fresh,        \* what line may hold at first
          Behind        \* the strings that may follow it in memory

NUL   == "NUL"
LF    == "LF"           \* LF and CR
CTRLC == "CTRLC"
DL    == "DL"
Blank == {" ", "TAB"}
Index == 0 .. LineSize - 1
Zeroes == [i \in Index |-> NUL]

ASSUME ShellAssumption == /\ LineSize \in Nat \ {0}
                          /\ Fresh \subseteq [Index -> Letters \cup Blank \cup {NUL}]

VARIABLES line,
          lineCount,
          did,          \* the call that was made for the last line
          outside,      \* that call read something behind line
          up,           \* the machine has not been shut down
          \* History.
          typed,        \* the characters shown behind the last prompt
          clean,        \* line has been emptied, or was zero at first
          asked         \* what was typed when the last line was ended

vars == <<line, lineCount, did, outside, up, typed, clean, asked>>

Nothing    == [call |-> "none", arg |-> <<>>]
NoQuestion == [text |-> <<>>, plain |-> FALSE, edge |-> FALSE]

Init ==
  /\ line \in Fresh
  /\ lineCount = 0
  /\ did = Nothing
  /\ outside = FALSE
  /\ up = TRUE
  /\ typed = <<>>
  /\ clean = (line = Zeroes)
  /\ asked = NoQuestion
-----------------------------------------------------------------------------
(* Strings in the buffer.                                                  *)

\* The first index from i on that holds no blank, or the one behind line.
SkipBlanks(i) == Min({j \in i .. LineSize - 1 : line[j] \notin Blank} \cup {LineSize})

\* The string that begins at i.  If its end is not in line, it goes on with
\* whatever follows line in memory, g.
EndOf(i)     == Min({j \in i .. LineSize - 1 : line[j] = NUL} \cup {LineSize})
TextAt(i, g) == [j \in 1 .. EndOf(i) - i |-> line[i + j - 1]] \o
                IF EndOf(i) = LineSize THEN g ELSE <<>>

\* isEmpty.
isEmpty == SkipBlanks(0) \in Index => line[SkipBlanks(0)] = NUL

\* The string at i is the word w, or begins with it and a blank.
Begins(i, w) ==
  /\ IsPrefix(w, TextAt(i, <<>>))
  /\ i + Len(w) < LineSize => line[i + Len(w)] \in Blank \cup {NUL}

\* isBuildIn for the string at i, with the call of main for the other lines.
\* The argument of ls and cd begins three characters behind the word, even
\* if the word is followed by the end of the string.
\* The mutant skips one character too many.
ArgFurther(i) == SkipBlanks(i + 4)
ArgAt(i) == SkipBlanks(i + 3)

Dispatch(i, g) ==
  LET arg == TextAt(ArgAt(i), g)
  IN  IF TextAt(i, g) = SHUTDOWN THEN [call |-> "shutdown", arg |-> <<>>]
      ELSE IF Begins(i, <<"l", "s">>) THEN [call |-> "ls", arg |-> arg]
      ELSE IF Begins(i, <<"c", "d">>) THEN IF arg = <<>> THEN Nothing ELSE [call |-> "cd", arg |-> arg]
      ELSE IF Begins(i, <<"p", "w", "d">>) THEN [call |-> "pwd", arg |-> <<>>]
      ELSE [call |-> "exec", arg |-> TextAt(i, g)]

\* Whether that reads behind line.
Escapes(i) ==
  \/ EndOf(i) = LineSize
  \/ /\ Begins(i, <<"l", "s">>) \/ Begins(i, <<"c", "d">>)
     /\ TextAt(i, <<>>) # SHUTDOWN
     /\ EndOf(ArgAt(i)) = LineSize
-----------------------------------------------------------------------------
(* The cases of the switch.                                                *)

\* No NUL has been typed, and nothing else is in line than what was.
Plain == clean /\ \A j \in 0 .. lineCount - 1 : line[j] # NUL

\* Enter in a line of blanks: a new prompt, and the line is kept.
EnterBlank ==
  /\ up
  /\ isEmpty
  /\ did' = Nothing /\ outside' = FALSE
  /\ typed' = <<>>
  /\ asked' = [text |-> typed, plain |-> Plain, edge |-> FALSE]
  /\ UNCHANGED <<line, lineCount, up, clean>>

EnterCommand ==
  LET i == SkipBlanks(0)
  IN  /\ up
      /\ ~isEmpty
      /\ \E g \in Behind : did' = Dispatch(i, g)
      /\ outside' = Escapes(i)
      /\ up' = (did'.call # "shutdown")
      /\ line' = Zeroes
      /\ lineCount' = 0
      /\ clean' = TRUE
      /\ typed' = <<>>
      /\ asked' = [text |-> typed, plain |-> Plain,
                   edge |-> lineCount = LineSize - 1 /\ i = LineSize - 3]

\* A character that does not end a line makes no call.
NoCall == did' = Nothing /\ asked' = NoQuestion /\ outside' = FALSE

CtrlC ==
  /\ up
  /\ line' = Zeroes
  /\ lineCount' = 0
  /\ clean' = TRUE
  /\ typed' = <<>>
  /\ NoCall
  /\ UNCHANGED up

\* Backspace.  The mutant leaves the character in the buffer.
Unwritten(l, i) == l
Erased(l, i) == [l EXCEPT ![i] = NUL]
Delete ==
  /\ up
  /\ IF lineCount > 0
       THEN /\ line' = Erased(line, lineCount - 1)
            /\ lineCount' = lineCount - 1
            /\ typed' = IF typed = <<>> THEN <<>> ELSE Front(typed)
       ELSE UNCHANGED <<line, lineCount, typed>>
  /\ NoCall
  /\ UNCHANGED <<up, clean>>

\* Any other character.  The mutant fills the last place as well.
HasAnyPlace == lineCount < LineSize
HasPlace    == lineCount < LineSize - 1
Type(c) ==
  /\ up
  /\ IF HasPlace
       THEN /\ line' = [line EXCEPT ![lineCount] = c]
            /\ lineCount' = lineCount + 1
            /\ typed' = Append(typed, c)
       ELSE UNCHANGED <<line, lineCount, typed>>
  /\ NoCall
  /\ UNCHANGED <<up, clean>>

Down == ~up /\ UNCHANGED vars

Next == \/ EnterBlank \/ EnterCommand \/ CtrlC \/ Delete
        \/ \E c \in Letters \cup Blank \cup {NUL} : Type(c)
        \/ Down

Spec == Init /\ [][Next]_vars
-----------------------------------------------------------------------------
\* Types of the state.
TypeOK ==
  /\ line \in [Index -> Letters \cup Blank \cup {NUL}]
  /\ lineCount \in Index
  /\ {outside, up, clean} \subseteq BOOLEAN

\* lineCount stays in line, and what is on the screen is what is in the buffer: the characters shown behind
\* the prompt end the part of line that is in use, what precedes them are
\* blanks of earlier lines (or a text with a NUL, which Enter does not see), and
\* everything behind them is zero, which the three characters that ls and cd
\* skip rely on.
BufferIsScreen ==
  /\ TypeOK
  /\ clean =>
       LET kept == lineCount - Len(typed)
       IN  /\ kept >= 0
           /\ \A j \in 1 .. Len(typed) : line[kept + j - 1] = typed[j]
           /\ \/ \A j \in 0 .. kept - 1 : line[j] \in Blank
              \/ \E j \in 0 .. kept - 1 : line[j] = NUL /\ \A k \in 0 .. j - 1 : line[k] \in Blank
           /\ \A j \in lineCount .. LineSize - 1 : line[j] = NUL

\* The command a text stands for: the first word names a built-in, what follows
\* it is the argument; any other text is run as a program.
Stripped(t) == LET first == Min({j \in 1 .. Len(t) : t[j] \notin Blank} \cup {Len(t) + 1})
               IN  SubSeq(t, first, Len(t))
FirstWord(t) == LET end == Min({j \in 1 .. Len(t) : t[j] \in Blank} \cup {Len(t) + 1})
                IN  SubSeq(t, 1, end - 1)
Command(t) ==
  LET s == Stripped(t)
      w == FirstWord(s)
      a == Stripped(SubSeq(s, Len(w) + 1, Len(s)))
  IN  IF s = <<>> THEN Nothing
      ELSE IF s = SHUTDOWN THEN [call |-> "shutdown", arg |-> <<>>]
      ELSE IF w = <<"l", "s">> THEN [call |-> "ls", arg |-> a]
      ELSE IF w = <<"c", "d">> THEN IF a = <<>> THEN Nothing ELSE [call |-> "cd", arg |-> a]
      ELSE IF w = <<"p", "w", "d">> THEN [call |-> "pwd", arg |-> <<>>]
      ELSE [call |-> "exec", arg |-> s]

\* The shell does what was typed since the last prompt, whatever blank lines,
\* deletions and interrupted lines came before, as long as no NUL was typed and
\* ls or cd are not the last two of LineSize - 1 characters.
DoesWhatWasTyped == asked.plain /\ ~asked.edge => did = Command(asked.text)

\* The buffer is read behind its end only for a line in which ls or cd are the
\* last two of LineSize - 1 characters, or before it was first emptied: line is
\* not initialised and may have no zero at its end.
ReadsStayInside == [][outside' => asked'.edge \/ ~clean]_vars
=============================================================================
