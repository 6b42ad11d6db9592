--------------------------- MODULE WideTextFinder ---------------------------
(***************************************************************************)
(* The text finder of the GSM library, GSMSHIELD/WideTextFinder.cpp:       *)
(* searches and conversions on the characters that come in, one at a time. *)
(*                                                                         *)
(* Every function takes its characters from read(), which waits until      *)
(* millis() reaches the time it began plus the timeout, and gives a 0 for  *)
(* silence.  Nothing is looked at twice, and what a call leaves in the line *)
(* meets the next call.  Characters are their codes.                       *)
(***************************************************************************)
EXTENDS Integers, SequencesExt

CONSTANTS
  Scenarios,  \* sets of calls, each with the characters that the modem sends
  ClockMod,   \* range of an unsigned long
  Millis,     \* 1000L, the milliseconds of a second
  Seconds,    \* the arguments of setTimeout that are considered
  ByteMod,    \* range of a byte
  LongMax,    \* the largest long
  MaxLag,     \* bound: time between two tests of read()'s loop
  LineSize,   \* size of the port's buffer
  MaxChars    \* bound: characters that the modem sends

NUL == 0
NO_SKIP_CHAR == 1
Minus == 45
Dot == 46
IsDigit(c) == c \in 48..57
Junk == -1  \* memory that was allocated and not written

\* getString takes its target and its poststring from the same fields.
CallTypes == [op : {"findUntil", "getString", "getValue", "getFloat", "getFloatDefault"},
              target : Seq(1..127), post : Seq(1..127), skip : 1..127, length : Nat \ {0}]

ASSUME FinderAssumption ==
  /\ Scenarios \subseteq [calls : SUBSET CallTypes, chars : SUBSET (0..127)]
  /\ {ClockMod, Millis, ByteMod, MaxLag, LineSize} \subseteq Nat \ {0}
  /\ {LongMax, MaxChars} \subseteq Nat /\ Seconds \subseteq Nat

VARIABLES
  millis, timeout, startMillis,
  line,       \* the characters in the port's buffer
  scenario, sent,
  pc,         \* "idle", or "read": in the loop of read()
  phase,      \* the loop that calls read()
  call,       \* the arguments of the call
  index, termIndex,               \* findUntil
  count, buffer,                  \* getString's index and buffer
  value, isNegative, isFraction, scale,  \* fraction is 10^-scale
  result,     \* what the last call returned
  outside,    \* getString wrote past its buffer
  undefined,  \* the value is not defined by the language
  lag,        \* time since the last test of read()'s loop
  got,        \* history: what this call, or its copying, has read
  silent,     \* history: the last read gave 0
  waited      \* history: time since startMillis was set

search_vars == <<index, termIndex>>
copy_vars == <<count, buffer, outside>>
number_vars == <<value, isNegative, isFraction, scale, undefined>>
line_vars == <<line, scenario, sent>>
vars == <<millis, timeout, startMillis, line_vars, pc, phase, call, search_vars, copy_vars,
          number_vars, result, lag, got, silent, waited>>

Init ==
  /\ millis \in 0..ClockMod - 1 /\ startMillis = 0
  /\ \E s \in Seconds : timeout = (s * Millis) % ClockMod
  /\ line = << >> /\ scenario \in Scenarios /\ sent = 0
  /\ pc = "idle" /\ phase = "none" /\ call \in scenario.calls
  /\ index = 0 /\ termIndex = 0
  /\ count = 0 /\ buffer = << >> /\ outside = FALSE
  /\ value = 0 /\ isNegative = FALSE /\ isFraction = FALSE /\ scale = 0 /\ undefined = FALSE
  /\ result = 0 /\ lag = 0 /\ got = << >> /\ silent = FALSE /\ waited = 0

----------------------------------------------------------------------------
(* How a function goes on after a character.                               *)

\* Mutant: the time is taken once per call.
ReadOnKeepsStart ==
  /\ pc' = "read" /\ waited' = 0 /\ UNCHANGED result
  /\ startMillis' = IF pc = "idle" THEN millis ELSE startMillis

\* The next read().
ReadOn == pc' = "read" /\ startMillis' = millis /\ waited' = 0 /\ UNCHANGED result

Return(r) == pc' = "idle" /\ result' = r /\ waited' = 0 /\ UNCHANGED startMillis

\* buffer[i] = chars[i] for every i that chars has
Write(chars) ==
  /\ buffer' = [i \in DOMAIN buffer |-> IF i \in DOMAIN chars THEN chars[i] ELSE buffer[i]]
  /\ outside' = (outside \/ ~(DOMAIN chars \subseteq DOMAIN buffer))

\* getString once the prestring was found
StartCopy(length) ==
  /\ phase' = "copy" /\ count' = 0
  /\ buffer' = [i \in 0..length - 1 |-> IF i = 0 THEN 0 ELSE Junk]
  /\ UNCHANGED outside
  /\ IF length > 1 THEN ReadOn ELSE Return(0)

Found ==
  IF call.op = "getString" THEN StartCopy(call.length)
  ELSE Return(1) /\ UNCHANGED <<phase, copy_vars>>

----------------------------------------------------------------------------
(* What each loop does with a character, 0 for none.                       *)

\* The strings' lengths are kept in a byte.
TargetLen == Len(call.target) % ByteMod
Terminate == IF call.op = "findUntil" THEN call.post ELSE << >>
TermLen == Len(Terminate) % ByteMod

\* Mutant: a mismatch does not start again from the first character.
FindKeepsIndex(c) ==
  /\ phase = "find" /\ UNCHANGED number_vars
  /\ LET matches == c = call.target[index + 1]
         ends == TermLen > 0 /\ c = Terminate[termIndex + 1]
     IN  \/ c = 0 /\ Return(0) /\ UNCHANGED <<phase, search_vars, copy_vars>>
         \/ c # 0 /\ matches /\ index + 1 >= TargetLen /\ Found /\ UNCHANGED search_vars
         \/ /\ c # 0 /\ ~(matches /\ index + 1 >= TargetLen)
            /\ index' = IF matches THEN index + 1 ELSE index
            /\ termIndex' = IF ends THEN termIndex + 1 ELSE 0
            /\ IF ends /\ termIndex + 1 >= TermLen THEN Return(0) ELSE ReadOn
            /\ UNCHANGED <<phase, copy_vars>>

\* findUntil: the target is tested first, and a character that does not match
\* is not tested against the beginning of the target.
Find(c) ==
  /\ phase = "find" /\ UNCHANGED number_vars
  /\ LET matches == c = call.target[index + 1]
         ends == TermLen > 0 /\ c = Terminate[termIndex + 1]
     IN  \/ c = 0 /\ Return(0) /\ UNCHANGED <<phase, search_vars, copy_vars>>
         \/ c # 0 /\ matches /\ index + 1 >= TargetLen /\ Found /\ UNCHANGED search_vars
         \/ /\ c # 0 /\ ~(matches /\ index + 1 >= TargetLen)
            /\ index' = IF matches THEN index + 1 ELSE 0
            /\ termIndex' = IF ends THEN termIndex + 1 ELSE 0
            /\ IF ends /\ termIndex + 1 >= TermLen THEN Return(0) ELSE ReadOn
            /\ UNCHANGED <<phase, copy_vars>>

\* *post_string
PostChar == IF call.post = << >> THEN NUL ELSE call.post[1]

\* Mutant: the loop goes on while there is any place left.
CopyToTheEnd(c) ==
  /\ phase = "copy" /\ UNCHANGED <<phase, search_vars, number_vars>>
  /\ \/ c = 0 /\ Return(0) /\ UNCHANGED copy_vars
     \/ /\ c # 0 /\ c = PostChar
        /\ Write([i \in count..call.length - 1 |-> 0]) /\ count' = call.length /\ Return(call.length)
     \/ /\ c \notin {0, PostChar} /\ count' = count + 1
        /\ IF count + 1 < call.length
             THEN Write([i \in {count} |-> c]) /\ ReadOn
             ELSE Write([i \in {count, count + 1} |-> IF i = count THEN c ELSE 0]) /\ Return(count + 1)

\* getString: a poststring, of which only the first character counts, fills the
\* rest of the buffer with zeros; a full buffer ends the string as well.
Copy(c) ==
  /\ phase = "copy" /\ UNCHANGED <<phase, search_vars, number_vars>>
  /\ \/ c = 0 /\ Return(0) /\ UNCHANGED copy_vars
     \/ /\ c # 0 /\ c = PostChar
        /\ Write([i \in count..call.length - 1 |-> 0]) /\ count' = call.length /\ Return(call.length)
     \/ /\ c \notin {0, PostChar} /\ count' = count + 1
        /\ IF count + 1 < call.length - 1
             THEN Write([i \in {count} |-> c]) /\ ReadOn
             ELSE Write([i \in {count, count + 1} |-> IF i = count THEN c ELSE 0]) /\ Return(count + 1)

IsFloat == call.op \in {"getFloat", "getFloatDefault"}

\* The body of the do loop of getValue and getFloat.
Evaluate(c) ==
  LET adds == IsDigit(c) /\ c # call.skip
      next == value * 10 + c - 48
  IN  /\ isNegative' = (isNegative \/ (c = Minus /\ c # call.skip))
      /\ isFraction' = (isFraction \/ (IsFloat /\ c = Dot /\ c # call.skip))
      /\ undefined' = (undefined \/ (adds /\ next > LongMax))
      /\ value' = IF ~adds THEN value ELSE IF next > LongMax THEN 0 ELSE next
      /\ scale' = IF adds /\ isFraction THEN scale + 1 ELSE scale

\* Mutant: silence does not end the search for a number in getValue either.
SkipNoTimeout(c) ==
  /\ phase = "skip" /\ UNCHANGED <<search_vars, copy_vars>>
  /\ IF IsDigit(c) \/ c = Minus THEN phase' = "number" /\ Evaluate(c) /\ ReadOn
     ELSE ReadOn /\ UNCHANGED <<phase, number_vars>>

\* The first loop of getValue and getFloat, up to the first turn of the second
\* one: silence ends it in getValue only.
Skip(c) ==
  /\ phase = "skip" /\ UNCHANGED <<search_vars, copy_vars>>
  /\ \/ (IsDigit(c) \/ c = Minus) /\ phase' = "number" /\ Evaluate(c) /\ ReadOn
     \/ c = 0 /\ ~IsFloat /\ Return(0) /\ UNCHANGED <<phase, number_vars>>
     \/ ~IsDigit(c) /\ c # Minus /\ (c # 0 \/ IsFloat) /\ ReadOn
        /\ UNCHANGED <<phase, number_vars>>

\* The second loop ends at the first other character, or at silence.
\* getFloat() calls getFloat(skipChar) and then ends without a return.
Number(c) ==
  /\ phase = "number" /\ UNCHANGED <<phase, search_vars, copy_vars>>
  /\ IF IsDigit(c) \/ c = call.skip \/ (IsFloat /\ c = Dot)
       THEN Evaluate(c) /\ ReadOn
       ELSE /\ Return(IF isNegative THEN -value ELSE value)
            /\ undefined' = (undefined \/ call.op = "getFloatDefault")
            /\ UNCHANGED <<value, isNegative, isFraction, scale>>

Take(c) == Find(c) \/ Copy(c) \/ Skip(c) \/ Number(c)

----------------------------------------------------------------------------
(* The program.                                                            *)

\* A call, up to its first read().
Begin ==
  /\ pc = "idle"
  /\ call' \in scenario.calls
  /\ index' = 0 /\ termIndex' = 0
  /\ value' = 0 /\ isNegative' = FALSE /\ isFraction' = FALSE /\ scale' = 0 /\ undefined' = FALSE
  /\ got' = << >> /\ silent' = FALSE /\ lag' = 0
  /\ UNCHANGED <<millis, timeout, line_vars>>
  /\ LET searches == call'.op \in {"findUntil", "getString"}
     IN  \/ searches /\ call'.target = << >> /\ call'.op = "getString" /\ StartCopy(call'.length)
         \/ /\ searches /\ call'.target = << >> /\ call'.op = "findUntil"
            /\ phase' = "find" /\ Return(1) /\ UNCHANGED copy_vars
         \/ searches /\ call'.target # << >> /\ phase' = "find" /\ ReadOn /\ UNCHANGED copy_vars
         \/ ~searches /\ phase' = "skip" /\ ReadOn /\ UNCHANGED copy_vars

SetTimeout ==
  /\ pc = "idle"
  /\ \E s \in Seconds : timeout' = (s * Millis) % ClockMod
  /\ UNCHANGED <<millis, startMillis, line_vars, pc, phase, call, search_vars, copy_vars,
                 number_vars, result, lag, got, silent, waited>>

\* ~(millis() < (startMillis + timeout)), both of them unsigned long
Expired == millis >= (startMillis + timeout) % ClockMod

\* read() has waited long enough.
GiveUp ==
  /\ pc = "read" /\ Expired
  /\ Take(NUL)
  /\ silent' = TRUE /\ lag' = 0
  /\ UNCHANGED <<millis, timeout, line_vars, call, got>>

\* read() has a character; a NUL is taken for silence.
Receive ==
  /\ pc = "read" /\ ~Expired /\ line # << >>
  /\ LET c == Head(line)
     IN  /\ Take(c)
         /\ silent' = (c = NUL)
         /\ got' = IF phase' # phase /\ phase' = "copy" THEN << >>
                   ELSE IF c = NUL THEN got ELSE Append(got, c)
  /\ line' = Tail(line) /\ lag' = 0
  /\ UNCHANGED <<millis, timeout, scenario, sent, call>>

\* read() goes round once more.
Spin ==
  /\ pc = "read" /\ ~Expired /\ line = << >> /\ lag > 0
  /\ lag' = 0
  /\ UNCHANGED <<millis, timeout, startMillis, line_vars, pc, phase, call, search_vars, copy_vars,
                 number_vars, result, got, silent, waited>>

Program == GiveUp \/ Receive \/ Spin

----------------------------------------------------------------------------
(* The port and the clock.                                                 *)

\* The port drops a character without room.
Arrive ==
  /\ sent < MaxChars /\ sent' = sent + 1
  /\ \E c \in scenario.chars : line' = IF Len(line) < LineSize THEN Append(line, c) ELSE line
  /\ UNCHANGED <<millis, timeout, startMillis, scenario, pc, phase, call, search_vars, copy_vars,
                 number_vars, result, lag, got, silent, waited>>

Tick ==
  /\ pc = "read" => lag < MaxLag
  /\ millis' = (millis + 1) % ClockMod
  /\ lag' = IF pc = "read" THEN lag + 1 ELSE 0
  /\ waited' = IF pc = "read" /\ waited < ClockMod THEN waited + 1 ELSE waited
  /\ UNCHANGED <<timeout, startMillis, line_vars, pc, phase, call, search_vars, copy_vars,
                 number_vars, result, got, silent>>

Next == Begin \/ SetTimeout \/ Program \/ Arrive \/ Tick

Spec == Init /\ [][Next]_vars

\* The program runs and time passes; the clock's turns do not all skip the
\* moment at which a wait is over.
FairSpec == Spec /\ WF_vars(Program) /\ WF_vars(Tick) /\ SF_vars(GiveUp)

----------------------------------------------------------------------------
(* Properties.                                                             *)

Returned(ops) == pc = "idle" /\ phase # "none" /\ call.op \in ops

\* t occurs in what was read from position p on.
OccursAt(t, p) == p + Len(t) - 1 <= Len(got) /\ SubSeq(got, p, p + Len(t) - 1) = t

\* What comes before position p ends in a beginning of t.
BeginsBefore(t, p) ==
  \E j \in 1..Len(t) - 1 : j < p /\ SubSeq(got, p - j, p - 1) = SubSeq(t, 1, j)

\* Every occurrence of t was missed, if at all, while a beginning of t that came
\* right before it was still being matched.
MissedOnlyOverlapped(t) ==
  \A p \in 1..Len(got) : OccursAt(t, p) => BeginsBefore(t, p)

\* findUntil returns true only at the end of the target, and false only at
\* silence or at the end of the terminator; it passes over an occurrence of
\* either only if a beginning of it comes right before ("the search ends if the
\* terminate string is found").  Longer strings than a byte counts are excepted.
SearchVerdict ==
  (Returned({"findUntil"}) /\ call.target # << >> /\ {Len(call.target), Len(call.post)} \subseteq 0..ByteMod - 1)
    => /\ result = 1 => IsSuffix(call.target, got)
       /\ (result = 0 /\ ~silent) => call.post # << >> /\ IsSuffix(call.post, got)
       /\ result = 0 => MissedOnlyOverlapped(call.target)
       /\ (call.post # << >> /\ (result = 1 \/ silent)) =>
            \A p \in 1..Len(got) : OccursAt(call.post, p) =>
              BeginsBefore(call.post, p) \/ (result = 1 /\ p + Len(call.post) - 1 = Len(got))

\* What getString put into the buffer: what comes before the poststring's first
\* character, or as much of it as the buffer can hold.
Closed == got # << >> /\ Last(got) = PostChar
StringText == IF Closed THEN Front(got) ELSE got
StringRead ==
  LET text == StringText
  IN  /\ PostChar \notin {text[k] : k \in 1..Len(text)}
      /\ Len(text) < call.length /\ (Closed \/ Len(text) = call.length - 1)
      /\ \A i \in 0..Len(text) : buffer[i] = IF i = Len(text) THEN 0 ELSE text[i + 1]

Counts(c, skip) == IsDigit(c) /\ c # skip

\* The value of the digits in a text, and how many of them come after a point.
Decimal(text, skip) ==
  LET v[k \in 0..Len(text)] ==
        IF k = 0 THEN 0
        ELSE IF Counts(text[k], skip) THEN v[k - 1] * 10 + text[k] - 48 ELSE v[k - 1]
  IN  v[Len(text)]
Decimals(text, skip) ==
  Cardinality({k \in 1..Len(text) :
                 Counts(text[k], skip) /\ \E j \in 1..k : text[j] = Dot /\ text[j] # skip})

\* The number at the front of what was read, after what is no number.
Within(c) == IsDigit(c) \/ c = call.skip \/ (IsFloat /\ c = Dot)
Starts(c) == IsDigit(c) \/ c = Minus
NumberRead ==
  LET end == IF silent THEN Len(got) ELSE Len(got) - 1
  IN  \/ (\A k \in 1..Len(got) : ~Starts(got[k])) /\ silent /\ ~IsFloat /\ result = 0
      \/ \E first \in 1..end :
           LET run == SubSeq(got, first, end)
               size == Decimal(run, call.skip)
           IN  /\ Starts(got[first]) /\ \A k \in 1..first - 1 : ~Starts(got[k])
               /\ \A k \in first + 1..end : Within(got[k])
               /\ silent \/ ~Within(got[Len(got)])
               /\ result = IF got[first] = Minus /\ call.skip # Minus THEN -size ELSE size
               /\ scale = IF IsFloat THEN Decimals(run, call.skip) ELSE 0

\* getString never writes past its buffer, and when it returns a success, the
\* buffer holds the text between the prestring and the poststring, or as much of
\* it as fits, as a string that ends; getValue and getFloat return the first
\* number in what was read, up to the first other character or silence, if a long
\* can hold it.
ResultIsRead ==
  /\ ~outside
  /\ (Returned({"getString"}) /\ result > 0) => StringRead
  /\ (Returned({"getValue", "getFloat"}) /\ ~undefined) => NumberRead

\* What WideTextFinder.cpp:84 and WideTextFinder.h:51 say of getString: it "returns
\* the number of characters placed in the buffer (0 means no valid data found)".
CharactersCounted == (Returned({"getString"}) /\ result > 0) => result = Len(StringText)

\* read() gives up only after the whole timeout, unless the clock wraps within
\* it; and it does not wait longer, unless its end is so close to the wrap that
\* no test of the loop meets it, as it may be with any clock for a timeout of 0.
WaitsAreReal ==
  [][/\ GiveUp => waited >= timeout \/ startMillis + timeout >= ClockMod
     /\ (pc = "read" /\ timeout > 0 /\ waited >= timeout + MaxLag)
          => startMillis + timeout \in ClockMod - MaxLag + 1..ClockMod - 1]_vars

\* Every call returns when nothing more comes, but for getFloat, which waits for
\* the first digit or minus however long it is silent.
CallsReturn == pc = "read" ~> (pc = "idle" \/ (IsFloat /\ phase = "skip"))
=============================================================================
