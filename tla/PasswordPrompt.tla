--------------------------- MODULE PasswordPrompt ---------------------------
(***************************************************************************)
(* readNewPassword of ocm-admin: a password asked for twice, from a pipe   *)
(* through readline, whose lines come whether or not one is awaited, or    *)
(* from a terminal in raw mode, in chunks of keys.  Input that comes while *)
(* nobody listens stays in the pipe or the terminal, and comes later.      *)
(***************************************************************************)
EXTENDS Naturals, Sequences, SequencesExt

CONSTANTS Char,            \* characters; "3" is one that matters
          Special,         \* other keys: "ctrl-c", "backspace"
          MinLength,       \* MIN_PASSWORD_LENGTH
          MaxKeys          \* bound: keys of a line

VARIABLES tty,             \* stdin is a terminal
          at,              \* where the command is
          listening,       \* readline exists, or the listener is attached
          lineQueue, lineWaiter,    \* of readLine
          value,           \* of promptHidden
          got,             \* what the awaited promise was resolved with
          password,        \* the first answer
          typed            \* history: the lines that came in, or are typed

promptVars == <<tty, at, listening, lineQueue, lineWaiter, value, got, password, typed>>

Line == SeqOf(Char \union Special, MaxKeys)
MaxLines == 3
Nothing == <<"nothing">>
Ended == {"hash", "failed", "interrupted", "over"}

TypeOK == /\ tty \in BOOLEAN /\ listening \in BOOLEAN /\ lineWaiter \in BOOLEAN
          /\ at \in {"new", "confirm"} \union Ended
          /\ lineQueue \in Seq(Line) /\ value \in Line
          /\ {got, password} \subseteq Line \union {Nothing}
          /\ typed \in Seq(Line) /\ Len(typed) <= MaxLines

Init == /\ tty \in BOOLEAN
        /\ at = "new"
        /\ listening = FALSE
        /\ lineQueue = <<>> /\ lineWaiter = FALSE
        /\ value = <<>>
        /\ got = Nothing /\ password = Nothing
        /\ typed = <<>>

(***************************************************************************)
(* A pipe: readLine.                                                       *)
(***************************************************************************)
\* A slip: a line that nobody waits for is lost.
OnLineUnbuffered(l) == /\ lineWaiter' = FALSE
                       /\ got' = IF lineWaiter THEN l ELSE got
                       /\ UNCHANGED lineQueue

\* The listener of 'line'.
OnLine(l) == IF lineWaiter THEN lineWaiter' = FALSE /\ got' = l /\ UNCHANGED lineQueue
             ELSE lineQueue' = Append(lineQueue, l) /\ UNCHANGED <<lineWaiter, got>>

\* A line that was queued answers at once.
ReadLine ==
  /\ listening' = TRUE
  /\ IF lineQueue # <<>> THEN /\ got' = Head(lineQueue) /\ lineQueue' = Tail(lineQueue)
                              /\ UNCHANGED lineWaiter
                         ELSE lineWaiter' = TRUE /\ UNCHANGED <<got, lineQueue>>

PipeLine(l) == /\ ~tty /\ listening /\ at \notin Ended
               /\ Len(typed) < MaxLines
               /\ typed' = Append(typed, l)
               /\ OnLine(l)
               /\ UNCHANGED <<tty, at, listening, value, password>>

\* The pipe ends while a line is awaited: nothing is left to wait for, and
\* the process ends as if it had succeeded.
PipeEnds == /\ ~tty /\ lineWaiter /\ at \notin Ended
            /\ at' = "over"
            /\ UNCHANGED <<tty, listening, lineQueue, lineWaiter, value, got, password, typed>>

(***************************************************************************)
(* A terminal: promptHidden.                                               *)
(***************************************************************************)
LastTyped == typed[Len(typed)]

\* setEncoding makes a chunk a string, so it "includes" 0x03 if it has the
\* digit 3 in it, and its first element is never the code of a backspace.
OnData(chunk, enter) ==
  IF Contains(chunk, "3") THEN at' = "interrupted" /\ UNCHANGED <<value, got, listening>>
  ELSE /\ value' = IF enter THEN <<>> ELSE value \o chunk
       /\ got' = IF enter THEN value \o chunk ELSE got
       /\ listening' = ~enter
       /\ UNCHANGED at

\* A bound, for a paste: enter is the last key of its chunk.
Keys(chunk, enter) ==
  /\ tty /\ listening /\ at \notin Ended
  /\ enter \/ chunk # <<>>
  /\ Len(LastTyped) + Len(chunk) <= MaxKeys
  /\ typed' = [typed EXCEPT ![Len(typed)] = @ \o chunk]
  /\ OnData(chunk, enter)
  /\ UNCHANGED <<tty, lineQueue, lineWaiter, password>>

(***************************************************************************)
(* readNewPassword.                                                        *)
(***************************************************************************)
Asked == IF tty THEN listening ELSE lineWaiter

PromptHidden == /\ at \in {"new", "confirm"} /\ ~Asked /\ got = Nothing
                /\ IF tty THEN /\ listening' = TRUE
                               /\ typed' = Append(typed, <<>>)
                               /\ UNCHANGED <<lineQueue, lineWaiter, got>>
                          ELSE ReadLine /\ UNCHANGED typed
                /\ UNCHANGED <<tty, at, value, password>>

\* The await goes on with the answer, once no more input events are queued
\* before it.
Resume ==
  /\ at \in {"new", "confirm"} /\ got # Nothing
  /\ got' = Nothing
  /\ IF at = "new"
     THEN /\ at' = IF Len(got) < MinLength THEN "failed" ELSE "confirm"
          /\ password' = got
     ELSE /\ at' = IF got # password THEN "failed" ELSE "hash"
          /\ UNCHANGED password
  /\ UNCHANGED <<tty, listening, lineQueue, lineWaiter, value, typed>>

Next == \/ PromptHidden \/ Resume \/ PipeEnds
        \/ \E l \in Line : PipeLine(l)
        \/ \E chunk \in Line, enter \in BOOLEAN : Keys(chunk, enter)

Spec == Init /\ [][Next]_promptVars

(***************************************************************************)
(* Correctness.                                                            *)
(***************************************************************************)
\* "Lines are buffered so none are lost between the two password prompts": a
\* password that is set has been given twice, as the first two lines, however
\* the lines and the prompts overlap.
PasswordIsTyped ==
  at = "hash" => /\ Len(password) >= MinLength
                 /\ typed[1] = password /\ typed[2] = password

\* Ctrl-C, and nothing else, leaves the prompt.
OnlyCtrlCInterrupts ==
  at = "interrupted" => \E i \in DOMAIN typed : Contains(typed[i], "ctrl-c")

(***************************************************************************)
(* The inductive invariant.                                                *)
(***************************************************************************)
\* The answers taken, and the one the command is about to take.
Asking == at \in {"new", "confirm"}
Answered == IF at = "new" THEN 0 ELSE 1
Given == IF got = Nothing THEN Answered ELSE Answered + 1

\* The lines of a pipe: answers first, then the queue, in the order they came.
PipeInv ==
  ~tty /\ Asking =>
    /\ Len(typed) = Given + Len(lineQueue)
    /\ \A i \in DOMAIN lineQueue : typed[Given + i] = lineQueue[i]
    /\ got # Nothing => typed[Given] = got
    /\ lineWaiter => lineQueue = <<>> /\ got = Nothing

\* The lines of a terminal: answers first, then the one being typed.
TtyInv ==
  tty /\ Asking =>
    /\ Len(typed) = IF listening THEN Given + 1 ELSE Given
    /\ listening => got = Nothing /\ value = LastTyped
    /\ ~listening => value = <<>>
    /\ got # Nothing => got = LastTyped

\* The first answer is the first line.
FirstInv ==
  at = "confirm" => Len(password) >= MinLength /\ typed[1] = password

PromptInv == TypeOK /\ PipeInv /\ TtyInv /\ FirstInv /\ PasswordIsTyped
=============================================================================
