------------------------------ MODULE StepOutput ------------------------------
(* What becomes of the output of a step: internal/runner/exec/output.go with
   the command protocol of internal/runner/commands/commands.go.

   A process writes two streams, each copied by a goroutine of its own, in
   pieces that end anywhere. Write puts a piece behind the rest of the line
   held for its stream, takes the complete lines under the lock, and hands them
   on one by one without it, so lines of the other stream come in between.
   Both streams share one command processor. The last, unfinished line is
   handed on by flush when the process has ended.

   Text is words; "nl" ends a line, and the first word of a line is the command
   it is, if it is one. Masking and the platform's own lines are left out. *)
EXTENDS Integers, Sequences, SequencesExt

CONSTANTS
    Script,     \* what a step may write: functions from Stream to sequences of words
    MaxWrite    \* the most words of one write

Stream == {"stdout", "stderr"}

VARIABLES
    script,    \* what this step writes
    written,   \* by stream, how many words the step has written
    held,      \* by stream, the rest of an unfinished line
    split,     \* by stream, complete lines on their way to the processor
    groups,    \* the titles of the open groups
    stopToken, \* the token that resumes command processing, "" if it is on
    taken,     \* every line the processor was given: stream, text, group, emit
    stepOutput \* written, flushing or closed

outputVars == <<script, written, held, split, groups, stopToken, taken, stepOutput>>

Nothing == [s \in Stream |-> <<>>]

OutputInit ==
    /\ script \in Script
    /\ written = [s \in Stream |-> 0]
    /\ held = Nothing /\ split = Nothing
    /\ groups = <<>> /\ stopToken = "" /\ taken = <<>>
    /\ stepOutput = "written"

(* strings.Split of a text at its newlines: the complete lines, and the rest. *)
SplitLines(text) ==
    LET add(acc, w) == IF w = "nl" THEN [lines |-> Append(acc.lines, acc.rest), rest |-> <<>>]
                                   ELSE [acc EXCEPT !.rest = Append(@, w)]
    IN FoldLeft(add, [lines |-> <<>>, rest |-> <<>>], text)

(* A slip to guard against: the rest of the buffer goes with its lines. *)
SplitDropsRest(text) == [SplitLines(text) EXCEPT !.rest = IF SplitLines(text).lines = <<>> THEN @ ELSE <<>>]

TakeLines(text) == SplitLines(text)

(* streamWriter.Write, as far as it holds the lock. A goroutine hands on all
   lines of one write before it copies the next. *)
WriteOutput(s) ==
    /\ stepOutput = "written" /\ split[s] = <<>>
    /\ \E n \in 1..MaxWrite :
          /\ written[s] + n <= Len(script[s])
          /\ LET all == held[s] \o SubSeq(script[s], written[s] + 1, written[s] + n)
                 cutUp == TakeLines(all)
             IN /\ held' = [held EXCEPT ![s] = cutUp.rest]
                /\ split' = [split EXCEPT ![s] = cutUp.lines]
                /\ written' = [written EXCEPT ![s] = @ + n]
    /\ UNCHANGED <<script, groups, stopToken, taken, stepOutput>>

CommandOf(line) == IF line = <<>> THEN "" ELSE Head(line)
Title(line) == IF Len(line) > 1 THEN line[2] ELSE ""
GroupNow(open) == IF open = <<>> THEN "" ELSE Last(open)

(* Processor.Line: the groups and the pause after the line, and whether it is
   logged. While processing is paused everything but the token is output; a
   token that is a command's name, or none, does not pause. *)
Known == {"group", "endgroup", "stop"}
Unchanged == [groups |-> groups, stop |-> stopToken, emit |-> TRUE]
AsCommand(line) ==
    LET c == CommandOf(line)
    IN CASE c = "group" -> [Unchanged EXCEPT !.groups = Append(@, Title(line)), !.emit = FALSE]
         [] c = "endgroup" -> [Unchanged EXCEPT !.groups = IF @ = <<>> THEN @ ELSE Front(@), !.emit = FALSE]
         [] c = "stop" /\ Title(line) \notin Known \union {""} ->
               [Unchanged EXCEPT !.stop = Title(line), !.emit = FALSE]
         [] OTHER -> Unchanged
Resumed == [Unchanged EXCEPT !.stop = "", !.emit = FALSE]

(* A slip to guard against: a paused step's groups are still followed. *)
ProcessedGroupsPaused(line) ==
    IF stopToken = "" \/ CommandOf(line) \in {"group", "endgroup"} THEN AsCommand(line)
    ELSE IF CommandOf(line) = stopToken THEN Resumed ELSE Unchanged

Processed(line) ==
    IF stopToken = "" THEN AsCommand(line)
    ELSE IF CommandOf(line) = stopToken THEN Resumed ELSE Unchanged

(* collector.line: one line through the processor and, unless it was eaten, to
   the log, under the lock. *)
ProcessLine(s, line) ==
    LET p == Processed(line)
    IN /\ groups' = p.groups
       /\ stopToken' = p.stop
       /\ taken' = Append(taken, [stream |-> s, text |-> line, emit |-> p.emit,
                                  group |-> GroupNow(p.groups)])

HandOn(s) ==
    /\ split[s] # <<>>
    /\ ProcessLine(s, Head(split[s]))
    /\ split' = [split EXCEPT ![s] = Tail(@)]
    /\ UNCHANGED <<script, written, held, stepOutput>>

(* The process has ended and both copies with it; flush hands on what is held,
   the streams in either order. *)
OutputEnds ==
    /\ stepOutput = "written"
    /\ \A s \in Stream : written[s] = Len(script[s]) /\ split[s] = <<>>
    /\ stepOutput' = "flushing"
    /\ UNCHANGED <<script, written, held, split, groups, stopToken, taken>>

FlushLine(s) ==
    /\ stepOutput = "flushing" /\ held[s] # <<>>
    /\ ProcessLine(s, held[s])
    /\ held' = [held EXCEPT ![s] = <<>>]
    /\ UNCHANGED <<script, written, split, stepOutput>>

FlushEnds ==
    /\ stepOutput = "flushing" /\ held = Nothing
    /\ stepOutput' = "closed"
    /\ UNCHANGED <<script, written, held, split, groups, stopToken, taken>>

OutputNext ==
    \/ \E s \in Stream : WriteOutput(s) \/ HandOn(s) \/ FlushLine(s)
    \/ OutputEnds \/ FlushEnds

-----------------------------------------------------------------------------
TakenFrom(s) == LET ofStream(t) == t.stream = s
                IN [i \in DOMAIN SelectSeq(taken, ofStream) |-> SelectSeq(taken, ofStream)[i].text]

(* However a step breaks its output into writes, and however the two streams
   interleave: the processor is given each line of each stream whole, once and
   in the stream's order, and when the output is closed the last line too, even
   without a newline. No half of a line is ever taken for a command. *)
LinesWhole ==
    \A s \in Stream :
       LET all == SplitLines(SubSeq(script[s], 1, written[s]))
       IN IF stepOutput \in {"flushing", "closed"}
          THEN TakenFrom(s) \o (IF held[s] = <<>> THEN <<>> ELSE <<held[s]>>)
                 = all.lines \o (IF all.rest = <<>> THEN <<>> ELSE <<all.rest>>)
          ELSE TakenFrom(s) \o split[s] = all.lines /\ held[s] = all.rest

(* The line i paused the commands, and none since, up to j, was its token. *)
PausesUpTo(i, j) ==
    /\ CommandOf(taken[i].text) = "stop" /\ ~taken[i].emit
    /\ \A k \in i+1..j-1 : CommandOf(taken[k].text) # Title(taken[i].text)

(* Between a stop and its token, from whichever stream either comes and however
   the lines of the two are mixed, nothing a step prints is a command: it is all
   output, in the group open at the stop, and only the token itself is eaten.
   Outside a pause no group command slips into the output. *)
PausedIsOutput ==
    \A j \in DOMAIN taken :
       LET pauses == {i \in 1..j-1 : PausesUpTo(i, j)}
       IN IF pauses = {} THEN CommandOf(taken[j].text) \in {"group", "endgroup"} => ~taken[j].emit
          ELSE \A i \in pauses :
                 /\ taken[j].emit <=> CommandOf(taken[j].text) # Title(taken[i].text)
                 /\ taken[j].group = taken[i].group
=============================================================================
