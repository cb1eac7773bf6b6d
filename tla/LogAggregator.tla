----------------------------- MODULE LogAggregator -----------------------------
(* monitoring/log_aggregator.py: the loop that re-emits what `docker compose   *)
(* logs` writes, and the ways out of it.                                       *)
(*                                                                             *)
(* The stop event is looked at only when a line has been read.  However the    *)
(* loop ends, its finally clause sees to the child: SIGTERM if it runs, SIGKILL*)
(* when it has not exited five seconds later.                                  *)
EXTENDS Integers, Sequences

CONSTANT MaxLines  \* bound: lines docker compose writes

ASSUME MaxLinesAssumption == MaxLines \in Nat

VARIABLES
    child,    \* the compose process: "running", "closed" its output, or "exited"
    lines,    \* the kinds of the lines it wrote
    loop,     \* "reading", "finally", "terminating", "killing" or "returned"
    read,     \* how many lines the loop has read
    emitted,  \* the numbers of the lines it re-emitted
    stop_event,  \* set by SIGINT and SIGTERM
    failed    \* whether the loop ended with an exception

aggregatorVars == <<child, lines, loop, read, emitted, stop_event, failed>>

(* "text": JSON or not, it is re-emitted; "blank": nothing after the name of   *)
(* the container; "long": more than the StreamReader's limit without a newline.*)
Kind == {"text", "blank", "long"}

AggregatorInit ==
    /\ child = "running" /\ lines = <<>>
    /\ loop = "reading" /\ read = 0 /\ emitted = <<>>
    /\ stop_event = FALSE /\ failed = FALSE

------------------------------------------------------------------------------
(* Mutants of the decisions below, for the runs to refute: output that ends    *)
(* with the process and not with its last line; an event that is never looked  *)
(* at; a finally clause that gives up on a child that ignores SIGTERM.         *)
OutputEndsWithChild == child # "running"
HeedsStopNever == FALSE
AfterTimeoutGivesUp == "returned"

\* StreamReader.__anext__ ends the loop when the pipe is drained and closed.
OutputEnds == child # "running" /\ read = Len(lines)

HeedsStop == stop_event

\* proc.kill()
AfterTimeout == "killing"

\* ---- docker compose logs

Write ==
    /\ child = "running" /\ Len(lines) < MaxLines
    /\ \E kind \in Kind : lines' = Append(lines, kind)
    /\ UNCHANGED <<child, loop, read, emitted, stop_event, failed>>

\* Without --follow, or when the stack is gone, or for a Ctrl-C of its own.
Close ==
    /\ child = "running"
    /\ child' = "closed"
    /\ UNCHANGED <<lines, loop, read, emitted, stop_event, failed>>

Exit ==
    /\ child = "closed"
    /\ child' = "exited"
    /\ UNCHANGED <<lines, loop, read, emitted, stop_event, failed>>

\* SIGTERM may take effect; SIGKILL does.
SignalTakesEffect ==
    /\ child # "exited" /\ loop \in {"terminating", "killing"}
    /\ child' = "exited"
    /\ UNCHANGED <<lines, loop, read, emitted, stop_event, failed>>

\* ---- the aggregator

AggregatorSignal ==
    /\ ~stop_event /\ loop # "returned"
    /\ stop_event' = TRUE
    /\ UNCHANGED <<child, lines, loop, read, emitted, failed>>

ReadLine ==
    /\ loop = "reading" /\ read < Len(lines) /\ lines[read + 1] # "long"
    /\ read' = read + 1
    /\ IF HeedsStop
       THEN loop' = "finally" /\ UNCHANGED emitted
       ELSE /\ emitted' = IF lines[read + 1] = "text" THEN Append(emitted, read + 1)
                                                      ELSE emitted
            /\ UNCHANGED loop
    /\ UNCHANGED <<child, lines, stop_event, failed>>

\* readline raises a ValueError, whether or not the event is set.
ReadTooLong ==
    /\ loop = "reading" /\ read < Len(lines) /\ lines[read + 1] = "long"
    /\ read' = read + 1
    /\ loop' = "finally" /\ failed' = TRUE
    /\ UNCHANGED <<child, lines, emitted, stop_event>>

ReadEnd ==
    /\ loop = "reading" /\ OutputEnds
    /\ loop' = "finally"
    /\ UNCHANGED <<child, lines, read, emitted, stop_event, failed>>

\* The exit was noticed already: returncode is set.
NothingToStop ==
    /\ loop = "finally" /\ child = "exited"
    /\ loop' = "returned"
    /\ UNCHANGED <<child, lines, read, emitted, stop_event, failed>>

\* It was not: a child that closed its output may exit before the signal, or of it.
Terminate ==
    /\ loop = "finally"
    /\ loop' = "terminating"
    /\ UNCHANGED <<child, lines, read, emitted, stop_event, failed>>

WaitReturns ==
    /\ loop \in {"terminating", "killing"} /\ child = "exited"
    /\ loop' = "returned"
    /\ UNCHANGED <<child, lines, read, emitted, stop_event, failed>>

WaitTimesOut ==
    /\ loop = "terminating" /\ child # "exited"
    /\ loop' = AfterTimeout
    /\ UNCHANGED <<child, lines, read, emitted, stop_event, failed>>

AggregatorStep ==
    \/ ReadLine \/ ReadTooLong \/ ReadEnd
    \/ NothingToStop \/ Terminate \/ WaitReturns \/ WaitTimesOut

AggregatorNext ==
    \/ AggregatorStep \/ AggregatorSignal
    \/ Write \/ Close \/ Exit \/ SignalTakesEffect

\* Docker need not write, end or obey SIGTERM, but nothing survives SIGKILL.
Fairness ==
    /\ WF_aggregatorVars(AggregatorStep)
    /\ WF_aggregatorVars(loop = "killing" /\ SignalTakesEffect)

AggregatorSpec == AggregatorInit /\ [][AggregatorNext]_aggregatorVars /\ Fairness

------------------------------------------------------------------------------
(* The aggregator leaves no compose process behind, not when a line is too     *)
(* long for it and not when docker ignores SIGTERM.                            *)
NoChildLeftBehind == loop = "returned" => child = "exited"

Emitted == {emitted[n] : n \in DOMAIN emitted}
Texts(k) == {j \in 1..k : lines[j] = "text"}

\* The lines docker wrote that have a text and were not re-emitted.
Dropped == Texts(Len(lines)) \ Emitted

(* log_aggregator.py:5 "so nothing gets silently dropped" is said of lines     *)
(* that are no JSON.  Of all that docker wrote, what is re-emitted comes once  *)
(* and in order, and what is dropped is a tail: the line the loop ended at and *)
(* every one behind it, read or not - and only when a signal or a line too     *)
(* long ended the loop.  While it reads, only lines not read yet are missing.  *)
OnlyTheTailIsDropped ==
    /\ \A m, n \in DOMAIN emitted : m < n => emitted[m] < emitted[n]
    /\ Emitted \subseteq Texts(Len(lines))
    /\ loop = "reading" => \A j \in Dropped : j > read
    /\ loop # "reading" => \A j \in Dropped : (stop_event \/ failed) /\ j >= read

(* A signal ends the aggregator once docker writes another line or ends, also  *)
(* when the child then has to be killed.  On a silent stack nothing notices it.*)
SignalIsNoticed ==
    stop_event /\ (read < Len(lines) \/ child # "running") ~> loop = "returned"
==============================================================================
