--------------------------- MODULE SecondRoundAbs ---------------------------
(***************************************************************************)
(* What the second round promises: the border router is told START once,   *)
(* then STOP for each line of motes, in the order of the file and with the *)
(* line's run number, and only when every mote of the line has answered    *)
(* while the line was current; DONE comes with the last STOP.  In which    *)
(* order the motes of a line answer is left open.  Once a datagram has     *)
(* been duplicated, the order of the lines is still kept, but a STOP no    *)
(* longer says that every mote of its line has answered.                   *)
(***************************************************************************)
EXTENDS Integers, Sequences

CONSTANTS
    NumLines,     \* lines of ids in the file
    RunNo,        \* RunNo[l]: the Run_no in force at line l
    MotesOf,      \* MotesOf[l]: the motes line l names
    Motes         \* all motes that can answer

VARIABLES
    line,         \* the current line, 0 before the first
    answered,     \* motes that have answered while the line was current
    log,          \* what the border router has been sent
    dup           \* has a datagram been duplicated?

avars == <<line, answered, log, dup>>

Entry(type, run) == [type |-> type, run_count |-> run]

Init == line = 0 /\ answered = {} /\ log = <<>> /\ dup = FALSE

Begin ==
    /\ log = <<>>
    /\ \/ NumLines > 0 /\ line' = 1 /\ log' = <<Entry("START", RunNo[1])>>
       \/ line' = 0 /\ log' = <<Entry("START", 0)>>
    /\ answered' = {}
    /\ dup' = dup

Answer(m) ==
    /\ line \in 0..NumLines
    /\ answered' = answered \cup {m}
    /\ UNCHANGED <<line, log, dup>>

\* The last answer of a line.
Complete(m) ==
    /\ line \in 1..NumLines
    /\ dup \/ MotesOf[line] \subseteq answered \cup {m}
    /\ answered' = {}
    /\ dup' = dup
    /\ line' = line + 1
    /\ LET stop == Append(log, Entry("STOP", RunNo[line]))
       IN  log' = IF line < NumLines THEN stop
                                     ELSE Append(stop, Entry("DONE", RunNo[line]))

Duplicate ==
    /\ dup' = TRUE
    /\ UNCHANGED <<line, answered, log>>

Next == Begin \/ Duplicate \/ \E m \in Motes : Answer(m) \/ Complete(m)

Spec == Init /\ [][Next]_avars
=============================================================================
