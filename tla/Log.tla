--------------------------------- MODULE Log ---------------------------------
(***************************************************************************)
(* The log file (ui/src/services/logger.js over mkdirs, appendFile and     *)
(* writeFile of native/panet): lines are appended one by one on the thread *)
(* of the module, nobody waits for them, and a file that has grown beyond  *)
(* its limit is emptied before the next line.  A line that a full disk     *)
(* cuts is the line 0.  The application may be killed at any time.         *)
(***************************************************************************)
EXTENDS Naturals, Sequences

CONSTANTS
    MaxLines,   \* 512 KB
    MaxLogged   \* bound: lines logged

ASSUME LogAssumption == {MaxLines, MaxLogged} \subseteq Nat

VARIABLES
    logged,     \* lines logged
    dirReady,   \* _dirReady
    dir,        \* the directory is there
    lines,      \* the file
    pending,    \* native operations
    newest,     \* history: the last line that did get into it, and was not cleared
    missed      \* history: lines that never got whole into the file

history == <<newest, missed>>
log == <<logged, dirReady, dir, lines, pending, history>>

LogInit ==
    /\ logged = 0 /\ dirReady = FALSE /\ dir \in BOOLEAN
    /\ lines = <<>> /\ pending = <<>> /\ newest = 0 /\ missed = {}

Mkdirs == [op |-> "mkdirs", line |-> 0]

\* log, and initLog before the first line.
LogLine ==
    /\ logged < MaxLogged
    /\ logged' = logged + 1
    /\ dirReady' = TRUE
    /\ pending' = Append(IF dirReady THEN pending ELSE Append(pending, Mkdirs),
                         [op |-> "append", line |-> logged'])
    /\ UNCHANGED <<dir, lines, history>>

ClearLog ==
    /\ \A i \in DOMAIN pending : pending[i].op # "clear"
    /\ pending' = Append(pending, [op |-> "clear", line |-> 0])
    /\ UNCHANGED <<logged, dirReady, dir, lines, history>>

LogServes(op) == pending # <<>> /\ Head(pending).op = op

\* mkdirsOf, whose failure nobody notices.
MakeDirs ==
    /\ LogServes("mkdirs")
    /\ dir' \in {dir, TRUE}
    /\ pending' = Tail(pending)
    /\ UNCHANGED <<logged, dirReady, lines, history>>

\* The limit is looked at before a line is written.
Oversized(s) == Len(s) > MaxLines

\* A file that can be opened is first emptied if it is too long.
Rotate ==
    /\ LogServes("append") /\ Oversized(lines)
    /\ lines' = <<>>
    /\ UNCHANGED <<logged, dirReady, dir, pending, history>>

\* The fault: the line is written before the file is emptied.
WrittenFirst(n) == IF Oversized(Append(lines, n)) THEN <<>> ELSE Append(lines, n)

Written(n) == Append(lines, n)

AppendLine ==
    /\ LogServes("append") /\ ~Oversized(lines)
    /\ dir' \in {dir, TRUE}
    /\ LET n == Head(pending).line
       IN \/ dir' /\ lines' = Written(n) /\ newest' = n /\ UNCHANGED missed
          \/ dir' /\ lines' = Written(0) /\ missed' = missed \cup {n} /\ UNCHANGED newest
    /\ pending' = Tail(pending)
    /\ UNCHANGED <<logged, dirReady>>

\* The directory or the file cannot be made or opened.
AppendFails ==
    /\ LogServes("append")
    /\ missed' = missed \cup {Head(pending).line}
    /\ pending' = Tail(pending)
    /\ UNCHANGED <<logged, dirReady, dir, lines, newest>>

ClearFile ==
    /\ LogServes("clear")
    /\ IF dir THEN lines' = <<>> /\ newest' = 0 ELSE UNCHANGED <<lines, newest>>
    /\ pending' = Tail(pending)
    /\ UNCHANGED <<logged, dirReady, dir, missed>>

Killed ==
    /\ dirReady
    /\ dirReady' = FALSE /\ pending' = <<>>
    /\ missed' = missed \cup ({pending[i].line : i \in DOMAIN pending} \ {0})
    /\ UNCHANGED <<logged, dir, lines, newest>>

LogNext ==
    \/ LogLine \/ ClearLog \/ MakeDirs \/ Rotate \/ AppendLine \/ AppendFails
    \/ ClearFile \/ Killed

LogSpec == LogInit /\ [][LogNext]_log

-----------------------------------------------------------------------------
InFile(n) == \E i \in DOMAIN lines : lines[i] = n

\* The file never exceeds its limit by more than the last line; its whole lines are
\* in the order in which they were logged, each once; between two of them none is left
\* out but one that could not be written; and the newest is there, unless the file has
\* just been emptied, for the next line or at last by a kill between the two.
LogIsRecent ==
    /\ Len(lines) <= MaxLines + 1
    /\ \A i, j \in DOMAIN lines :
         i < j /\ lines[i] # 0 /\ lines[j] # 0 =>
            /\ lines[i] < lines[j]
            /\ \A n \in (lines[i] + 1)..(lines[j] - 1) : n \in missed \/ InFile(n)
    /\ newest # 0 /\ ~InFile(newest) =>
         /\ \A i \in DOMAIN lines : lines[i] = 0
         /\ LogServes("append") \/ newest + 1 \in missed
=============================================================================
