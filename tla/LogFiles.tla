------------------------------- MODULE LogFiles ------------------------------
(***************************************************************************)
(* Reading a log with rotation (zabbix_agent/logfiles.c, process_logrt):   *)
(* the agent keeps no file open; it remembers a position and the mtime of  *)
(* the file it belongs to, and finds that file again by its mtime among    *)
(* the files of the directory.                                             *)
(*                                                                         *)
(* The application writes whole lines to the last file of lfFiles; a       *)
(* rotation renames every file, so that a name stands for a place counted  *)
(* from the end.  A position counts lines.                                 *)
(***************************************************************************)
EXTENDS Integers, Sequences, FiniteSets, FiniteSetsExt, SequencesExt

CONSTANTS
    SameSecond,     \* a file may be rotated in the second of its last line
    RotatesInScan,  \* files may be renamed between readdir and open
    MaxLogLines, MaxFiles, MaxLogNow    \* bounds on lines, files and time

ASSUME LogFilesAssumption ==
    /\ {SameSecond, RotatesInScan} \subseteq BOOLEAN
    /\ {MaxLogLines, MaxFiles, MaxLogNow} \subseteq Nat

VARIABLES
    lfFiles,    \* the files, oldest first: [before, lines, mtime]; before counts the lines of older files
    lfGone,     \* how many of them, from the oldest, are deleted
    lfNow,
    lfSkip,     \* active_metrics[].skip_old_data
    lfPos, lfMtime,     \* active_metrics[].lastlogsize and mtime
    lfList,     \* what readdir found: <<[name, mtime], ...>>, or <<>>
    lfLast,     \* ghost: number of the line that was read last
    lfRead,     \* ghost: position and mtime with which that line was sent
    lfWrong     \* ghost: a line was left out or read twice

lfVars == <<lfFiles, lfGone, lfNow, lfSkip, lfPos, lfMtime, lfList, lfLast, lfRead, lfWrong>>

LFInit ==
    /\ lfFiles = <<[before |-> 0, lines |-> 0, mtime |-> 0]>> /\ lfGone = 0 /\ lfNow = 0
    /\ lfSkip \in BOOLEAN /\ lfPos = 0 /\ lfMtime = 0 /\ lfList = <<>>
    /\ lfLast = 0 /\ lfRead = [pos |-> 0, mtime |-> 0] /\ lfWrong = FALSE

Newest == Last(lfFiles)
Total == Newest.before + Newest.lines

\* The file with a name, 0 when there is none: the current file has the name 0.
FileOf(name) == IF Len(lfFiles) - name > lfGone THEN Len(lfFiles) - name ELSE 0

-----------------------------------------------------------------------------
(* The application and its rotation *)

AppendLine ==
    /\ Total < MaxLogLines
    /\ lfFiles' = [lfFiles EXCEPT ![Len(lfFiles)].lines = @ + 1, ![Len(lfFiles)].mtime = lfNow]
    /\ UNCHANGED <<lfGone, lfNow, lfSkip, lfPos, lfMtime, lfList, lfLast, lfRead, lfWrong>>

Rotate ==
    /\ Len(lfFiles) < MaxFiles
    /\ SameSecond \/ Newest.mtime < lfNow
    /\ RotatesInScan \/ lfList = <<>>
    /\ lfFiles' = Append(lfFiles, [before |-> Total, lines |-> 0, mtime |-> lfNow])
    /\ UNCHANGED <<lfGone, lfNow, lfSkip, lfPos, lfMtime, lfList, lfLast, lfRead, lfWrong>>

\* The oldest file is deleted once a line of a later one has been read.
DeleteOldest ==
    /\ lfGone + 1 < Len(lfFiles) /\ lfFiles[lfGone + 1].mtime < lfRead.mtime
    /\ lfLast > lfFiles[lfGone + 2].before
    /\ lfGone' = lfGone + 1
    /\ UNCHANGED <<lfFiles, lfNow, lfSkip, lfPos, lfMtime, lfList, lfLast, lfRead, lfWrong>>

LogTick ==
    /\ lfNow < MaxLogNow /\ lfNow' = lfNow + 1
    /\ UNCHANGED <<lfFiles, lfGone, lfSkip, lfPos, lfMtime, lfList, lfLast, lfRead, lfWrong>>

-----------------------------------------------------------------------------
(* process_logrt *)

\* readdir and add_logfile: by mtime; of equal ones the greater name comes first, so
\* that the order is the one in which the files were made.
add_logfile ==
    /\ lfList = <<>>
    /\ lfList' = [k \in 1 .. Len(lfFiles) - lfGone |->
                    [name |-> Len(lfFiles) - lfGone - k, mtime |-> lfFiles[lfGone + k].mtime]]
    /\ UNCHANGED <<lfFiles, lfGone, lfNow, lfSkip, lfPos, lfMtime, lfLast, lfRead, lfWrong>>

\* Mutant: the file with the mtime that was noted is taken as done
ChosenLater(list) ==
    LET from == {k \in DOMAIN list : list[k].mtime > lfMtime}
    IN  IF lfSkip \/ from = {} THEN Len(list) ELSE Min(from)

\* The first file that is not older than mtime; of those with its mtime the last one;
\* the newest file when all are older.
Chosen(list) ==
    LET from == {k \in DOMAIN list : list[k].mtime >= lfMtime}
        first == IF lfSkip \/ from = {} THEN Len(list) ELSE Min(from)
    IN  Max({k \in first .. Len(list) : list[k].mtime = list[first].mtime})

\* A file at its end is left for the next one of the list, from the beginning of that.
ReadLog ==
    LET i == Chosen(lfList)
        f(k) == FileOf(lfList[k].name)
        size(k) == lfFiles[f(k)].lines
        from(k) == IF k > i THEN 0
                   ELSE IF lfSkip THEN size(k)
                   ELSE IF size(k) < lfPos THEN 0 ELSE lfPos
        ready == {k \in i .. Len(lfList) : f(k) # 0 /\ from(k) < size(k)}
        missing == {k \in i .. Len(lfList) : f(k) = 0}
        k == IF ready = {} THEN Len(lfList) ELSE Min(ready)
        line == lfFiles[f(k)].before + from(k) + 1
    IN  /\ lfList # <<>> /\ lfList' = <<>>
        /\ IF \E m \in missing : m <= k        \* zbx_stat fails: FAIL
           THEN UNCHANGED <<lfSkip, lfPos, lfMtime, lfLast, lfRead, lfWrong>>
           ELSE /\ lfMtime' = lfFiles[f(k)].mtime
                /\ lfSkip' = FALSE
                /\ IF ready = {}               \* the end of the newest file
                   THEN /\ lfPos' = from(k)
                        /\ lfLast' = IF lfSkip THEN lfFiles[f(k)].before + from(k) ELSE lfLast
                        /\ UNCHANGED <<lfRead, lfWrong>>
                   ELSE /\ lfPos' = from(k) + 1
                        /\ lfLast' = line /\ lfWrong' = (lfWrong \/ line # lfLast + 1)
                        /\ lfRead' = [pos |-> lfPos', mtime |-> lfMtime']
        /\ UNCHANGED <<lfFiles, lfGone, lfNow>>

\* The agent starts again with what the server has of the last line; only a log of
\* which nothing was sent may be skipped again.
LogRestart ==
    /\ lfLast > 0 /\ lfRead.pos > 0
    /\ lfPos' = lfRead.pos /\ lfMtime' = lfRead.mtime /\ lfSkip' = FALSE /\ lfList' = <<>>
    /\ UNCHANGED <<lfFiles, lfGone, lfNow, lfLast, lfRead, lfWrong>>

LFNext == AppendLine \/ Rotate \/ DeleteOldest \/ LogTick \/ add_logfile \/ ReadLog \/ LogRestart

LFSpec == LFInit /\ [][LFNext]_lfVars

-----------------------------------------------------------------------------
(* Properties *)

\* Over rotations, deletions and restarts the lines are read one after the other,
\* none left out and none twice, as long as a second lies between two files.
LinesInOrder == ~lfWrong
=============================================================================
